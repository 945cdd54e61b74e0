SPECIFICATION Spec
CONSTANTS
    c1 = c1  c2 = c2
    k1 = k1  k2 = k2
    m1 = m1  m2 = m2
    p1 = p1  p2 = p2
    f1 = f1  f2 = f2
    s1 = s1  s2 = s2  s3 = s3  s4 = s4
    texts = texts  other = other
    None = None
    Clients = {c1, c2}
    Mixes <- MCMixes
    Keys = {k1, k2}
    Candidates = {m1, m2}
    ReservedPaths <- MCReservedPaths
    Projects = {p1, p2}
    Remotes <- MCRemotes
    AllowedHosts = {"allowed"}
    Drafts = {f1, f2}
    Contents <- MCContents
    Loops = {1, 2}
    Sessions <- MCSessions
    HrLimit = 2
    FindingLimit = 1
    AgentOutputs <- MCAgentOutputs
    Texts <- MCTexts
    Newline = Newline
    Retention = 4
INVARIANTS
    TypeOK
    DeploymentsAreAccounted
    RegistriesKeepWhatTheyReported
    SessionIsTailedOnce
    ClientsMissNothing
PROPERTIES
    QueuedIsValidated
    ReviewsAreFinal
CHECK_DEADLOCK FALSE
