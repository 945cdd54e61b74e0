SPECIFICATION Spec
CONSTANTS
    Calls = {c1, c2}
    Agents <- MCAgents
    MaxAttempts = 2
    Workspaces = {1, 2}
    CommitBound = 3
    SnapshotBound = 3
    OperatorBound = 1
    FaultBound = 1
CONSTANT c1 = c1
CONSTANT c2 = c2
SYMMETRY MCSymmetry
CHECK_DEADLOCK FALSE
INVARIANTS
    TypeOK
    IndexedSnapshotsArePinned
    NothingIsLeftBehind
    WorktreesAreFresh
    CandidateIsAuthorized
    SuccessIsCandidate
    FailedWorkIsKept
