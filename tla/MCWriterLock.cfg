CONSTANTS
    p1 = p1  p2 = p2  p3 = p3
    Process <- ThreeProcesses
    CrashBound = 2
SPECIFICATION FairSpec
INVARIANTS TypeOK SingleWriterUnlessRaced
PROPERTIES LiveLockIsRemovedByItsOwner AbandonedLockIsReclaimed
