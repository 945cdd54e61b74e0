CONSTANTS
    p1 = p1  p2 = p2  p3 = p3
    Process <- ThreeProcesses
    CrashBound = 0
SPECIFICATION Spec
INVARIANTS SingleWriter
