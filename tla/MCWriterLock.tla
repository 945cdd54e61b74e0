---------------------------- MODULE MCWriterLock ----------------------------
EXTENDS WriterLock

CONSTANTS p1, p2, p3

ThreeProcesses == {p1, p2, p3}
=============================================================================
