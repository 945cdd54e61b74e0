-------------------------- MODULE MCTaskExecution --------------------------
EXTENDS TaskExecution

CONSTANTS t1, e1, e2

OneTask  == {t1}
TwoCalls == {e1, e2}
=============================================================================
