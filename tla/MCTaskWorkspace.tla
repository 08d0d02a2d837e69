-------------------------- MODULE MCTaskWorkspace --------------------------
\* Model-checking instance of TaskWorkspace: two processes.
EXTENDS TaskWorkspace, TLC

CONSTANTS p1, p2

MCProc == {p1, p2}
=============================================================================
