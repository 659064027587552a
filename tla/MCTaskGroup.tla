---------------------------- MODULE MCTaskGroup ----------------------------
\* A small instance of TaskGroup for TLC.
EXTENDS TaskGroup
CONSTANTS t1, t2, t3, k1, k2
=============================================================================
