------------------------------ MODULE MCQueue ------------------------------
\* Small instances of Queue for TLC: the calls are model values.
EXTENDS Queue
CONSTANTS p1, p2, p3, g1, g2, g3, j1
=============================================================================
