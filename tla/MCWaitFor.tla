----------------------------- MODULE MCWaitFor -----------------------------
\* A small instance of WaitFor for TLC: one call of three functions, no callbacks.
EXTENDS WaitFor
CONSTANTS t1, t2, t3
MCFns == <<t1, t2, t3>>
=============================================================================
