-------------------------- MODULE MCAsyncExitStack --------------------------
\* A small instance of AsyncExitStack for TLC: two goroutines close the stacks
\* while a context is entered and an exit function and a callback are pushed.
EXTENDS AsyncExitStack
CONSTANTS c1, c2
MCClosers == {c1, c2}
Symmetry == Permutations(MCClosers)
=============================================================================
