-------------------------- MODULE MCExecutionLease --------------------------
\* Model-checking instances of ExecutionLease.  A stale lease takes a process
\* that died, a displaced one a process that acquired after the first recovery,
\* and an overlap yet another that acquired after the second: with one file per
\* process that is four processes, two of them recovering.  Links may be refused
\* to every process but one of the two: README says what happens when both copy.
EXTENDS ExecutionLease, TLC

CONSTANTS a, b, c, d
FourProcs == {a, b, c, d}
TwoRecoverers == {b, c}

AllButOne == {a, b, d}

\* The processes that differ in nothing.
SwapWithinRoles == Permutations({a, d})
=============================================================================
