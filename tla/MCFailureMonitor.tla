-------------------------- MODULE MCFailureMonitor --------------------------
EXTENDS FailureMonitor, TLC

RequestSymmetry == Permutations(Requests)
=============================================================================
