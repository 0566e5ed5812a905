-------------------------- MODULE MCRolloverDrain --------------------------
EXTENDS RolloverDrain, TLC

MCBackoffSpent == [n \in 0..Attempts |-> 2^n - 1]
MCJobSymmetry == Permutations(Jobs)
=============================================================================
