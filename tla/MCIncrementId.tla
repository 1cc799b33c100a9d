---------------------------- MODULE MCIncrementId ----------------------------
\* Small instances of IncrementId for TLC.
EXTENDS IncrementId, TLC

CONSTANTS shop, admin

TwoApps == {shop, admin}
SomeLimits == {1, 2, 3}

Symmetry == Permutations(TwoApps)
=============================================================================
