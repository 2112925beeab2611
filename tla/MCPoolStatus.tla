---------------------------- MODULE MCPoolStatus ----------------------------
EXTENDS PoolStatus, TLC

CONSTANTS s1, s2, s3

Symmetry == Permutations(Slots)

=============================================================================
