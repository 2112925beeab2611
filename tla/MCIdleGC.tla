------------------------------ MODULE MCIdleGC ------------------------------
EXTENDS IdleGC

CONSTANTS p1

MCPoolDelays == {0, 1}

=============================================================================
