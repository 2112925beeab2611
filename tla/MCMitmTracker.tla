--------------------------- MODULE MCMitmTracker ---------------------------
(***************************************************************************)
(* MitmTracker for TLC: connections are interchangeable, but liveness is   *)
(* checked without symmetry.                                               *)
(***************************************************************************)
EXTENDS MitmTracker

CONSTANTS k1, k2, k3

=============================================================================
