--------------------------- MODULE MCSandboxAgent ---------------------------
(***************************************************************************)
(* SandboxAgent for TLC: clients x1 and x2 of the session whose token is   *)
(* t1; a1 assigns that token and a2 another one.                           *)
(***************************************************************************)
EXTENDS SandboxAgent

CONSTANTS x1, x2, a1, a2, t1, t2

MCTokenOf == [x \in Execs \cup Assigns |-> IF x = a2 THEN t2 ELSE t1]

=============================================================================
