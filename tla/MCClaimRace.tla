----------------------------- MODULE MCClaimRace -----------------------------
(***************************************************************************)
(* ClaimRace for TLC: c1 and c2 claim for the same session, as two MCP     *)
(* server replicas do when a client retries; c3 claims for another one.    *)
(***************************************************************************)
EXTENDS ClaimRace

CONSTANTS c1, c2, c3, s1, s2

MCSessionOf == [c \in Claims |-> IF c = c3 THEN s2 ELSE s1]

MCNoEnvToken == [p \in Pods |-> NoSession]

=============================================================================
