-------------------------- MODULE MCSessionManager --------------------------
(***************************************************************************)
(* SessionManager for TLC: c1 and c2 are calls of one session on two       *)
(* replicas, c3 is a call of another session on the first one, and the     *)
(* requests of c4 may fail.  Pods 1 and 2 are warm-pool pods, 3 and 4      *)
(* incarnations of the first session's on-demand pod.                      *)
(***************************************************************************)
EXTENDS SessionManager

CONSTANTS c1, c2, c3, c4, s1, s2, r1, r2

MCSessionOf == [c \in Claims |-> IF c = c3 THEN s2 ELSE s1]

MCReplicaOf == [c \in Claims |-> IF c = c2 THEN r2 ELSE r1]

MCEnvToken == [p \in Pods |-> IF p > 2 THEN s1 ELSE NoSession]

TwoReplicas == [calls |-> {c1, c2}, pods |-> {1, 3}, ends |-> TRUE, gated |-> FALSE]

OnDemandOnly == [calls |-> {c1, c2}, pods |-> {3, 4}, ends |-> TRUE, gated |-> FALSE]

TwoSessions == [calls |-> {c1, c3}, pods |-> {1, 3}, ends |-> FALSE, gated |-> FALSE]

LostAnswers == [calls |-> {c4}, pods |-> {1, 3}, ends |-> FALSE, gated |-> FALSE]

TwoPoolPods == [calls |-> {c1}, pods |-> {1, 2}, ends |-> FALSE, gated |-> FALSE]

\* The answers of one call of three are lost, and with them a reset notice.
LostNotice == [calls |-> {c1, c2, c4}, pods |-> {1}, ends |-> FALSE, gated |-> FALSE]

\* c3 and c4 share the gate of a replica; there is nothing to claim behind it.
Gated == [calls |-> {c3, c4}, pods |-> {}, ends |-> FALSE, gated |-> TRUE]

MCWorkloads == {Gated, TwoReplicas, OnDemandOnly, TwoSessions, LostAnswers, TwoPoolPods,
                LostNotice}

MCRace == {[calls |-> {c1, c2}, pods |-> {1, 3}, ends |-> FALSE, gated |-> FALSE]}

=============================================================================
