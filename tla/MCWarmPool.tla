----------------------------- MODULE MCWarmPool -----------------------------
(***************************************************************************)
(* WarmPool for TLC: pool pods only, so no pod has a token in its          *)
(* environment.  Calls c1 and c2 claim for one session, on two replicas;   *)
(* c3 and c4 claim for another, and the requests of c4 may fail.           *)
(***************************************************************************)
EXTENDS WarmPool

CONSTANTS c1, c2, c3, c4, s1, s2

MCSessionOf == [c \in Claims |-> IF c \in {c1, c2} THEN s1 ELSE s2]

MCNoEnvToken == [p \in Pods |-> NoSession]

\* States the pool can be in after one pod has come and gone: two calls, of one
\* session or of two, or one whose requests fail, meet a pool of two pods, made in
\* one pass, that the operator is about to cut; or one call meets a pool that is
\* being filled.  Both are reachable from Init with 2 among the Sizes, which the run
\* leaves out to keep the edits of FirstPod few.
GonePod == [NeverCreated EXCEPT !.state = "gone", !.rv = 4]

RunningPod == [NeverCreated EXCEPT !.state = "live", !.rv = 2, !.health = "running", !.born = 1]

Edited(size) == spec = [size |-> size, hash |-> 0, edits |-> MaxEdits]

PoolOfTwo ==
    /\ pods = [p \in Pods |-> IF p = 1 THEN GonePod ELSE RunningPod]
    /\ \/ Edited(1) /\ ClaimsMade({c2, c3})
       \/ Edited(0) /\ (ClaimsMade({c1, c2}) \/ ClaimsMade({c4}))

EmptyPool ==
    /\ pods = [p \in Pods |-> IF p = 1 THEN GonePod ELSE NeverCreated]
    /\ Edited(1) /\ ClaimsMade({c3})

\* The first pod of a pool of one is made; then the pool is edited, size or overlay.
FirstPod ==
    /\ pods = [p \in Pods |-> IF p = 1 THEN [NeverCreated EXCEPT !.state = "live", !.rv = 1]
                              ELSE NeverCreated]
    /\ spec = [size |-> 1, hash |-> 0, edits |-> 0] /\ ClaimsMade({})

MCInit ==
    /\ PoolOfTwo \/ EmptyPool \/ FirstPod
    /\ secrets = {} /\ agents = [p \in Pods |-> NoSession]
    /\ cache = pods /\ watch = <<>> /\ op = Idle

MCSpec == MCInit /\ [][Next]_vars /\ Fairness

=============================================================================
