------------------------------ MODULE ClaimRace ------------------------------
(***************************************************************************)
(* ClaimPod calls racing each other on a pool that is not being refilled:  *)
(* several replicas, several calls for one session, requests that fail     *)
(* before or after they take effect.                                       *)
(***************************************************************************)
EXTENDS WarmPoolClaim

vars == <<clusterVars, claim>>

\* A warm pool as the operator left it: some pods Ready, some just created.
PoolPod(h, b) == [NeverCreated EXCEPT !.state = "live", !.rv = 1, !.health = h, !.born = b]

Init ==
    /\ \E health \in [Pods -> {"starting", "ready"}], born \in [Pods -> {0, 1}] :
          pods = [p \in Pods |-> PoolPod(health[p], born[p])]
    /\ secrets = {}
    /\ agents = [p \in Pods |-> NoSession]
    /\ ClaimInit

KubeletStep ==
    /\ \E p \in Pods : \/ \E h \in Health : KubeletStatus(p, h)
                       \/ ContainerStart(p)
                       \/ KubeletRemove(p)
    /\ UNCHANGED claim

Next == (\E c \in Claims : ClaimStep(c)) \/ KubeletStep

Spec == Init /\ [][Next]_vars

-----------------------------------------------------------------------------

\* ClaimPod "atomically claims an unassigned sandbox pod for the given session":
\* a pod that a call returned carries the session's label for as long as it is
\* live.
ReturnedPodIsClaimed ==
    \A c \in Claims :
       claim[c].pc = "done" /\ pods[claim[c].pod].state = "live"
          => pods[claim[c].pod].label = SessionOf[c]

\* "On any failure after the label patch, it rolls back all changes": a live
\* pod that is unlabelled again has an agent without a token, so that the next
\* claim of it can succeed.
RollbackRestoresPod ==
    \A p \in Pods :
       pods[p].state = "live" /\ pods[p].label = NoSession => agents[p] = NoSession

=============================================================================
