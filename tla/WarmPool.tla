------------------------------ MODULE WarmPool ------------------------------
(***************************************************************************)
(* The warm pool as a whole: the operator's reconcilePool keeps unassigned *)
(* sandbox pods ready while ClaimPod calls on the MCP server replicas take *)
(* them.  The two never talk to each other; resourceVersions are all that  *)
(* keeps them apart.                                                       *)
(***************************************************************************)
EXTENDS WarmPoolClaim, WarmPoolOperator

vars == <<clusterVars, claim, operatorVars>>

TypeOK == ClusterTypeOK /\ ClaimTypeOK /\ OperatorTypeOK

Init ==
    /\ ClusterInit
    /\ \E calls \in SUBSET Claims : ClaimsMade(calls)
    /\ OperatorInit

\* What a step of someone else does to the operator's view
Observed == Publish /\ Returned /\ UNCHANGED <<cache, spec>>

McpStep == (\E c \in Claims : ClaimStep(c)) /\ Observed

KubeletStep ==
    /\ \E p \in Pods : \/ \E h \in Health : KubeletStatus(p, h)
                       \/ ContainerStart(p)
                       \/ KubeletRemove(p)
    /\ Observed
    /\ UNCHANGED claim

AdminStep ==
    /\ \E size \in Sizes, hash \in Hashes : EditSpec(size, hash)
    /\ UNCHANGED claim

Next ==
    \/ McpStep
    \/ KubeletStep
    \/ (OperatorStep \/ Deliver) /\ UNCHANGED claim
    \/ AdminStep

Spec == Init /\ [][Next]_vars

-----------------------------------------------------------------------------
(* Safety.                                                                 *)

\* reconcilePool never deletes a pod that carries a session id, however stale
\* the cache it works from: a pod the operator stamps for deletion is
\* unassigned in the API server at that moment.
PoolDeleteSparesSessions ==
    [][ op.pc = "delete" /\ op'.pc # "delete" =>
          \A p \in Pods : pods[p].state = "live" /\ pods'[p].state = "terminating"
                            => pods[p].label = NoSession ]_vars

\* A label is written only onto a pod without one, and is taken off only by a
\* claim of the session it names that is giving that very pod back.
LabelOnlyClearedByItsClaim == [][LabelChangeIsOwn]_vars

\* A pass that lists an up-to-date cache never takes the pool over its desired
\* size, counting terminating pods and leaving out pods that claims gave back
\* meanwhile.
SyncedPassNeverOvershoots ==
    [][ op.pc = "create" /\ op.synced /\ op'.pc = "create" /\ op'.deficit < op.deficit
        => Cardinality({p \in Pods : Unassigned(pods'[p])} \ op.returned) <= op.desired ]_vars

-----------------------------------------------------------------------------
(* The abstract specification: labels are ownership, and a pod is settled  *)
(* when the ClaimPod call of a session has returned it.  With two calls    *)
(* for a session no pod counts as settled: keepOldestAssigned then deletes *)
(* what it found labelled, though the pod may meanwhile be another's.      *)

Settled ==
    IF OneCallPerSession
    THEN {p \in Pods : InApi(pods[p]) /\ \E c \in Claims : claim[c].pc = "done" /\ claim[c].pod = p}
    ELSE {}

Ownership == INSTANCE PodOwnership
             WITH place   <- [p \in Pods |-> pods[p].state],
                  owner   <- [p \in Pods |-> pods[p].label],
                  settled <- Settled

\* The claims, reconcilePool and the kubelet together implement pod ownership:
\* in particular a pod that ClaimPod returned to its session is neither
\* relabelled nor given back nor deleted, by a claim or by the operator.
PodsAreOwned == Ownership!Spec

-----------------------------------------------------------------------------
(* Liveness.  The workqueue always runs another pass (watch events and the *)
(* periodic resync), the watch delivers, and a terminating pod goes away.  *)
(* A write of the operator that is tried again and again succeeds at last. *)
(* Nothing is assumed of ClaimPod calls: one may stop anywhere.            *)

Fairness ==
    /\ WF_vars(OperatorStep /\ UNCHANGED claim)
    /\ SF_vars(DeleteUnassigned /\ UNCHANGED claim)
    /\ SF_vars((\E p \in Pods : createPoolPod(p)) /\ UNCHANGED claim)
    /\ WF_vars(Deliver /\ UNCHANGED claim)
    /\ WF_vars((\E p \in Pods : KubeletRemove(p)) /\ Observed /\ UNCHANGED claim)

FairSpec == Spec /\ Fairness

PoolPods == {p \in Pods : Unassigned(pods[p]) /\ ~Terminating(pods[p])}

\* Once the instance is no longer edited and the claims are over or stuck,
\* reconcilePool brings the pool to its desired size with the current overlay and
\* keeps it there, though it always works from a cache that lags, may first create
\* too many pods or delete the wrong ones, and has passes cut short by errors.
\* (The model may run out of pod names where the code does not; then the pool can
\* only be too small.)
PoolConverges ==
    <>[](/\ Cardinality(PoolPods) <= spec.size
         /\ Cardinality(PoolPods) = spec.size \/ Unused = {}
         /\ \A p \in PoolPods : pods[p].hash = spec.hash)

=============================================================================
