--------------------------- MODULE OwnershipProofs ---------------------------
(***************************************************************************)
(* WarmPool implements PodOwnership.  A step changes at most one pod       *)
(* object, in one of five ways, and each way is an action of the abstract  *)
(* specification; a ClaimPod call that returns settles its pod.            *)
(***************************************************************************)
EXTENDS ClaimExclusionProofs

-----------------------------------------------------------------------------
(* What a step does to the pod objects.                                    *)

Same(q) == pods'[q].state = pods[q].state /\ pods'[q].label = pods[q].label

Kept == \A q \in Pods : Same(q)

Others(p) == \A q \in Pods \ {p} : Same(q)

Created(p) ==
    /\ pods[p].state = "none" /\ pods'[p].state = "live"
    /\ pods'[p].label = pods[p].label

Labelled(p) ==
    /\ InApi(pods[p]) /\ pods'[p].state = pods[p].state
    /\ pods[p].label = NoSession /\ pods'[p].label \in Sessions

Unlabelled(p) ==
    /\ InApi(pods[p]) /\ pods'[p].state = pods[p].state
    /\ pods[p].label # NoSession /\ pods'[p].label = NoSession
    /\ \E c \in Claims : claim[c].pc \in {"rollback", "rollbackAll"} /\ claim[c].pod = p

Retired(p) ==
    /\ pods[p].state = "live" /\ pods'[p].state = "terminating"
    /\ pods'[p].label = pods[p].label
    /\ \/ pods[p].label = NoSession
       \/ \E c \in Claims : claim[c].pc = "drop" /\ p \in claim[c].extras

Removed(p) ==
    /\ pods[p].state = "terminating" /\ pods'[p].state = "gone"
    /\ pods'[p].label = NoSession

Changed(p) ==
    Others(p) /\ (Created(p) \/ Labelled(p) \/ Unlabelled(p) \/ Retired(p) \/ Removed(p))

\* The warm pool has pool pods only, whose names nobody shares.
PoolPodsOnly == \A p \in Pods : pods[p].state # "none" => EnvToken[p] = NoSession

\* A label patch of ClaimPod.
LEMMA SetLabelChanges ==
    ASSUME ClusterTypeOK, NEW p \in Pods, NEW s \in Sessions \cup {NoSession}, SetLabel(p, s),
           \/ pods[p].label = NoSession
           \/ /\ s = NoSession
              /\ \E c \in Claims : claim[c].pc \in {"rollback", "rollbackAll"} /\ claim[c].pod = p
    PROVE  Kept \/ (Changed(p) /\ ~Created(p))
<1>1. /\ \A q \in Pods : pods'[q].state = pods[q].state
      /\ \A q \in Pods \ {p} : pods'[q] = pods[q]
      /\ InApi(pods[p]) => pods'[p].label = s
      /\ ~InApi(pods[p]) => pods'[p] = pods[p]
  BY SetLabelAdvances
<1>2. CASE pods'[p].label = pods[p].label
  BY <1>1, <1>2 DEF Kept, Same
<1>3. CASE pods'[p].label # pods[p].label
  <2>1. InApi(pods[p]) /\ pods'[p].label = s
    BY <1>1, <1>3
  <2>2. Labelled(p) \/ Unlabelled(p)
    BY <1>1, <1>3, <2>1 DEF Labelled, Unlabelled
  <2> QED
    BY <1>1, <2>1, <2>2 DEF Changed, Others, Same, Created, InApi
<1> QED
  BY <1>2, <1>3

\* A graceful delete.
LEMMA DeletePodChanges ==
    ASSUME ClusterTypeOK, NEW p \in Pods, DeletePod(p),
           \/ pods[p].label = NoSession
           \/ \E c \in Claims : claim[c].pc = "drop" /\ p \in claim[c].extras
    PROVE  Kept \/ (Changed(p) /\ ~Created(p))
<1>1. /\ \A q \in Pods : pods'[q].label = pods[q].label
      /\ \A q \in Pods \ {p} : pods'[q] = pods[q]
  BY DeletePodAdvances
<1>2. CASE pods[p].state # "live"
  BY <1>2 DEF DeletePod, Kept, Same
<1>3. CASE pods[p].state = "live"
  <2>1. pods'[p].state = "terminating"
    BY <1>3 DEF DeletePod, Write, ClusterTypeOK, PodRec
  <2>2. Retired(p)
    BY <1>1, <1>3, <2>1 DEF Retired
  <2> QED
    BY <1>1, <1>3, <2>2 DEF Changed, Others, Same, Created
<1> QED
  BY <1>2, <1>3

\* Steps of ClaimPod.
LEMMA ClaimStepChanges ==
    ASSUME ClusterTypeOK, ClaimTypeOK, HeldPods, LabelInv, PoolPodsOnly,
           NEW c \in Claims, ClaimStep(c)
    PROVE  Kept \/ \E p \in Pods : Changed(p) /\ ~Created(p)
<1> DEFINE Goal == Kept \/ \E p \in Pods : Changed(p) /\ ~Created(p)
<1>a. SessionOf[c] \in Sessions
  BY ClaimAssumption
<1>b. CASE UNCHANGED pods
  BY <1>b DEF Kept, Same
<1>1. ASSUME NEW p \in Pods, NextCandidate(c, p), PatchApplies(c, p), SetLabel(p, SessionOf[c])
      PROVE  Goal
  <2>1. pods[p].label = NoSession
    BY <1>1, PatchFindsUnassigned
  <2> QED
    BY <1>1, <1>a, <2>1, SetLabelChanges
<1>2. CASE \E p \in Pods : PatchLabel(c, p)
  BY <1>1, <1>2 DEF PatchLabel
<1>3. CASE \E p \in Pods : PatchFails(c, p)
  BY <1>1, <1>3, <1>b DEF PatchFails
<1>4. CASE rollbackLabel(c)
  <2>1. claim[c].pc \in {"rollback", "rollbackAll"} /\ claim[c].pod \in Pods
    BY <1>4 DEF rollbackLabel, HeldPods, Holding
  <2>2. CASE SetLabel(claim[c].pod, NoSession)
    BY <2>1, <2>2, SetLabelChanges
  <2> QED
    BY <1>4, <1>b, <2>2 DEF rollbackLabel
<1>5. ASSUME NEW p \in Pods, DropExtra(c, p)
      PROVE  Goal
  <2>1. claim[c].pc = "drop" /\ p \in claim[c].extras
    BY <1>5 DEF DropExtra
  <2>2. \A q \in Named(p) : q = p
    <3> SUFFICES ASSUME NEW q \in Pods, SameName(p, q), InApi(pods[q]), q # p
                 PROVE  FALSE
      BY DEF Named
    <3>1. EnvToken[q] # NoSession
      BY DEF SameName
    <3> QED
      BY <3>1 DEF PoolPodsOnly, InApi
  <2>3. UNCHANGED pods \/ DeletePod(p)
    BY <1>5, <2>2 DEF DropExtra, DeleteNamed
  <2> QED
    BY <1>b, <2>1, <2>3, DeletePodChanges
<1>6. CASE \/ listUnassignedPods(c) \/ ClaimFails(c) \/ CreateAuthSecret(c) \/ AssignToken(c)
           \/ AssignFails(c) \/ bestEffortDeleteSecret(c) \/ keepOldestAssigned(c) \/ KeptOldest(c)
  <2>1. UNCHANGED pods
    BY <1>6 DEF listUnassignedPods, ClaimFails, CreateAuthSecret, AssignToken, AssignFails,
                bestEffortDeleteSecret, keepOldestAssigned, KeptOldest, clusterVars
  <2> QED
    BY <1>b, <2>1
<1> QED
  BY <1>2, <1>3, <1>4, <1>5, <1>6 DEF ClaimStep

\* Steps of the kubelet.
LEMMA KubeletChanges ==
    ASSUME ClusterTypeOK, NEW p \in Pods,
           \/ \E h \in Health : KubeletStatus(p, h)
           \/ ContainerStart(p)
           \/ KubeletRemove(p)
    PROVE  Kept \/ Changed(p)
<1>1. ASSUME NEW h \in Health, Write(p, [pods[p] EXCEPT !.health = h])
      PROVE  Kept
  BY <1>1 DEF Write, Kept, Same, ClusterTypeOK, PodRec
<1>2. CASE (\E h \in Health : KubeletStatus(p, h)) \/ ContainerStart(p)
  <2>1. "running" \in Health
    BY DEF Health
  <2> QED
    BY <1>1, <1>2, <2>1 DEF KubeletStatus, ContainerStart
<1>3. CASE KubeletRemove(p)
  <2>1. /\ pods[p].state = "terminating"
        /\ Write(p, [NeverCreated EXCEPT !.state = "gone", !.born = pods[p].born])
    BY <1>3 DEF KubeletRemove
  <2>2. /\ \A q \in Pods \ {p} : pods'[q] = pods[q]
        /\ pods'[p].label = NoSession /\ pods'[p].state = "gone"
    BY <2>1 DEF Write, NeverCreated, ClusterTypeOK
  <2>3. Removed(p)
    BY <2>1, <2>2 DEF Removed
  <2> QED
    BY <2>2, <2>3 DEF Changed, Others, Same
<1> QED
  BY <1>2, <1>3

\* Steps of reconcilePool.  A pod it deletes carries no label.
LEMMA OperatorStepChanges ==
    ASSUME ClusterTypeOK, OperatorTypeOK, TargetWasUnassigned, NewPodsUnlabelled, OperatorStep
    PROVE  Kept \/ \E p \in Pods : Changed(p) /\ (Created(p) => p \in Unused)
<1> DEFINE Goal == Kept \/ \E p \in Pods : Changed(p) /\ (Created(p) => p \in Unused)
<1>1. CASE UNCHANGED pods
  BY <1>1 DEF Kept, Same
<1>2. CASE DeleteUnassigned \/ DeleteError
  <2>1. op.target \in Pods /\ (UNCHANGED pods \/ (PreconditionsHold /\ DeletePod(op.target)))
    BY <1>2 DEF DeleteUnassigned, DeleteError, TargetWasUnassigned
  <2>2. PreconditionsHold => pods[op.target].label = NoSession /\ pods[op.target].state # "none"
    BY <1>2 DEF PreconditionsHold, TargetWasUnassigned, DeleteUnassigned, DeleteError, InApi
  <2> QED
    BY <1>1, <2>1, <2>2, DeletePodChanges
<1>3. ASSUME NEW p \in Unused, CreatePod(p)
      PROVE  Goal
  <2>1. /\ \A q \in Pods \ {p} : pods'[q] = pods[q]
        /\ pods'[p].label = NoSession /\ pods'[p].state = "live" /\ pods[p].state = "none"
        /\ p \in Pods
    BY <1>3, CreateAdvances
  <2>2. Created(p)
    BY <2>1 DEF Created, NewPodsUnlabelled
  <2> QED
    BY <2>1, <2>2 DEF Changed, Others, Same
<1>4. CASE (\E p \in Pods : createPoolPod(p)) \/ CreateError
  <2>1. UNCHANGED pods \/ \E p \in Unused : CreatePod(p)
    BY <1>4 DEF createPoolPod, CreateError
  <2> QED
    BY <1>1, <1>3, <2>1
<1>5. CASE StartPass \/ StartZeroPass \/ (\E p \in Pods : ReGet(p)) \/ OccupiesSlot
          \/ ChooseSurplus \/ ChooseDeficit \/ EndPass
  <2>1. UNCHANGED pods
    BY <1>5 DEF StartPass, StartZeroPass, ReGet, OccupiesSlot, ChooseSurplus, ChooseDeficit, EndPass
  <2> QED
    BY <1>1, <2>1
<1> QED
  BY <1>2, <1>4, <1>5 DEF OperatorStep

\* Any step; it also leaves the pool with pool pods only.
LEMMA StepChanges ==
    ASSUME IInv, PoolPodsOnly, [Next]_vars
    PROVE  /\ Kept \/ \E p \in Pods : Changed(p)
           /\ PoolPodsOnly'
<1>0. /\ ClusterTypeOK /\ ClaimTypeOK /\ OperatorTypeOK /\ HeldPods
      /\ TargetWasUnassigned /\ LabelInv /\ NewPodsUnlabelled
  BY DEF IInv, TypeOK, LabelInv
<1>1. CASE OperatorStep
  BY <1>0, <1>1, OperatorStepChanges
  DEF Kept, Changed, Others, Same, Created, Labelled, Unlabelled, Retired, Removed, InApi,
      PoolPodsOnly, Unused
<1>2. CASE ~OperatorStep
  <2>1. Kept \/ \E p \in Pods : Changed(p) /\ ~Created(p)
    <3>1. CASE McpStep
      <4>1. PICK c \in Claims : ClaimStep(c)
        BY <3>1 DEF McpStep
      <4> QED
        BY <1>0, <4>1, ClaimStepChanges
    <3>2. CASE KubeletStep
      <4>1. PICK p \in Pods : \/ \E h \in Health : KubeletStatus(p, h)
                              \/ ContainerStart(p)
                              \/ KubeletRemove(p)
        BY <3>2 DEF KubeletStep
      <4>2. pods[p].state # "none"
        BY <4>1 DEF KubeletStatus, ContainerStart, KubeletRemove, InApi
      <4> QED
        BY <1>0, <4>1, <4>2, KubeletChanges DEF Created
    <3>3. CASE Deliver \/ AdminStep \/ UNCHANGED vars
      <4>1. UNCHANGED pods
        BY <3>3 DEF Deliver, AdminStep, EditSpec, vars, clusterVars
      <4> QED
        BY <4>1 DEF Kept, Same
    <3> QED
      BY <1>2, <3>1, <3>2, <3>3 DEF Next
  <2> QED
    BY <2>1
    DEF Kept, Changed, Others, Same, Labelled, Unlabelled, Retired, Removed, InApi, PoolPodsOnly
<1> QED
  BY <1>1, <1>2

-----------------------------------------------------------------------------
(* What a step does to the calls.                                          *)

\* Pods that keepOldestAssigned is about to delete are the session's own.
ExtrasAreOwn ==
    \A c \in Claims : claim[c].pc = "drop" =>
       \A p \in claim[c].extras :
          /\ p \in Pods /\ pods[p].state # "none"
          /\ InApi(pods[p]) => pods[p].label = SessionOf[c]

\* A call that has returned stays as it is, and no other call returns.
NoneReturns ==
    \A c \in Claims : /\ claim'[c].pc = "done" <=> claim[c].pc = "done"
                      /\ claim[c].pc = "done" => claim'[c].pod = claim[c].pod

\* Call c returns the pod it holds.
Returns(c) ==
    /\ UNCHANGED pods
    /\ claim[c].pc \in Held /\ claim'[c].pc = "done" /\ claim'[c].pod = claim[c].pod
    /\ \A d \in Claims \ {c} : claim'[d] = claim[d]
    /\ claim[c].pc # "done"

\* A call returns in a step that changes no pod; it holds its pod until then.
LEMMA StepReturns ==
    ASSUME ClusterTypeOK, ClaimTypeOK, HeldPods, [Next]_vars
    PROVE  NoneReturns \/ \E c \in Claims : Returns(c)
<1>1. CASE UNCHANGED claim
  BY <1>1 DEF NoneReturns
<1>2. ASSUME NEW c \in Claims, ClaimStep(c)
      PROVE  NoneReturns \/ Returns(c)
  <2>a. claim[c] \in ClaimRec /\ claim \in [Claims -> ClaimRec]
    BY DEF ClaimTypeOK
  <2>b. \A d \in Claims \ {c} : claim'[d] = claim[d]
    BY <1>2, ClaimStepType, MovesType
  <2>1. claim[c].pc # "done"
    BY <1>2 DEF ClaimStep, listUnassignedPods, PatchLabel, PatchFails, DropExtra, ClaimFails,
                CreateAuthSecret, AssignToken, AssignFails, rollbackLabel,
                bestEffortDeleteSecret, keepOldestAssigned, KeptOldest
  <2>2. CASE claim'[c].pc # "done"
    BY <2>1, <2>2, <2>b DEF NoneReturns
  <2>3. CASE claim'[c].pc = "done"
    <3>1. keepOldestAssigned(c) \/ KeptOldest(c)
      <4>1. ASSUME \/ listUnassignedPods(c) \/ ClaimFails(c) \/ CreateAuthSecret(c)
                   \/ AssignToken(c) \/ AssignFails(c) \/ rollbackLabel(c)
                   \/ bestEffortDeleteSecret(c)
            PROVE  FALSE
        BY <2>3, <2>a, <4>1
        DEF listUnassignedPods, ClaimFails, CreateAuthSecret, AssignToken, AssignFails,
            rollbackLabel, bestEffortDeleteSecret, Goto, ClaimRec
      <4>2. ASSUME NEW p \in Pods, PatchLabel(c, p) \/ PatchFails(c, p) \/ DropExtra(c, p)
            PROVE  FALSE
        BY <2>3, <2>a, <4>2 DEF PatchLabel, PatchFails, DropExtra, ClaimRec
      <4> QED
        BY <1>2, <4>1, <4>2 DEF ClaimStep
    <3>2. claim' = [claim EXCEPT ![c].pc = "done"] /\ claim[c].pc \in {"dedupe", "drop"}
      <4>1. CASE keepOldestAssigned(c)
        <5>1. \/ claim' = [claim EXCEPT ![c].pc = "done"]
              \/ \E keep, extras :
                    claim' = [claim EXCEPT ![c].pc = "drop", ![c].pod = keep, ![c].extras = extras]
          BY <4>1 DEF keepOldestAssigned, Goto
        <5>2. ASSUME NEW keep, NEW extras,
                     claim' = [claim EXCEPT ![c].pc = "drop", ![c].pod = keep,
                                            ![c].extras = extras]
              PROVE  FALSE
          BY <2>3, <2>a, <5>2 DEF ClaimRec
        <5> QED
          BY <4>1, <5>1, <5>2 DEF keepOldestAssigned
      <4> QED
        BY <3>1, <4>1 DEF KeptOldest, Goto
    <3>3. UNCHANGED pods
      BY <3>1 DEF keepOldestAssigned, KeptOldest, clusterVars
    <3>4. claim'[c].pod = claim[c].pod
      BY <2>a, <3>2 DEF ClaimRec
    <3> QED
      BY <2>1, <2>3, <2>b, <3>2, <3>3, <3>4 DEF Returns, Held, Holding
  <2> QED
    BY <2>2, <2>3
<1>3. CASE McpStep
  BY <1>2, <1>3 DEF McpStep
<1>4. CASE ~McpStep
  <2>1. UNCHANGED claim
    BY <1>4 DEF Next, KubeletStep, AdminStep, vars
  <2> QED
    BY <1>1, <2>1
<1> QED
  BY <1>3, <1>4

\* Where no session has two calls, what a call is about to delete stays the
\* session's own.
LEMMA NextExtras ==
    ASSUME IInv, PoolPodsOnly, OneCallPerSession, ExtrasAreOwn, [Next]_vars
    PROVE  ExtrasAreOwn'
<1>0. ClusterTypeOK /\ ClaimTypeOK /\ HeldPods
  BY DEF IInv, TypeOK
<1>1. Kept \/ \E p \in Pods : Changed(p)
  BY StepChanges
<1>2. ASSUME NEW c \in Claims, claim[c].pc = "drop", NEW p \in claim[c].extras
      PROVE  /\ p \in Pods /\ pods'[p].state # "none"
             /\ InApi(pods'[p]) => pods'[p].label = SessionOf[c]
  <2>1. /\ p \in Pods /\ pods[p].state # "none"
        /\ InApi(pods[p]) => pods[p].label = SessionOf[c]
    BY <1>2 DEF ExtrasAreOwn
  <2>2. pods'[p].state # "none" /\ (InApi(pods'[p]) => InApi(pods[p]))
    BY <1>1, <2>1 DEF Kept, Changed, Others, Same, Created, Labelled, Unlabelled, Retired,
                      Removed, InApi
  <2>3. InApi(pods'[p]) => pods'[p].label = pods[p].label
    <3> SUFFICES ASSUME InApi(pods'[p]), pods'[p].label # pods[p].label
                 PROVE  FALSE
      OBVIOUS
    <3>1. LabelChangeIsOwn
      BY NextInv DEF vars, clusterVars
    <3>2. pods[p].label = SessionOf[c] /\ SessionOf[c] # NoSession
      BY <2>1, <2>2, ClaimAssumption, ClusterAssumption
    <3>3. PICK d \in Claims : /\ claim[d].pc \in {"rollback", "rollbackAll"}
                              /\ SessionOf[d] = pods[p].label
      BY <2>1, <3>1, <3>2 DEF LabelChangeIsOwn
    <3>4. d = c
      BY <1>2, <3>2, <3>3 DEF OneCallPerSession
    <3> QED
      BY <1>2, <3>3, <3>4
  <2> QED
    BY <2>1, <2>2, <2>3
<1>3. ASSUME \A c \in Claims : claim'[c].pc = "drop" =>
                claim[c].pc = "drop" /\ claim'[c].extras \subseteq claim[c].extras
      PROVE  ExtrasAreOwn'
  BY <1>2, <1>3 DEF ExtrasAreOwn
<1>4. ASSUME NEW c \in Claims, ClaimStep(c)
      PROVE  ExtrasAreOwn'
  <2>a. claim[c] \in ClaimRec /\ claim \in [Claims -> ClaimRec]
    BY <1>0 DEF ClaimTypeOK
  <2>b. \A d \in Claims \ {c} : claim'[d] = claim[d]
    BY <1>0, <1>4, ClaimStepType, MovesType
  <2>1. CASE keepOldestAssigned(c)
    <3>1. UNCHANGED pods
      BY <2>1 DEF keepOldestAssigned, clusterVars
    <3>2. claim'[c].pc = "drop" => claim'[c].extras \subseteq AssignedLive(SessionOf[c])
      <4>1. CASE claim' = [claim EXCEPT ![c].pc = "done"]
        BY <2>a, <4>1 DEF ClaimRec
      <4>2. ASSUME NEW keep,
                   claim' = [claim EXCEPT ![c].pc = "drop", ![c].pod = keep,
                                          ![c].extras = AssignedLive(SessionOf[c]) \ {keep}]
            PROVE  claim'[c].extras \subseteq AssignedLive(SessionOf[c])
        BY <2>a, <4>2 DEF ClaimRec
      <4> QED
        BY <2>1, <4>1, <4>2 DEF keepOldestAssigned, Goto
    <3>3. \A p \in AssignedLive(SessionOf[c]) :
             p \in Pods /\ pods[p].state # "none" /\ pods[p].label = SessionOf[c]
      BY DEF AssignedLive, Assigned, InApi
    <3> QED
      BY <1>2, <2>b, <3>1, <3>2, <3>3 DEF ExtrasAreOwn
  <2>2. CASE \E p \in Pods : DropExtra(c, p)
    <3>1. claim[c].pc = "drop" /\ claim'[c].extras \subseteq claim[c].extras
      BY <2>2, <2>a DEF DropExtra, ClaimRec
    <3> QED
      BY <1>3, <2>b, <3>1
  <2>3. ASSUME \/ listUnassignedPods(c) \/ ClaimFails(c) \/ CreateAuthSecret(c)
               \/ AssignToken(c) \/ AssignFails(c) \/ rollbackLabel(c)
               \/ bestEffortDeleteSecret(c) \/ KeptOldest(c)
        PROVE  claim'[c].pc # "drop"
    BY <2>a, <2>3
    DEF listUnassignedPods, ClaimFails, CreateAuthSecret, AssignToken, AssignFails,
        rollbackLabel, bestEffortDeleteSecret, KeptOldest, Goto, ClaimRec
  <2>4. ASSUME NEW p \in Pods, PatchLabel(c, p) \/ PatchFails(c, p)
        PROVE  claim'[c].pc # "drop"
    BY <2>a, <2>4 DEF PatchLabel, PatchFails, ClaimRec
  <2> QED
    BY <1>3, <1>4, <2>b, <2>1, <2>2, <2>3, <2>4 DEF ClaimStep
<1>5. CASE ~McpStep
  <2>1. UNCHANGED claim
    BY <1>5 DEF Next, KubeletStep, AdminStep, vars
  <2> QED
    BY <1>3, <2>1
<1> QED
  BY <1>4, <1>5 DEF McpStep

-----------------------------------------------------------------------------
(* The refinement.                                                         *)

RInv ==
    /\ IInv /\ PoolPodsOnly
    /\ OneCallPerSession => HeldInv /\ ExtrasAreOwn

\* RInv is an invariant.
LEMMA RInvHolds == Spec => []RInv
<1>1. Init => PoolPodsOnly /\ ExtrasAreOwn
  <2> SUFFICES ASSUME Init PROVE PoolPodsOnly /\ ExtrasAreOwn
    OBVIOUS
  <2>1. \A c \in Claims : claim[c].pc # "drop"
    BY DEF Init, ClaimsMade, NewClaim
  <2>2. \A p \in Pods : pods[p].state = "none"
    BY DEF Init, ClusterInit, NeverCreated
  <2> QED
    BY <2>1, <2>2 DEF PoolPodsOnly, ExtrasAreOwn
<1>2. IInv /\ PoolPodsOnly /\ [Next]_vars => PoolPodsOnly'
  BY StepChanges
<1>3. IInv /\ PoolPodsOnly /\ (OneCallPerSession => ExtrasAreOwn) /\ [Next]_vars
        => (OneCallPerSession => ExtrasAreOwn)'
  <2> SUFFICES ASSUME IInv, PoolPodsOnly, OneCallPerSession => ExtrasAreOwn, [Next]_vars,
                      OneCallPerSession'
               PROVE  ExtrasAreOwn'
    OBVIOUS
  <2>1. OneCallPerSession
    BY OneCallStays DEF IInv, TypeOK
  <2> QED
    BY <2>1, NextExtras
<1>4. IInv /\ PoolPodsOnly /\ (OneCallPerSession => HeldInv) /\ (OneCallPerSession => ExtrasAreOwn)
        => RInv
  BY DEF RInv
<1> QED
  BY <1>1, <1>2, <1>3, <1>4, InvHolds, HeldHolds, PTL DEF Spec

\* A pool nobody has claimed from.
LEMMA OwnershipInit == Init => Ownership!Init
<1> SUFFICES ASSUME Init PROVE Ownership!Init
  OBVIOUS
<1>1. \A p \in Pods : pods[p].state = "none" /\ pods[p].label = NoSession
  BY DEF Init, ClusterInit, NeverCreated
<1>2. Settled = {}
  BY <1>1 DEF Settled, InApi
<1> QED
  BY <1>1, <1>2 DEF Ownership!Init

\* While no call returns, a pod is settled as long as it exists.
LEMMA SettledStays ==
    ASSUME RInv, [Next]_vars, NoneReturns
    PROVE  Settled' = {p \in Settled : InApi(pods'[p])}
<1>0. OneCallPerSession' <=> OneCallPerSession
  BY OneCallStays DEF RInv, IInv, TypeOK
<1>1. CASE ~OneCallPerSession
  BY <1>0, <1>1 DEF Settled
<1>2. CASE OneCallPerSession
  <2>1. Kept \/ \E p \in Pods : Changed(p)
    BY StepChanges DEF RInv
  <2>2. ASSUME NEW c \in Claims, claim[c].pc = "done", InApi(pods'[claim[c].pod])
        PROVE  InApi(pods[claim[c].pod])
    <3>1. pods[claim[c].pod].state # "none" /\ claim[c].pod \in Pods
      BY <1>2, <2>2 DEF RInv, HeldInv, HeldIsCreated, Held, Holding, IInv, HeldPods
    <3> QED
      BY <2>1, <2>2, <3>1 DEF Kept, Changed, Others, Same, Created, Labelled, Unlabelled, Retired,
                              Removed, InApi
  <2> QED
    BY <1>0, <1>2, <2>2 DEF Settled, NoneReturns
<1> QED
  BY <1>1, <1>2

\* A settled pod carries the label of the session it was returned to, and no
\* call gives it back or is about to delete it.
LEMMA SettledIsSafe ==
    ASSUME RInv, NEW p \in Settled
    PROVE  /\ p \in Pods /\ pods[p].label # NoSession
           /\ \A c \in Claims : claim[c].pod = p => claim[c].pc \notin {"rollback", "rollbackAll"}
           /\ \A c \in Claims : claim[c].pc = "drop" => p \notin claim[c].extras
<1>1. OneCallPerSession /\ HeldInv /\ ExtrasAreOwn
  BY DEF Settled, RInv
<1>2. PICK d \in Claims : claim[d].pc = "done" /\ claim[d].pod = p
  BY DEF Settled
<1>3. p \in Pods /\ InApi(pods[p])
  BY DEF Settled
<1>4. pods[p].label = SessionOf[d] /\ SessionOf[d] # NoSession
  BY <1>1, <1>2, <1>3, ClaimAssumption, ClusterAssumption
  DEF HeldInv, HeldIsLabelled, Held, Holding
<1>5. ASSUME NEW c \in Claims, claim[c].pod = p, claim[c].pc \in {"rollback", "rollbackAll"}
      PROVE  FALSE
  <2>1. c = d
    BY <1>1, <1>2, <1>5 DEF HeldInv, HeldIsExclusive, Held, Holding
  <2> QED
    BY <1>2, <1>5, <2>1
<1>6. ASSUME NEW c \in Claims, claim[c].pc = "drop", p \in claim[c].extras
      PROVE  FALSE
  <2>1. SessionOf[c] = SessionOf[d]
    BY <1>1, <1>3, <1>4, <1>6 DEF ExtrasAreOwn
  <2>2. c = d
    BY <1>1, <1>2, <1>6, <2>1 DEF OneCallPerSession
  <2> QED
    BY <1>2, <1>6, <2>2
<1> QED
  BY <1>3, <1>4, <1>5, <1>6

\* Every step of the warm pool is a step of pod ownership, or none.
LEMMA OwnershipNext ==
    ASSUME RInv, [Next]_vars
    PROVE  [Ownership!Next]_(Ownership!vars)
<1> DEFINE place == [p \in Pods |-> pods[p].state]
           owner == [p \in Pods |-> pods[p].label]
<1>0. ClusterTypeOK /\ ClaimTypeOK /\ HeldPods
  BY DEF RInv, IInv, TypeOK
<1>1. Kept => place' = place /\ owner' = owner
  BY DEF Kept, Same
<1>2. ASSUME Kept, Settled' = Settled
      PROVE  UNCHANGED Ownership!vars
  BY <1>1, <1>2 DEF Ownership!vars
<1>3. ASSUME NEW c \in Claims, Returns(c)
      PROVE  [Ownership!Next]_(Ownership!vars)
  <2> DEFINE p == claim[c].pod
  <2>1. Kept /\ p \in Pods
    BY <1>0, <1>3 DEF Returns, Kept, Same, HeldPods, Held
  <2>2. OneCallPerSession' <=> OneCallPerSession
    BY <1>0, OneCallStays
  <2>3. CASE ~OneCallPerSession
    <3>1. Settled' = Settled
      BY <2>2, <2>3 DEF Settled
    <3> QED
      BY <1>2, <2>1, <3>1
  <2>4. CASE OneCallPerSession
    <3>1. Settled' = Settled \cup (IF InApi(pods[p]) THEN {p} ELSE {})
      BY <1>3, <2>1, <2>2, <2>4 DEF Settled, Returns
    <3>2. CASE ~InApi(pods[p])
      BY <1>2, <2>1, <3>1, <3>2
    <3>3. CASE InApi(pods[p])
      <4>1. pods[p].label = SessionOf[c] /\ SessionOf[c] # NoSession
        BY <1>3, <2>4, <3>3, ClaimAssumption, ClusterAssumption
        DEF RInv, HeldInv, HeldIsLabelled, Returns
      <4>2. Ownership!Settle(p)
        BY <1>1, <2>1, <3>1, <3>3, <4>1 DEF Ownership!Settle, Ownership!Exists, InApi
      <4> QED
        BY <2>1, <4>2 DEF Ownership!Next
    <3> QED
      BY <3>2, <3>3
  <2> QED
    BY <2>3, <2>4
<1>4. ASSUME NoneReturns, Kept
      PROVE  UNCHANGED Ownership!vars
  <2>1. Settled' = Settled
    BY <1>4, SettledStays DEF Settled, Kept, Same, InApi
  <2> QED
    BY <1>2, <1>4, <2>1
<1>5. ASSUME NoneReturns, NEW p \in Pods, Changed(p)
      PROVE  Ownership!Next
  <2>0. /\ Settled' = {q \in Settled : InApi(pods'[q])}
        /\ \A q \in Settled : q \in Pods /\ InApi(pods[q])
    BY <1>5, SettledStays DEF Settled
  <2>a. place' = [place EXCEPT ![p] = pods'[p].state] /\ owner' = [owner EXCEPT ![p] = pods'[p].label]
    BY <1>5 DEF Changed, Others, Same
  <2>b. pods'[p].label = pods[p].label => owner' = owner
    BY <1>5 DEF Changed, Others, Same
  <2>c. pods'[p].state = pods[p].state => place' = place
    BY <1>5 DEF Changed, Others, Same
  <2>d. (p \in Settled => InApi(pods'[p])) => Settled' = Settled
    BY <1>5, <2>0 DEF Changed, Others, Same, InApi
  <2>1. CASE Created(p)
    <3>1. Settled' = Settled
      BY <2>1, <2>d DEF Created, InApi
    <3>2. Ownership!Create(p)
      BY <2>1, <2>a, <2>b, <3>1 DEF Created, Ownership!Create
    <3> QED
      BY <3>2 DEF Ownership!Next
  <2>2. CASE Labelled(p)
    <3>1. Settled' = Settled
      BY <2>2, <2>d DEF Labelled, InApi
    <3>2. Ownership!Take(p)
      BY <2>2, <2>a, <2>c, <3>1 DEF Labelled, Ownership!Take, Ownership!Exists, InApi
    <3> QED
      BY <3>2 DEF Ownership!Next
  <2>3. CASE Unlabelled(p)
    <3>1. Settled' = Settled /\ p \notin Settled
      BY <2>3, <2>d, SettledIsSafe DEF Unlabelled, InApi
    <3>2. Ownership!GiveBack(p)
      BY <2>3, <2>a, <2>c, <3>1 DEF Unlabelled, Ownership!GiveBack, Ownership!Exists, InApi
    <3> QED
      BY <3>2 DEF Ownership!Next
  <2>4. CASE Retired(p)
    <3>1. Settled' = Settled /\ p \notin Settled
      BY <2>4, <2>d, SettledIsSafe DEF Retired, InApi
    <3>2. Ownership!Retire(p)
      BY <2>4, <2>a, <2>b, <3>1 DEF Retired, Ownership!Retire
    <3> QED
      BY <3>2 DEF Ownership!Next
  <2>5. CASE Removed(p)
    <3>1. Settled' = Settled \ {p}
      BY <1>5, <2>0, <2>5 DEF Removed, Changed, Others, Same, InApi
    <3>2. Ownership!Remove(p)
      BY <2>5, <2>a, <3>1 DEF Removed, Ownership!Remove
    <3> QED
      BY <3>2 DEF Ownership!Next
  <2> QED
    BY <1>5, <2>1, <2>2, <2>3, <2>4, <2>5 DEF Changed
<1>6. (Kept \/ \E p \in Pods : Changed(p)) /\ (NoneReturns \/ \E c \in Claims : Returns(c))
  BY <1>0, StepChanges, StepReturns DEF RInv
<1> QED
  BY <1>3, <1>4, <1>5, <1>6

\* The claims, reconcilePool and the kubelet implement pod ownership: a pod
\* changes hands only by way of the pool, and one that ClaimPod returned stays
\* with its session and is deleted neither by a claim nor by the pool.
THEOREM PoolImplementsOwnership == Spec => PodsAreOwned
<1>1. Init => Ownership!Init
  BY OwnershipInit
<1>2. RInv /\ [Next]_vars => [Ownership!Next]_(Ownership!vars)
  BY OwnershipNext
<1> QED
  BY <1>1, <1>2, RInvHolds, PTL DEF Spec, PodsAreOwned, Ownership!Spec

=============================================================================
