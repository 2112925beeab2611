------------------------ MODULE ClaimExclusionProofs ------------------------
(***************************************************************************)
(* A claimed pod belongs to one session.  This needs one ClaimPod call per *)
(* session: with two, keepOldestAssigned may return a pod whose claim is   *)
(* rolled back afterwards (ReturnedPodIsClaimed of ClaimRace).             *)
(***************************************************************************)
EXTENDS WarmPoolProofs

\* Calls that have a pod, until they return and after
Held == Holding \cup {"drop"}

HeldIsCreated ==
    \A c \in Claims : claim[c].pc \in Held => pods[claim[c].pod].state # "none"

HeldIsLabelled ==
    \A c \in Claims :
       claim[c].pc \in Held /\ InApi(pods[claim[c].pod])
          => pods[claim[c].pod].label = SessionOf[c]

HeldIsExclusive ==
    \A c, d \in Claims :
       claim[c].pc \in Held /\ claim[d].pc \in Held /\ claim[c].pod = claim[d].pod => c = d

HeldInv == HeldIsCreated /\ HeldIsLabelled /\ HeldIsExclusive

HeldKept ==
    \A c \in Claims :
       claim'[c].pc \in Held => claim[c].pc \in Held /\ claim'[c].pod = claim[c].pod

\* Steps that change no label and give no call a pod.
LEMMA HeldKeptInv ==
    ASSUME ClaimTypeOK, HeldPods, HeldInv, LabelsKept, HeldKept
    PROVE  HeldInv'
<1>1. \A c \in Claims : claim'[c].pc \in Held =>
         claim[c].pc \in Held /\ claim'[c].pod = claim[c].pod /\ claim[c].pod \in Pods
  BY DEF HeldKept, HeldPods, Held
<1>2. HeldIsCreated'
  BY <1>1 DEF HeldInv, HeldIsCreated, LabelsKept
<1>3. HeldIsLabelled'
  BY <1>1 DEF HeldInv, HeldIsLabelled, LabelsKept
<1>4. HeldIsExclusive'
  BY <1>1 DEF HeldInv, HeldIsExclusive
<1> QED
  BY <1>2, <1>3, <1>4 DEF HeldInv

\* Steps of ClaimPod.
LEMMA ClaimStepHeld ==
    ASSUME OneCallPerSession, ClusterTypeOK, ClaimTypeOK, HeldPods, LabelInv, HeldInv,
           NEW c \in Claims, ClaimStep(c)
    PROVE  HeldInv'
<1>a. \A d \in Claims \ {c} : claim'[d] = claim[d]
  BY ClaimStepType, MovesType
<1>b. /\ claim[c] \in ClaimRec /\ claim \in [Claims -> ClaimRec]
      /\ SessionOf[c] \in Sessions
      /\ \A d \in Claims : SessionOf[d] # NoSession
      /\ \A d \in Claims : claim[d].pc \in Held => claim[d].pod \in Pods
  BY ClaimAssumption, ClusterAssumption DEF ClaimTypeOK, HeldPods, Held
<1>c. ASSUME LabelsKept,
             claim'[c].pc \in Held => claim[c].pc \in Held /\ claim'[c].pod = claim[c].pod
      PROVE  HeldInv'
  <2>1. HeldKept
    BY <1>a, <1>c DEF HeldKept
  <2> QED
    BY <1>c, <2>1, HeldKeptInv
<1>d. UNCHANGED pods => LabelsKept
  BY DEF LabelsKept
<1>e. ASSUME NEW p \in Pods, NextCandidate(c, p), PatchApplies(c, p), SetLabel(p, SessionOf[c]),
             claim'[c].pc \in Held => claim'[c].pod = p
      PROVE  HeldInv'
  <2>1. InApi(pods[p]) /\ pods[p].label = NoSession
    BY <1>e, PatchFindsUnassigned
  <2>2. /\ \A q \in Pods : pods'[q].state = pods[q].state
        /\ \A q \in Pods \ {p} : pods'[q] = pods[q]
        /\ pods'[p].label = SessionOf[c]
    BY <1>b, <1>e, <2>1, SetLabelAdvances
  <2>3. \A d \in Claims : claim[d].pc \in Held => claim[d].pod \in Pods \ {p}
    BY <1>b, <2>1 DEF HeldInv, HeldIsLabelled
  <2>4. \A d \in Claims : claim'[d].pc \in Held =>
           \/ d = c /\ claim'[d].pod = p
           \/ d # c /\ claim[d].pc \in Held /\ claim'[d].pod = claim[d].pod
              /\ claim[d].pod \in Pods \ {p}
    BY <1>a, <1>e, <2>3
  <2>5. HeldIsCreated'
    BY <2>1, <2>2, <2>4 DEF HeldInv, HeldIsCreated, InApi
  <2>6. HeldIsLabelled'
    BY <2>2, <2>4 DEF HeldInv, HeldIsLabelled
  <2>7. HeldIsExclusive'
    BY <2>4 DEF HeldInv, HeldIsExclusive
  <2> QED
    BY <2>5, <2>6, <2>7 DEF HeldInv
<1>1. CASE listUnassignedPods(c) \/ ClaimFails(c)
  <2>1. UNCHANGED pods /\ claim'[c].pc \in {"next", "failed"}
    BY <1>1, <1>b DEF listUnassignedPods, ClaimFails, Goto, clusterVars, ClaimRec
  <2> QED
    BY <1>c, <1>d, <2>1 DEF Held, Holding
<1>2. ASSUME NEW p \in Pods, PatchLabel(c, p)
      PROVE  HeldInv'
  <2>1. claim'[c].pod = p
    BY <1>2, <1>b DEF PatchLabel, ClaimRec
  <2> QED
    BY <1>2, <1>e, <2>1 DEF PatchLabel
<1>3. ASSUME NEW p \in Pods, PatchFails(c, p)
      PROVE  HeldInv'
  <2>1. claim'[c].pc = "next"
    BY <1>3, <1>b DEF PatchFails, ClaimRec
  <2>2. claim'[c].pc \notin Held
    BY <2>1 DEF Held, Holding
  <2>3. UNCHANGED pods \/ (PatchApplies(c, p) /\ SetLabel(p, SessionOf[c]))
    BY <1>3 DEF PatchFails
  <2>4. NextCandidate(c, p)
    BY <1>3 DEF PatchFails
  <2> QED
    BY <1>c, <1>d, <1>e, <2>2, <2>3, <2>4
<1>4. ASSUME NEW p \in Pods, DropExtra(c, p)
      PROVE  HeldInv'
  <2>1. UNCHANGED pods \/ \E d \in Pods : DeletePod(d)
    BY <1>4 DEF DropExtra, DeleteNamed, Named
  <2>2. claim[c].pc = "drop" /\ claim'[c].pod = claim[c].pod
    BY <1>4, <1>b DEF DropExtra, ClaimRec
  <2>3. ASSUME NEW d \in Pods, DeletePod(d)
        PROVE  LabelsKept
    <3>1. \A q \in Pods : /\ pods'[q].label = pods[q].label
                          /\ InApi(pods'[q]) => InApi(pods[q])
                          /\ pods'[q].state = "none" => pods[q].state = "none"
      BY <2>3, DeletePodAdvances
    <3> QED
      BY <3>1 DEF LabelsKept
  <2> QED
    BY <1>c, <1>d, <2>1, <2>2, <2>3 DEF Held
<1>5. CASE CreateAuthSecret(c) \/ AssignToken(c) \/ AssignFails(c) \/ KeptOldest(c)
  <2>1. /\ UNCHANGED pods /\ claim'[c].pod = claim[c].pod
        /\ claim[c].pc \in {"secret", "assign", "drop"}
    BY <1>5, <1>b DEF CreateAuthSecret, AssignToken, AssignFails, KeptOldest, Goto, clusterVars, ClaimRec
  <2> QED
    BY <1>c, <1>d, <2>1 DEF Held, Holding
<1>6. CASE bestEffortDeleteSecret(c)
  <2>1. UNCHANGED pods /\ claim'[c].pc = "next"
    BY <1>6, <1>b DEF bestEffortDeleteSecret, Goto, ClaimRec
  <2> QED
    BY <1>c, <1>d, <2>1 DEF Held, Holding
<1>7. CASE rollbackLabel(c)
  <2> DEFINE p == claim[c].pod
  <2>1. /\ claim[c].pc \in Held
        /\ UNCHANGED pods \/ SetLabel(p, NoSession)
    BY <1>7 DEF rollbackLabel, Held, Holding
  <2>2. claim'[c].pc \in {"next", "unsecret"}
    BY <1>7, <1>b DEF rollbackLabel, ClaimRec
  <2>3. claim'[c].pc \notin Held
    BY <2>2 DEF Held, Holding
  <2>4. CASE UNCHANGED pods
    BY <1>c, <1>d, <2>3, <2>4
  <2>5. CASE SetLabel(p, NoSession)
    <3>1. p \in Pods
      BY <1>b, <2>1
    <3>2. /\ \A q \in Pods : pods'[q].state = pods[q].state
          /\ \A q \in Pods \ {p} : pods'[q] = pods[q]
      BY <2>5, <3>1, SetLabelAdvances
    <3>3. \A d \in Claims : claim'[d].pc \in Held =>
             claim[d].pc \in Held /\ claim'[d] = claim[d] /\ claim[d].pod \in Pods \ {p}
      BY <1>a, <1>b, <2>1, <2>3 DEF HeldInv, HeldIsExclusive
    <3> HIDE DEF p
    <3>4. HeldIsCreated' /\ HeldIsLabelled' /\ HeldIsExclusive'
      BY <3>2, <3>3 DEF HeldInv, HeldIsCreated, HeldIsLabelled, HeldIsExclusive
    <3> QED
      BY <3>4 DEF HeldInv
  <2> QED
    BY <2>1, <2>4, <2>5
<1>8. CASE keepOldestAssigned(c)
  <2>1. UNCHANGED pods /\ claim[c].pc = "dedupe"
    BY <1>8 DEF keepOldestAssigned, clusterVars
  <2>2. \/ claim' = [claim EXCEPT ![c].pc = "done"]
        \/ \E keep \in AssignedLive(SessionOf[c]) : \E extras :
              claim' = [claim EXCEPT ![c].pc = "drop", ![c].pod = keep, ![c].extras = extras]
    BY <1>8 DEF keepOldestAssigned, Goto
  <2>3. CASE claim' = [claim EXCEPT ![c].pc = "done"]
    <3>1. claim'[c].pod = claim[c].pod
      BY <1>b, <2>3 DEF ClaimRec
    <3> QED
      BY <1>c, <1>d, <2>1, <3>1 DEF Held, Holding
  <2>4. ASSUME NEW keep \in AssignedLive(SessionOf[c]), NEW extras,
               claim' = [claim EXCEPT ![c].pc = "drop", ![c].pod = keep, ![c].extras = extras]
        PROVE  HeldInv'
    <3>1. keep \in Pods /\ InApi(pods[keep]) /\ pods[keep].label = SessionOf[c]
      BY DEF AssignedLive, Assigned
    <3>2. claim'[c].pod = keep
      BY <1>b, <2>4 DEF ClaimRec
    <3>3. \A d \in Claims \ {c} : claim[d].pc \in Held => claim[d].pod # keep
      BY <2>1, <3>1 DEF HeldInv, HeldIsLabelled, OneCallPerSession, Held, Holding
    <3>4. HeldIsCreated' /\ HeldIsLabelled' /\ HeldIsExclusive'
      BY <1>a, <2>1, <3>1, <3>2, <3>3
      DEF HeldInv, HeldIsCreated, HeldIsLabelled, HeldIsExclusive, InApi
    <3> QED
      BY <3>4 DEF HeldInv
  <2> QED
    BY <2>2, <2>3, <2>4
<1> QED
  BY <1>1, <1>2, <1>3, <1>4, <1>5, <1>6, <1>7, <1>8 DEF ClaimStep

\* Steps of reconcilePool.
LEMMA OperatorStepHeld ==
    ASSUME ClusterTypeOK, ClaimTypeOK, OperatorTypeOK, HeldPods, TargetWasUnassigned, HeldInv,
           OperatorStep, UNCHANGED claim
    PROVE  HeldInv'
<1>1. HeldKept
  BY DEF HeldKept
<1>2. ASSUME LabelsKept
      PROVE  HeldInv'
  BY <1>1, <1>2, HeldKeptInv
<1>3. CASE UNCHANGED pods
  BY <1>2, <1>3 DEF LabelsKept
<1>4. ASSUME op.target \in Pods, DeletePod(op.target)
      PROVE  HeldInv'
  <2>1. \A q \in Pods : /\ pods'[q].label = pods[q].label
                        /\ InApi(pods'[q]) => InApi(pods[q])
                        /\ pods'[q].state = "none" => pods[q].state = "none"
    BY <1>4, DeletePodAdvances
  <2> QED
    BY <1>2, <2>1 DEF LabelsKept
<1>5. ASSUME NEW p \in Unused, CreatePod(p)
      PROVE  HeldInv'
  <2>1. \A q \in Pods \ {p} : pods'[q] = pods[q]
    BY <1>5, CreateAdvances
  <2>2. \A c \in Claims : claim[c].pc \in Held => claim[c].pod \in Pods \ {p}
    BY DEF Unused, HeldInv, HeldIsCreated, HeldPods, Held
  <2> QED
    BY <2>1, <2>2 DEF HeldInv, HeldIsCreated, HeldIsLabelled, HeldIsExclusive
<1>6. CASE DeleteUnassigned \/ DeleteError
  <2>1. op.target \in Pods /\ (UNCHANGED pods \/ DeletePod(op.target))
    BY <1>6 DEF DeleteUnassigned, DeleteError, TargetWasUnassigned
  <2> QED
    BY <1>3, <1>4, <2>1
<1>7. CASE (\E p \in Pods : createPoolPod(p)) \/ CreateError
  <2>1. UNCHANGED pods \/ \E p \in Unused : CreatePod(p)
    BY <1>7 DEF createPoolPod, CreateError
  <2> QED
    BY <1>3, <1>5, <2>1
<1>8. CASE StartPass \/ StartZeroPass \/ (\E p \in Pods : ReGet(p)) \/ OccupiesSlot
          \/ ChooseSurplus \/ ChooseDeficit \/ EndPass
  <2>1. UNCHANGED pods
    BY <1>8 DEF StartPass, StartZeroPass, ReGet, OccupiesSlot, ChooseSurplus, ChooseDeficit, EndPass
  <2> QED
    BY <1>3, <2>1
<1> QED
  BY <1>6, <1>7, <1>8 DEF OperatorStep

\* Whether a session has one call does not change.
LEMMA OneCallStays ==
    ASSUME ClusterTypeOK, ClaimTypeOK, HeldPods, [Next]_vars
    PROVE  OneCallPerSession' <=> OneCallPerSession
<1>1. \A c \in Claims : claim'[c].pc = "absent" <=> claim[c].pc = "absent"
  <2>1. ASSUME NEW c \in Claims, ClaimStep(c)
        PROVE  \A d \in Claims : claim'[d].pc = "absent" <=> claim[d].pc = "absent"
    BY <2>1, ClaimStepType, MovesType DEF Moves
  <2>2. CASE ~McpStep
    <3>1. UNCHANGED claim
      BY <2>2 DEF Next, KubeletStep, AdminStep, vars
    <3> QED
      BY <3>1
  <2> QED
    BY <2>1, <2>2 DEF McpStep
<1> QED
  BY <1>1 DEF OneCallPerSession

\* Every step preserves the invariant, when no session has two calls.
LEMMA NextHeld ==
    ASSUME IInv, OneCallPerSession, HeldInv, [Next]_vars
    PROVE  HeldInv'
<1>0. /\ ClusterTypeOK /\ ClaimTypeOK /\ OperatorTypeOK /\ HeldPods
      /\ TargetWasUnassigned /\ LabelInv
  BY DEF IInv, TypeOK, LabelInv
<1>1. CASE McpStep
  BY <1>0, <1>1, ClaimStepHeld DEF McpStep
<1>2. CASE KubeletStep
  <2>1. PICK p \in Pods : \/ \E h \in Health : KubeletStatus(p, h)
                          \/ ContainerStart(p)
                          \/ KubeletRemove(p)
    BY <1>2 DEF KubeletStep
  <2>2. \A q \in Pods : /\ InApi(pods'[q]) => InApi(pods[q]) /\ pods'[q].label = pods[q].label
                        /\ pods'[q].state = "none" => pods'[q] = pods[q]
    BY <1>0, <2>1, KubeletAdvances
  <2>3. LabelsKept /\ HeldKept
    BY <1>2, <2>2 DEF LabelsKept, HeldKept, KubeletStep
  <2> QED
    BY <1>0, <2>3, HeldKeptInv
<1>3. CASE OperatorStep /\ UNCHANGED claim
  BY <1>0, <1>3, OperatorStepHeld
<1>4. CASE (Deliver /\ UNCHANGED claim) \/ AdminStep \/ UNCHANGED vars
  <2>1. UNCHANGED <<pods, claim>>
    BY <1>4 DEF Deliver, AdminStep, EditSpec, vars, clusterVars
  <2> QED
    BY <2>1 DEF HeldInv, HeldIsCreated, HeldIsLabelled, HeldIsExclusive
<1> QED
  BY <1>1, <1>2, <1>3, <1>4 DEF Next

\* HeldInv is an invariant wherever no session has two calls.
LEMMA HeldHolds == Spec => [](OneCallPerSession => HeldInv)
<1>1. Init => HeldInv
  <2> SUFFICES ASSUME Init PROVE HeldInv
    OBVIOUS
  <2>1. \A c \in Claims : claim[c].pc \in {"start", "absent"}
    BY DEF Init, ClaimsMade, NewClaim
  <2> QED
    BY <2>1 DEF HeldInv, HeldIsCreated, HeldIsLabelled, HeldIsExclusive, Held, Holding
<1>2. IInv /\ (OneCallPerSession => HeldInv) /\ [Next]_vars => (OneCallPerSession => HeldInv)'
  <2> SUFFICES ASSUME IInv, OneCallPerSession => HeldInv, [Next]_vars, OneCallPerSession'
               PROVE  HeldInv'
    OBVIOUS
  <2>1. OneCallPerSession
    BY OneCallStays DEF IInv, TypeOK
  <2> QED
    BY <2>1, NextHeld
<1> QED
  BY <1>1, <1>2, InvHolds, PTL DEF Spec

\* When no two ClaimPod calls are for the same session, a pod a call holds or
\* has returned is not held by a call for another session, whatever the
\* operator, the kubelet and failing requests do.
THEOREM ClaimsExclude == Spec => []ClaimIsExclusive
<1>1. (OneCallPerSession => HeldInv) => ClaimIsExclusive
  BY DEF HeldInv, HeldIsExclusive, ClaimIsExclusive, Held
<1> QED
  BY <1>1, HeldHolds, PTL

=============================================================================
