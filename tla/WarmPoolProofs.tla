--------------------------- MODULE WarmPoolProofs ---------------------------
(***************************************************************************)
(* Theorems about WarmPool, for every set of pods, sessions and claims,    *)
(* every pool size and any lag of the informer cache.                      *)
(***************************************************************************)
EXTENDS WarmPool, FiniteSetTheorems, TLAPS

-----------------------------------------------------------------------------
(* The inductive invariant.                                                *)

\* Calls that have labelled a pod and are not through with tryClaimPod
Trying == {"secret", "assign", "rollback", "rollbackAll"}

HeldPods ==
    \A c \in Claims :
       claim[c].pc \in Holding \cup {"drop"} => claim[c].pod \in Pods

\* The state s is the state now at some earlier moment: resourceVersions only
\* grow, and an object with the current version is the current object.
IsPast(s, now) ==
    \A p \in Pods : /\ s[p].rv <= now[p].rv
                    /\ s[p].rv = now[p].rv => s[p] = now[p]

CacheIsPast == IsPast(cache, pods) /\ \A i \in 1..Len(watch) : IsPast(watch[i], pods)

\* The version deleteUnassignedIfStillUnassigned read was unassigned.
TargetWasUnassigned ==
    /\ op.pc = "delete" => op.target \in Pods
    /\ op.pc = "delete" =>
         /\ op.fresh <= pods[op.target].rv
         /\ pods[op.target].rv = op.fresh => pods[op.target].label = NoSession

NewPodsUnlabelled ==
    \A p \in Pods : pods[p].state = "none" => pods[p].label = NoSession

\* The version of a candidate that a call listed was unassigned.
CandidatesWereUnassigned ==
    \A c \in Claims, p \in Pods :
       claim[c].seen[p] # 0 =>
          /\ claim[c].seen[p] <= pods[p].rv
          /\ pods[p].rv = claim[c].seen[p] => pods[p].label = NoSession

TryingIsCreated ==
    \A c \in Claims :
       claim[c].pc \in Trying => pods[claim[c].pod].state # "none"

TryingIsLabelled ==
    \A c \in Claims :
       claim[c].pc \in Trying /\ InApi(pods[claim[c].pod])
          => pods[claim[c].pod].label = SessionOf[c]

TryingIsAlone ==
    \A c, d \in Claims :
       /\ claim[c].pc \in Trying /\ claim[d].pc \in Trying
       /\ claim[c].pod = claim[d].pod /\ InApi(pods[claim[c].pod])
       => c = d

OwnerHasSecret ==
    \A c \in Claims : claim[c].pc \in OwnsSession => SessionOf[c] \in secrets

IInv ==
    /\ TypeOK /\ HeldPods
    /\ CacheIsPast /\ TargetWasUnassigned
    /\ NewPodsUnlabelled /\ CandidatesWereUnassigned
    /\ TryingIsCreated /\ TryingIsLabelled /\ TryingIsAlone
    /\ OwnerHasSecret /\ SessionHasOneClaimant

-----------------------------------------------------------------------------
(* API server writes.                                                      *)

\* What any step does to the pod objects: an object stays as it is or gets the
\* next version.
Advances ==
    /\ pods' \in [Pods -> PodRec]
    /\ \A p \in Pods : pods'[p] = pods[p] \/ pods'[p].rv = pods[p].rv + 1

\* Writing a well-formed object advances the API server.
LEMMA WriteAdvances ==
    ASSUME ClusterTypeOK, NEW p \in Pods, NEW r \in PodRec, Write(p, r)
    PROVE  Advances /\ pods' = [pods EXCEPT ![p] = pods'[p]]
                    /\ pods'[p] = [r EXCEPT !.rv = pods[p].rv + 1]
BY DEF ClusterTypeOK, Write, Advances, PodRec

\* A step that leaves the pod objects alone.
LEMMA SameAdvances ==
    ASSUME ClusterTypeOK, UNCHANGED pods
    PROVE  Advances
BY DEF ClusterTypeOK, Advances

\* A label patch changes the label of that pod and of no other.
LEMMA SetLabelAdvances ==
    ASSUME ClusterTypeOK, NEW p \in Pods, NEW s \in Sessions \cup {NoSession}, SetLabel(p, s)
    PROVE  /\ Advances
           /\ \A q \in Pods : pods'[q].state = pods[q].state
           /\ \A q \in Pods \ {p} : pods'[q] = pods[q]
           /\ InApi(pods[p]) => pods'[p].label = s /\ pods'[p].rv = pods[p].rv + 1
           /\ ~InApi(pods[p]) => pods'[p] = pods[p]
<1>1. CASE ~InApi(pods[p])
  BY <1>1 DEF ClusterTypeOK, SetLabel, Advances
<1>2. CASE InApi(pods[p])
  <2> DEFINE r == [pods[p] EXCEPT !.label = s]
  <2>1. Write(p, r)
    BY <1>2 DEF SetLabel
  <2>2. r \in PodRec /\ r.label = s /\ r.state = pods[p].state
    BY DEF ClusterTypeOK, PodRec
  <2>3. /\ Advances /\ pods' = [pods EXCEPT ![p] = pods'[p]]
        /\ pods'[p] = [r EXCEPT !.rv = pods[p].rv + 1]
    BY <2>1, <2>2, WriteAdvances
  <2>4. pods'[p].label = s /\ pods'[p].state = pods[p].state
        /\ pods'[p].rv = pods[p].rv + 1
    BY <2>2, <2>3 DEF PodRec
  <2> HIDE DEF r
  <2> QED
    BY <1>2, <2>3, <2>4 DEF ClusterTypeOK
<1> QED
  BY <1>1, <1>2

\* A graceful delete changes no label.
LEMMA DeletePodAdvances ==
    ASSUME ClusterTypeOK, NEW p \in Pods, DeletePod(p)
    PROVE  /\ Advances
           /\ \A q \in Pods : /\ pods'[q].label = pods[q].label
                              /\ InApi(pods'[q]) => InApi(pods[q])
                              /\ pods'[q].state = "none" => pods[q].state = "none"
           /\ \A q \in Pods \ {p} : pods'[q] = pods[q]
<1>1. CASE pods[p].state # "live"
  BY <1>1, SameAdvances DEF DeletePod
<1>2. CASE pods[p].state = "live"
  <2> DEFINE r == [pods[p] EXCEPT !.state = "terminating"]
  <2>1. Write(p, r)
    BY <1>2 DEF DeletePod
  <2>2. r \in PodRec /\ r.label = pods[p].label /\ r.state = "terminating"
    BY DEF ClusterTypeOK, PodRec, PodState
  <2>3. /\ Advances /\ pods' = [pods EXCEPT ![p] = pods'[p]]
        /\ pods'[p] = [r EXCEPT !.rv = pods[p].rv + 1]
    BY <2>1, <2>2, WriteAdvances
  <2>4. pods'[p].label = pods[p].label /\ pods'[p].state = "terminating"
    BY <2>2, <2>3 DEF PodRec
  <2>5. InApi(pods'[p]) /\ InApi(pods[p])
    BY <1>2, <2>4 DEF InApi
  <2>6. \A q \in Pods \ {p} : pods'[q] = pods[q]
    BY <2>3 DEF ClusterTypeOK
  <2> QED
    BY <2>3, <2>4, <2>5, <2>6
<1> QED
  BY <1>1, <1>2

\* The kubelet's writes keep labels while the object exists.
LEMMA KubeletAdvances ==
    ASSUME ClusterTypeOK, NEW p \in Pods,
           \/ \E h \in Health : KubeletStatus(p, h)
           \/ ContainerStart(p)
           \/ KubeletRemove(p)
    PROVE  /\ Advances /\ ClusterTypeOK' /\ UNCHANGED secrets
           /\ \A q \in Pods : /\ InApi(pods'[q]) => InApi(pods[q]) /\ pods'[q].label = pods[q].label
                              /\ pods'[q].state = "none" => pods'[q] = pods[q]
                              /\ pods'[q].label \in {pods[q].label, NoSession}
<1>1. ASSUME NEW h \in Health, KubeletStatus(p, h)
      PROVE  /\ Write(p, [pods[p] EXCEPT !.health = h]) /\ InApi(pods[p])
             /\ UNCHANGED <<secrets, agents>>
  BY <1>1 DEF KubeletStatus
<1>2. ASSUME ContainerStart(p)
      PROVE  /\ Write(p, [pods[p] EXCEPT !.health = "running"]) /\ InApi(pods[p])
             /\ UNCHANGED secrets /\ agents' = [agents EXCEPT ![p] = EnvToken[p]]
  BY <1>2 DEF ContainerStart
<1>3. ASSUME KubeletRemove(p)
      PROVE  /\ Write(p, [NeverCreated EXCEPT !.state = "gone", !.born = pods[p].born])
             /\ UNCHANGED secrets /\ agents' = [agents EXCEPT ![p] = NoSession]
  BY <1>3 DEF KubeletRemove
<1>4. ASSUME NEW h \in Health, Write(p, [pods[p] EXCEPT !.health = h]), InApi(pods[p])
      PROVE  /\ Advances /\ \A q \in Pods : pods'[q].label = pods[q].label
                                             /\ pods'[q].state = pods[q].state
             /\ \A q \in Pods : pods'[q].state = "none" => pods'[q] = pods[q]
  <2> DEFINE r == [pods[p] EXCEPT !.health = h]
  <2>1. r \in PodRec /\ r.label = pods[p].label /\ r.state = pods[p].state
    BY <1>4 DEF ClusterTypeOK, PodRec
  <2>2. /\ Advances /\ pods' = [pods EXCEPT ![p] = pods'[p]]
        /\ pods'[p] = [r EXCEPT !.rv = pods[p].rv + 1]
    BY <1>4, <2>1, WriteAdvances
  <2>3. pods'[p].label = pods[p].label /\ pods'[p].state = pods[p].state
    BY <2>1, <2>2 DEF PodRec
  <2> QED
    BY <1>4, <2>2, <2>3 DEF ClusterTypeOK, InApi
<1>5. ASSUME Write(p, [NeverCreated EXCEPT !.state = "gone", !.born = pods[p].born])
      PROVE  /\ Advances /\ \A q \in Pods \ {p} : pods'[q] = pods[q]
             /\ pods'[p].label = NoSession /\ pods'[p].state = "gone"
  <2> DEFINE r == [NeverCreated EXCEPT !.state = "gone", !.born = pods[p].born]
  <2>1. r \in PodRec /\ r.label = NoSession /\ r.state = "gone"
    BY DEF ClusterTypeOK, NeverCreated, PodRec, PodState, Health
  <2>2. /\ Advances /\ pods' = [pods EXCEPT ![p] = pods'[p]]
        /\ pods'[p] = [r EXCEPT !.rv = pods[p].rv + 1]
    BY <1>5, <2>1, WriteAdvances
  <2> QED
    BY <2>1, <2>2 DEF ClusterTypeOK, PodRec
<1>6. CASE \E h \in Health : KubeletStatus(p, h)
  BY <1>1, <1>4, <1>6 DEF ClusterTypeOK, Advances, InApi
<1>7. CASE ContainerStart(p)
  <2>1. "running" \in Health
    BY DEF Health
  <2>2. agents' \in [Pods -> Sessions \cup {NoSession}]
    BY <1>2, <1>7, ClusterAssumption DEF ClusterTypeOK
  <2> QED
    BY <1>2, <1>4, <1>7, <2>1, <2>2 DEF ClusterTypeOK, Advances, InApi
<1>8. CASE KubeletRemove(p)
  BY <1>3, <1>5, <1>8 DEF ClusterTypeOK, Advances, InApi
<1> QED
  BY <1>6, <1>7, <1>8

-----------------------------------------------------------------------------
(* ClaimPod steps.                                                         *)

\* A step of call c changes the record of c only, and c is a call that is made.
Moves(c) ==
    /\ claim' = [claim EXCEPT ![c] = claim'[c]]
    /\ claim[c].pc # "absent" /\ claim'[c].pc # "absent"
    /\ claim'[c] \in ClaimRec
    /\ claim'[c].pc \in Holding \cup {"drop"} => claim'[c].pod \in Pods

\* The other calls, the types and the held pods survive a step of call c.
LEMMA MovesType ==
    ASSUME ClaimTypeOK, HeldPods, NEW c \in Claims, Moves(c)
    PROVE  ClaimTypeOK' /\ HeldPods' /\ \A d \in Claims \ {c} : claim'[d] = claim[d]
BY DEF ClaimTypeOK, HeldPods, Moves

\* Every step of ClaimPod keeps the types and advances the API server.
LEMMA ClaimStepType ==
    ASSUME ClusterTypeOK, ClaimTypeOK, HeldPods, NEW c \in Claims, ClaimStep(c)
    PROVE  Advances /\ ClusterTypeOK' /\ Moves(c)
<1> DEFINE Stored == secrets' \in SUBSET Sessions /\ agents' \in [Pods -> Sessions \cup {NoSession}]
<1> SUFFICES Advances /\ Stored /\ Moves(c)
  BY DEF Advances, ClusterTypeOK
<1>0. /\ SessionOf[c] \in Sessions
      /\ claim[c] \in ClaimRec
      /\ claim[c].pc \in Holding \cup {"drop"} => claim[c].pod \in Pods
  BY ClaimAssumption DEF ClaimTypeOK, HeldPods
<1>1. CASE listUnassignedPods(c)
  <2>1. \A p \in Pods : pods[p].rv \in Nat
    BY DEF ClusterTypeOK, PodRec
  <2>2. Moves(c)
    BY <1>0, <1>1, <2>1 DEF listUnassignedPods, Moves, ClaimTypeOK, ClaimRec, ClaimPc, Holding
  <2> QED
    BY <1>1, <2>2, SameAdvances DEF listUnassignedPods, ClusterTypeOK, clusterVars
<1>2. ASSUME NEW p \in Pods, PatchLabel(c, p)
      PROVE  Advances /\ Stored /\ Moves(c)
  <2>1. SetLabel(p, SessionOf[c]) /\ UNCHANGED <<secrets, agents>>
    BY <1>2 DEF PatchLabel
  <2>2. Moves(c)
    BY <1>0, <1>2 DEF PatchLabel, Moves, ClaimTypeOK, ClaimRec, ClaimPc, Holding
  <2> QED
    BY <1>0, <2>1, <2>2, SetLabelAdvances DEF ClusterTypeOK
<1>3. ASSUME NEW p \in Pods, PatchFails(c, p)
      PROVE  Advances /\ Stored /\ Moves(c)
  <2>1. UNCHANGED pods \/ SetLabel(p, SessionOf[c])
    BY <1>3 DEF PatchFails
  <2>2. UNCHANGED <<secrets, agents>>
    BY <1>3 DEF PatchFails
  <2>3. Moves(c)
    BY <1>0, <1>3 DEF PatchFails, Moves, ClaimTypeOK, ClaimRec, ClaimPc, Holding
  <2> QED
    BY <1>0, <2>1, <2>2, <2>3, SetLabelAdvances, SameAdvances DEF ClusterTypeOK
<1>4. ASSUME NEW p \in Pods, DropExtra(c, p)
      PROVE  Advances /\ Stored /\ Moves(c)
  <2>1. UNCHANGED pods \/ \E d \in Pods : DeletePod(d)
    BY <1>4 DEF DropExtra, DeleteNamed, Named
  <2>2. UNCHANGED <<secrets, agents>>
    BY <1>4 DEF DropExtra
  <2>3. Moves(c)
    BY <1>0, <1>4 DEF DropExtra, Moves, ClaimTypeOK, ClaimRec, ClaimPc, Holding
  <2> QED
    BY <2>1, <2>2, <2>3, DeletePodAdvances, SameAdvances DEF ClusterTypeOK
<1>5. CASE ClaimFails(c)
  <2>1. Moves(c)
    BY <1>0, <1>5 DEF ClaimFails, Goto, Moves, ClaimTypeOK, ClaimRec, ClaimPc, Holding
  <2> QED
    BY <1>5, <2>1, SameAdvances DEF ClaimFails, ClusterTypeOK, clusterVars
<1>6. CASE CreateAuthSecret(c)
  <2>1. Moves(c)
    BY <1>0, <1>6 DEF CreateAuthSecret, Goto, Moves, ClaimTypeOK, ClaimRec, ClaimPc, Holding
  <2>2. UNCHANGED <<pods, agents>> /\ secrets' \in SUBSET Sessions
    BY <1>0, <1>6 DEF CreateAuthSecret, ClusterTypeOK
  <2> QED
    BY <2>1, <2>2, SameAdvances DEF ClusterTypeOK
<1>7. CASE AssignToken(c)
  <2>1. Moves(c)
    BY <1>0, <1>7 DEF AssignToken, NoCandidates, Moves, ClaimTypeOK, ClaimRec, ClaimPc, Holding
  <2>2. UNCHANGED <<pods, secrets>> /\ agents' \in [Pods -> Sessions \cup {NoSession}]
    BY <1>0, <1>7 DEF AssignToken, ClusterTypeOK
  <2> QED
    BY <2>1, <2>2, SameAdvances DEF ClusterTypeOK
<1>8. CASE AssignFails(c)
  <2>1. Moves(c)
    BY <1>0, <1>8 DEF AssignFails, Goto, Moves, ClaimTypeOK, ClaimRec, ClaimPc, Holding
  <2>2. UNCHANGED <<pods, secrets>> /\ agents' \in [Pods -> Sessions \cup {NoSession}]
    BY <1>0, <1>8 DEF AssignFails, ClusterTypeOK
  <2> QED
    BY <2>1, <2>2, SameAdvances DEF ClusterTypeOK
<1>9. CASE rollbackLabel(c)
  <2>1. claim[c].pod \in Pods
    BY <1>0, <1>9 DEF rollbackLabel, Holding
  <2>2. UNCHANGED pods \/ SetLabel(claim[c].pod, NoSession)
    BY <1>9 DEF rollbackLabel
  <2>3. Moves(c)
    BY <1>0, <1>9 DEF rollbackLabel, Moves, ClaimTypeOK, ClaimRec, ClaimPc, Holding
  <2>4. UNCHANGED <<secrets, agents>>
    BY <1>9 DEF rollbackLabel
  <2> QED
    BY <2>1, <2>2, <2>3, <2>4, SetLabelAdvances, SameAdvances DEF ClusterTypeOK
<1>10. CASE bestEffortDeleteSecret(c)
  <2>1. Moves(c)
    BY <1>0, <1>10 DEF bestEffortDeleteSecret, Goto, Moves, ClaimTypeOK, ClaimRec, ClaimPc, Holding
  <2>2. UNCHANGED <<pods, agents>> /\ secrets' \in SUBSET Sessions
    BY <1>10 DEF bestEffortDeleteSecret, ClusterTypeOK
  <2> QED
    BY <2>1, <2>2, SameAdvances DEF ClusterTypeOK
<1>11. CASE keepOldestAssigned(c)
  <2> DEFINE live == AssignedLive(SessionOf[c])
  <2>a. claim[c].pc = "dedupe" /\ live \subseteq Pods
    BY <1>11 DEF keepOldestAssigned, AssignedLive
  <2>b. \/ claim' = [claim EXCEPT ![c].pc = "done"]
        \/ \E keep \in live : claim' = [claim EXCEPT ![c].pc = "drop", ![c].pod = keep,
                                                     ![c].extras = live \ {keep}]
    BY <1>11 DEF keepOldestAssigned, Goto
  <2> HIDE DEF live
  <2>c. ASSUME claim' = [claim EXCEPT ![c].pc = "done"]
        PROVE  Moves(c)
    BY <1>0, <2>a, <2>c DEF Moves, ClaimTypeOK, ClaimRec, ClaimPc, Holding
  <2>d. ASSUME NEW keep \in live,
               claim' = [claim EXCEPT ![c].pc = "drop", ![c].pod = keep,
                                      ![c].extras = live \ {keep}]
        PROVE  Moves(c)
    <3>1. keep \in Pods /\ live \ {keep} \in SUBSET Pods
      BY <2>a
    <3> QED
      BY <1>0, <2>a, <2>d, <3>1 DEF Moves, ClaimTypeOK, ClaimRec, ClaimPc
  <2>1. Moves(c)
    BY <2>b, <2>c, <2>d
  <2> QED
    BY <1>11, <2>1, SameAdvances DEF keepOldestAssigned, ClusterTypeOK, clusterVars
<1>12. CASE KeptOldest(c)
  <2>1. Moves(c)
    BY <1>0, <1>12 DEF KeptOldest, Goto, Moves, ClaimTypeOK, ClaimRec, ClaimPc, Holding
  <2> QED
    BY <1>12, <2>1, SameAdvances DEF KeptOldest, ClusterTypeOK, clusterVars
<1> QED
  BY <1>1, <1>2, <1>3, <1>4, <1>5, <1>6, <1>7, <1>8, <1>9, <1>10, <1>11, <1>12 DEF ClaimStep

-----------------------------------------------------------------------------
(* reconcilePool steps.                                                    *)

\* Sets of pods are finite.
LEMMA PodsFinite ==
    \A S \in SUBSET Pods : IsFiniteSet(S) /\ Cardinality(S) \in Nat
BY ClusterAssumption, FS_Subset, FS_CardinalityType

\* Between passes the locals have their types.
LEMMA IdleType == Idle \in OpRec
BY DEF Idle, OpRec, OpPc

\* The pods a create may use.
LEMMA CreateAdvances ==
    ASSUME ClusterTypeOK, OperatorTypeOK, NEW p \in Unused, CreatePod(p)
    PROVE  /\ Advances
           /\ \A q \in Pods \ {p} : pods'[q] = pods[q]
           /\ pods'[p].label = NoSession /\ pods'[p].state = "live" /\ pods[p].state = "none"
           /\ p \in Pods
<1> DEFINE r == [NeverCreated EXCEPT !.state = "live", !.hash = op.hash, !.born = op.born]
<1>1. p \in Pods /\ pods[p].state = "none"
  BY DEF Unused
<1>2. r \in PodRec /\ r.label = NoSession /\ r.state = "live"
  BY DEF NeverCreated, PodRec, PodState, Health, OperatorTypeOK, OpRec
<1>3. /\ Advances /\ pods' = [pods EXCEPT ![p] = pods'[p]]
      /\ pods'[p] = [r EXCEPT !.rv = pods[p].rv + 1]
  BY <1>1, <1>2, WriteAdvances DEF CreatePod
<1> QED
  BY <1>1, <1>2, <1>3 DEF ClusterTypeOK, PodRec

\* Every step of reconcilePool keeps the types and advances the API server, and
\* the watch carries what it wrote.
LEMMA OperatorStepType ==
    ASSUME ClusterTypeOK, OperatorTypeOK, TargetWasUnassigned, OperatorStep
    PROVE  /\ Advances /\ Publish /\ op' \in OpRec
           /\ UNCHANGED <<cache, spec, secrets, agents>>
<1> DEFINE Goal == /\ Advances /\ Publish /\ op' \in OpRec
                   /\ UNCHANGED <<cache, spec, secrets, agents>>
<1>0. op \in OpRec /\ spec.size \in Nat /\ spec.hash \in Nat
      /\ \A p \in Pods : cache[p].rv \in Nat
  BY OperatorAssumption DEF OperatorTypeOK, PodRec
<1>1. CASE StartPass
  <2>1. /\ StaleOrUnhealthy(spec.hash) \in SUBSET Pods
        /\ ListedLive \ StaleOrUnhealthy(spec.hash) \in SUBSET Pods
        /\ Cardinality(ListedTerminating) \in Nat
    BY PodsFinite DEF StaleOrUnhealthy, ListedLive, ListedTerminating
  <2>2. PICK B, L \in SUBSET Pods, n \in Nat, b \in BOOLEAN :
           op' = [Idle EXCEPT !.pc = "purge", !.desired = spec.size, !.hash = spec.hash,
                              !.todo = B, !.live = L, !.term = n, !.synced = b]
    <3>1. (cache = pods) \in BOOLEAN
      OBVIOUS
    <3> QED
      BY <1>1, <2>1, <3>1, Zenon DEF StartPass
  <2>3. op' \in OpRec
    BY <1>0, <2>2, IdleType DEF OpRec, OpPc
  <2> QED
    BY <1>1, <2>3, SameAdvances DEF StartPass, Publish
<1>2. CASE StartZeroPass
  <2>1. PICK L \in SUBSET Pods :
           op' = [Idle EXCEPT !.pc = "zero", !.loop = "zero", !.todo = L]
    BY <1>2 DEF StartZeroPass, ListedLive
  <2>2. op' \in OpRec
    BY <2>1, IdleType DEF OpRec, OpPc
  <2> QED
    BY <1>2, <2>2, SameAdvances DEF StartZeroPass, Publish
<1>3. ASSUME NEW p \in Pods, ReGet(p)
      PROVE  Goal
  <2>1. op' \in OpRec
    BY <1>0, <1>3 DEF ReGet, OpRec, OpPc
  <2> QED
    BY <1>3, <2>1, SameAdvances DEF ReGet, Publish
<1>4. ASSUME NEW p \in Pods, createPoolPod(p)
      PROVE  Goal
  <2>1. op' \in OpRec
    BY <1>0, <1>4 DEF createPoolPod, OpRec, OpPc
  <2>2. Advances
    BY <1>4, CreateAdvances DEF createPoolPod
  <2> QED
    BY <1>4, <2>1, <2>2 DEF createPoolPod
<1>5. CASE DeleteUnassigned
  <2>1. op' \in OpRec
    BY <1>0, <1>5 DEF DeleteUnassigned, OpRec, OpPc
  <2>2. op.target \in Pods
    BY <1>5 DEF DeleteUnassigned, TargetWasUnassigned
  <2>3. Advances
    BY <1>5, <2>2, DeletePodAdvances, SameAdvances DEF DeleteUnassigned
  <2> QED
    BY <1>5, <2>1, <2>3 DEF DeleteUnassigned
<1>6. CASE DeleteError
  <2>1. op.target \in Pods
    BY <1>6 DEF DeleteError, TargetWasUnassigned
  <2>2. Advances
    BY <1>6, <2>1, DeletePodAdvances, SameAdvances DEF DeleteError
  <2> QED
    BY <1>6, <2>2, IdleType DEF DeleteError
<1>7. CASE OccupiesSlot
  <2>1. PICK n \in {op.slots, op.slots + 1} :
           op' = [op EXCEPT !.pc = op.loop, !.target = NoPod, !.fresh = 0, !.slots = n]
    BY <1>7, Zenon DEF OccupiesSlot
  <2>2. n \in Nat
    BY <1>0 DEF OpRec
  <2>3. op' \in OpRec
    BY <1>0, <2>1, <2>2 DEF OpRec, OpPc
  <2> QED
    BY <1>7, <2>3, SameAdvances DEF OccupiesSlot, Publish
<1>8. CASE ChooseSurplus
  <2>1. PICK S \in SUBSET op.live :
           op' = [op EXCEPT !.pc = "surplus", !.todo = S, !.live = @ \ S]
    BY <1>8 DEF ChooseSurplus
  <2>2. S \in SUBSET Pods /\ op.live \ S \in SUBSET Pods
    BY <1>0 DEF OpRec
  <2>3. op' \in OpRec
    BY <1>0, <2>1, <2>2 DEF OpRec, OpPc
  <2> QED
    BY <1>8, <2>3, SameAdvances DEF ChooseSurplus, Publish
<1>9. CASE ChooseDeficit
  <2>1. Cardinality(op.live) \in Nat
    BY <1>0, PodsFinite DEF OpRec
  <2>2. Deficit \in Nat
    BY <1>0, <2>1 DEF Deficit, OpRec
  <2>3. Cardinality({p \in Pods : pods[p].state # "none"}) \in Nat
    BY PodsFinite
  <2>4. op' \in OpRec
    BY <1>0, <1>9, <2>2, <2>3 DEF ChooseDeficit, OpRec, OpPc
  <2> QED
    BY <1>9, <2>4, SameAdvances DEF ChooseDeficit, Publish
<1>10. CASE CreateError
  <2>1. Advances
    BY <1>10, CreateAdvances, SameAdvances DEF CreateError
  <2> QED
    BY <1>10, <2>1, IdleType DEF CreateError
<1>11. CASE EndPass
  BY <1>11, IdleType, SameAdvances DEF EndPass, Publish
<1> QED
  BY <1>1, <1>2, <1>3, <1>4, <1>5, <1>6, <1>7, <1>8, <1>9, <1>10, <1>11 DEF OperatorStep

-----------------------------------------------------------------------------
(* The informer cache is in the past, and so is what was read from it.     *)

\* A past state stays one.
LEMMA PastAdvances ==
    ASSUME ClusterTypeOK, Advances, NEW s \in [Pods -> PodRec], IsPast(s, pods)
    PROVE  IsPast(s, pods')
<1> SUFFICES ASSUME NEW p \in Pods
             PROVE  s[p].rv <= pods'[p].rv /\ (s[p].rv = pods'[p].rv => s[p] = pods'[p])
  BY DEF IsPast
<1>1. s[p].rv \in Nat /\ pods[p].rv \in Nat
  BY DEF ClusterTypeOK, PodRec
<1>2. s[p].rv <= pods[p].rv /\ (s[p].rv = pods[p].rv => s[p] = pods[p])
  BY DEF IsPast
<1>3. pods'[p] = pods[p] \/ pods'[p].rv = pods[p].rv + 1
  BY DEF Advances
<1> QED
  BY <1>1, <1>2, <1>3

\* The present is a past state.
LEMMA PresentIsPast ==
    ASSUME Advances
    PROVE  IsPast(pods', pods')
BY DEF Advances, IsPast, PodRec

\* A write and its watch event keep the cache in the past.
LEMMA CacheAfterWrite ==
    ASSUME ClusterTypeOK, OperatorTypeOK, CacheIsPast, Advances, Publish, UNCHANGED cache
    PROVE  CacheIsPast' /\ watch' \in Seq([Pods -> PodRec])
<1>1. IsPast(cache', pods')
  BY PastAdvances DEF CacheIsPast, OperatorTypeOK
<1>2. \A i \in 1..Len(watch) : IsPast(watch[i], pods')
  BY PastAdvances DEF CacheIsPast, OperatorTypeOK
<1>3. CASE watch' = watch
  BY <1>1, <1>2, <1>3 DEF CacheIsPast, OperatorTypeOK
<1>4. CASE watch' = Append(watch, pods')
  <2>1. watch' \in Seq([Pods -> PodRec]) /\ Len(watch') = Len(watch) + 1
    BY <1>4 DEF OperatorTypeOK, Advances
  <2>2. \A i \in 1..Len(watch') : i \in 1..Len(watch) \/ i = Len(watch) + 1
    BY <2>1 DEF OperatorTypeOK
  <2>3. \A i \in 1..Len(watch) : watch'[i] = watch[i]
    BY <1>4 DEF OperatorTypeOK, Advances
  <2>4. watch'[Len(watch) + 1] = pods'
    BY <1>4 DEF OperatorTypeOK, Advances
  <2>5. \A i \in 1..Len(watch') : IsPast(watch'[i], pods')
    BY <1>2, <2>2, <2>3, <2>4, PresentIsPast
  <2> QED
    BY <1>1, <2>1, <2>5 DEF CacheIsPast
<1> QED
  BY <1>3, <1>4 DEF Publish

\* A delivered event moves the cache forward, still in the past.
LEMMA CacheAfterDeliver ==
    ASSUME OperatorTypeOK, CacheIsPast, Deliver
    PROVE  CacheIsPast' /\ OperatorTypeOK'
<1>1. watch \in Seq([Pods -> PodRec]) /\ watch # <<>>
  BY DEF OperatorTypeOK, Deliver
<1>2. /\ cache' = watch[1] /\ watch' = Tail(watch)
      /\ cache' \in [Pods -> PodRec] /\ 1 \in 1..Len(watch)
  BY <1>1 DEF Deliver
<1>3. /\ watch' \in Seq([Pods -> PodRec]) /\ Len(watch') = Len(watch) - 1
      /\ \A i \in 1..Len(watch') : watch'[i] = watch[i + 1] /\ i + 1 \in 1..Len(watch)
  BY <1>1, <1>2
<1>4. IsPast(cache', pods) /\ \A i \in 1..Len(watch') : IsPast(watch'[i], pods)
  BY <1>2, <1>3 DEF CacheIsPast
<1>5. pods' = pods /\ spec' = spec /\ op' = op
  BY DEF Deliver
<1> QED
  BY <1>2, <1>3, <1>4, <1>5 DEF CacheIsPast, OperatorTypeOK

\* A version read when the pod was unassigned either is no longer current or
\* is that of an unassigned pod.
LEMMA UnassignedVersion ==
    ASSUME ClusterTypeOK, Advances, NEW p \in Pods, NEW v \in Nat,
           v <= pods[p].rv, pods[p].rv = v => pods[p].label = NoSession
    PROVE  v <= pods'[p].rv /\ (pods'[p].rv = v => pods'[p].label = NoSession)
<1>1. pods[p].rv \in Nat
  BY DEF ClusterTypeOK, PodRec
<1>2. pods'[p] = pods[p] \/ pods'[p].rv = pods[p].rv + 1
  BY DEF Advances
<1> QED
  BY <1>1, <1>2

\* The version in hand between the re-read and the delete.
LEMMA TargetAfterWrite ==
    ASSUME ClusterTypeOK, OperatorTypeOK, TargetWasUnassigned, Advances,
           op'.pc = "delete" => op.pc = "delete" /\ op'.target = op.target /\ op'.fresh = op.fresh
    PROVE  TargetWasUnassigned'
BY UnassignedVersion DEF TargetWasUnassigned, OperatorTypeOK, OpRec

\* A re-read from the cache is such a version.
LEMMA TargetAfterOperatorStep ==
    ASSUME ClusterTypeOK, OperatorTypeOK, CacheIsPast, TargetWasUnassigned, OperatorStep
    PROVE  TargetWasUnassigned'
<1>1. ASSUME NEW p \in Pods, ReGet(p)
      PROVE  TargetWasUnassigned'
  <2>1. /\ op' = [op EXCEPT !.loop = op.pc, !.todo = @ \ {p}, !.target = p, !.fresh = cache[p].rv,
                            !.pc = IF Unassigned(cache[p]) THEN "delete" ELSE "occupies"]
        /\ pods' = pods /\ op \in OpRec
    BY <1>1 DEF ReGet, OperatorTypeOK
  <2>2. /\ op'.target = p /\ op'.fresh = cache[p].rv
        /\ op'.pc = "delete" => Unassigned(cache[p])
    BY <2>1 DEF OpRec
  <2>3. cache[p].rv <= pods[p].rv /\ (pods[p].rv = cache[p].rv => cache[p] = pods[p])
    BY DEF CacheIsPast, IsPast
  <2> QED
    BY <2>1, <2>2, <2>3 DEF TargetWasUnassigned, Unassigned
<1>2. ASSUME \A p \in Pods : ~ReGet(p)
      PROVE  op'.pc # "delete"
  <2>1. op \in OpRec
    BY DEF OperatorTypeOK
  <2>2. StartPass \/ StartZeroPass => op'.pc # "delete"
    BY DEF StartPass, StartZeroPass, Idle
  <2>3. \A p \in Pods : createPoolPod(p) => op'.pc # "delete"
    BY <2>1 DEF createPoolPod, OpRec
  <2>4. DeleteUnassigned \/ OccupiesSlot => op'.pc # "delete"
    BY <2>1 DEF DeleteUnassigned, OccupiesSlot, OpRec
  <2>5. ChooseSurplus \/ ChooseDeficit => op'.pc # "delete"
    BY <2>1 DEF ChooseSurplus, ChooseDeficit, OpRec
  <2>6. DeleteError \/ CreateError \/ EndPass => op'.pc # "delete"
    BY DEF DeleteError, CreateError, EndPass, Idle
  <2> QED
    BY <1>2, <2>2, <2>3, <2>4, <2>5, <2>6 DEF OperatorStep
<1> QED
  BY <1>1, <1>2 DEF TargetWasUnassigned

-----------------------------------------------------------------------------
(* Labels.                                                                 *)

LabelInv ==
    /\ NewPodsUnlabelled /\ CandidatesWereUnassigned
    /\ TryingIsCreated /\ TryingIsLabelled /\ TryingIsAlone

\* No label of an existing pod changes, and no pod becomes uncreated.
LabelsKept ==
    \A p \in Pods : /\ InApi(pods'[p]) => InApi(pods[p]) /\ pods'[p].label = pods[p].label
                    /\ pods'[p].state = "none" => pods[p].state = "none" /\ pods'[p].label = pods[p].label

\* Calls in tryClaimPod were there before, with the same pod, and candidates
\* were candidates before.
TryingKept ==
    \A c \in Claims :
       /\ claim'[c].pc \in Trying => claim[c].pc \in Trying /\ claim'[c].pod = claim[c].pod
       /\ \A p \in Pods : claim'[c].seen[p] \in {0, claim[c].seen[p]}

\* Candidates stay versions of unassigned pods.
LEMMA CandidatesAfterWrite ==
    ASSUME ClusterTypeOK, ClaimTypeOK, CandidatesWereUnassigned, Advances,
           \A c \in Claims, p \in Pods : claim'[c].seen[p] \in {0, claim[c].seen[p]}
    PROVE  CandidatesWereUnassigned'
<1> SUFFICES ASSUME NEW c \in Claims, NEW p \in Pods, claim'[c].seen[p] # 0
             PROVE  /\ claim'[c].seen[p] <= pods'[p].rv
                    /\ pods'[p].rv = claim'[c].seen[p] => pods'[p].label = NoSession
  BY DEF CandidatesWereUnassigned
<1>1. claim'[c].seen[p] = claim[c].seen[p] /\ claim[c].seen[p] \in Nat
  BY DEF ClaimTypeOK, ClaimRec
<1>2. /\ claim[c].seen[p] <= pods[p].rv
      /\ pods[p].rv = claim[c].seen[p] => pods[p].label = NoSession
  BY <1>1 DEF CandidatesWereUnassigned
<1> QED
  BY <1>1, <1>2, UnassignedVersion

\* Steps that change no label keep the label invariant.
LEMMA LabelsKeptInv ==
    ASSUME ClusterTypeOK, ClaimTypeOK, HeldPods, LabelInv, Advances, LabelsKept, TryingKept
    PROVE  LabelInv'
<1>1. NewPodsUnlabelled'
  BY DEF LabelInv, NewPodsUnlabelled, LabelsKept
<1>2. CandidatesWereUnassigned'
  BY CandidatesAfterWrite DEF LabelInv, TryingKept
<1>3. \A c \in Claims : claim'[c].pc \in Trying =>
         claim[c].pc \in Trying /\ claim'[c].pod = claim[c].pod /\ claim[c].pod \in Pods
  BY DEF TryingKept, HeldPods, Trying, Holding
<1>4. TryingIsCreated'
  BY <1>3 DEF LabelInv, TryingIsCreated, LabelsKept
<1>5. TryingIsLabelled'
  BY <1>3 DEF LabelInv, TryingIsLabelled, LabelsKept
<1>6. TryingIsAlone'
  BY <1>3 DEF LabelInv, TryingIsAlone, LabelsKept
<1> QED
  BY <1>1, <1>2, <1>4, <1>5, <1>6 DEF LabelInv

\* A label patch that applies finds a pod without a label, and no other call
\* that is still in tryClaimPod for that pod.
LEMMA PatchFindsUnassigned ==
    ASSUME ClusterTypeOK, ClaimTypeOK, LabelInv, NEW c \in Claims, NEW p \in Pods,
           NextCandidate(c, p), PatchApplies(c, p)
    PROVE  /\ InApi(pods[p]) /\ pods[p].label = NoSession
           /\ \A d \in Claims : claim[d].pc \in Trying => claim[d].pod # p
<1>1. claim[c].seen[p] # 0
  BY DEF NextCandidate, Oldest, Candidates
<1>2. InApi(pods[p]) /\ pods[p].label = NoSession
  BY <1>1 DEF LabelInv, CandidatesWereUnassigned, PatchApplies
<1>3. \A d \in Claims : SessionOf[d] # NoSession
  BY ClaimAssumption, ClusterAssumption
<1> QED
  BY <1>2, <1>3 DEF LabelInv, TryingIsLabelled

\* Putting the label on.
LEMMA PatchedInv ==
    ASSUME ClusterTypeOK, ClaimTypeOK, HeldPods, LabelInv, Advances,
           NEW c \in Claims, NEW p \in Pods,
           NextCandidate(c, p), PatchApplies(c, p), SetLabel(p, SessionOf[c]),
           \A d \in Claims \ {c} : claim'[d] = claim[d],
           \A q \in Pods : claim'[c].seen[q] \in {0, claim[c].seen[q]},
           claim'[c].pc \in Trying => claim'[c].pod = p
    PROVE  LabelInv'
<1>1. /\ InApi(pods[p]) /\ pods[p].label = NoSession
      /\ \A d \in Claims : claim[d].pc \in Trying => claim[d].pod # p
  BY PatchFindsUnassigned
<1>2. SessionOf[c] \in Sessions \cup {NoSession}
  BY ClaimAssumption
<1>3. /\ \A q \in Pods : pods'[q].state = pods[q].state
      /\ \A q \in Pods \ {p} : pods'[q] = pods[q]
      /\ pods'[p].label = SessionOf[c]
  BY <1>1, <1>2, SetLabelAdvances
<1>4. \A d \in Claims : claim'[d].pc \in Trying =>
         \/ d = c /\ claim'[d].pod = p
         \/ d # c /\ claim[d].pc \in Trying /\ claim'[d].pod = claim[d].pod
            /\ claim[d].pod \in Pods \ {p}
  BY <1>1 DEF HeldPods, Trying, Holding
<1>5. CandidatesWereUnassigned'
  <2>1. \A d \in Claims, q \in Pods : claim'[d].seen[q] \in {0, claim[d].seen[q]}
    OBVIOUS
  <2> QED
    BY <2>1, CandidatesAfterWrite DEF LabelInv
<1>6. NewPodsUnlabelled'
  BY <1>1, <1>3 DEF LabelInv, NewPodsUnlabelled, InApi
<1>7. TryingIsCreated'
  BY <1>1, <1>3, <1>4 DEF LabelInv, TryingIsCreated, InApi
<1>8. TryingIsLabelled'
  BY <1>3, <1>4 DEF LabelInv, TryingIsLabelled
<1>9. TryingIsAlone'
  BY <1>3, <1>4 DEF LabelInv, TryingIsAlone
<1> QED
  BY <1>5, <1>6, <1>7, <1>8, <1>9 DEF LabelInv

\* Taking the label off.
LEMMA RolledBackInv ==
    ASSUME ClusterTypeOK, ClaimTypeOK, HeldPods, LabelInv, Advances, NEW c \in Claims,
           claim[c].pc \in Trying, SetLabel(claim[c].pod, NoSession),
           \A d \in Claims \ {c} : claim'[d] = claim[d],
           claim'[c].seen = claim[c].seen, claim'[c].pc \notin Trying
    PROVE  LabelInv'
<1> DEFINE p == claim[c].pod
<1>1. p \in Pods
  BY DEF HeldPods, Trying, Holding
<1>2. /\ \A q \in Pods : pods'[q].state = pods[q].state
      /\ \A q \in Pods \ {p} : pods'[q] = pods[q]
      /\ InApi(pods[p]) => pods'[p].label = NoSession
      /\ ~InApi(pods[p]) => pods'[p] = pods[p]
  BY <1>1, SetLabelAdvances
<1> HIDE DEF p
<1>3. \A d \in Claims : claim'[d].pc \in Trying =>
         /\ d # c /\ claim[d].pc \in Trying /\ claim'[d] = claim[d] /\ claim[d].pod \in Pods
         /\ InApi(pods[p]) => claim[d].pod # p
  BY DEF HeldPods, Trying, Holding, LabelInv, TryingIsAlone, p
<1>4. CandidatesWereUnassigned'
  <2>1. \A d \in Claims, q \in Pods : claim'[d].seen[q] \in {0, claim[d].seen[q]}
    OBVIOUS
  <2> QED
    BY <2>1, CandidatesAfterWrite DEF LabelInv
<1>5. NewPodsUnlabelled'
  BY <1>1, <1>2 DEF LabelInv, NewPodsUnlabelled
<1>6. TryingIsCreated'
  BY <1>2, <1>3 DEF LabelInv, TryingIsCreated
<1>7. TryingIsLabelled'
  BY <1>2, <1>3 DEF LabelInv, TryingIsLabelled, InApi
<1>8. TryingIsAlone'
  BY <1>2, <1>3 DEF LabelInv, TryingIsAlone, InApi
<1> QED
  BY <1>4, <1>5, <1>6, <1>7, <1>8 DEF LabelInv

\* Steps of ClaimPod keep the label invariant and change only labels that are
\* theirs to change.
LEMMA ClaimStepLabels ==
    ASSUME ClusterTypeOK, ClaimTypeOK, HeldPods, LabelInv, NEW c \in Claims, ClaimStep(c)
    PROVE  LabelInv' /\ LabelChangeIsOwn
<1> DEFINE Goal == LabelInv' /\ LabelChangeIsOwn
<1>a. Advances /\ \A d \in Claims \ {c} : claim'[d] = claim[d]
  BY ClaimStepType, MovesType
<1>b. /\ claim[c] \in ClaimRec /\ claim \in [Claims -> ClaimRec]
      /\ SessionOf[c] \in Sessions
      /\ claim[c].pc \in Trying => claim[c].pod \in Pods
  BY ClaimAssumption DEF ClaimTypeOK, HeldPods, Trying, Holding
<1>c. ASSUME UNCHANGED pods, TryingKept
      PROVE  Goal
  <2>1. LabelsKept
    BY <1>c DEF LabelsKept
  <2> QED
    BY <1>a, <1>c, <2>1, LabelsKeptInv DEF LabelChangeIsOwn
<1>d. ASSUME UNCHANGED pods,
             claim'[c].pc \in Trying => claim[c].pc \in Trying /\ claim'[c].pod = claim[c].pod,
             \A p \in Pods : claim'[c].seen[p] \in {0, claim[c].seen[p]}
      PROVE  Goal
  <2>1. TryingKept
    BY <1>a, <1>d DEF TryingKept
  <2> QED
    BY <1>c, <1>d, <2>1
<1>1. CASE listUnassignedPods(c)
  <2>1. /\ UNCHANGED pods /\ claim'[c].pc = "next"
        /\ claim'[c].seen = [p \in Pods |->
              IF Unassigned(pods[p]) /\ IsClaimableUnassigned(pods[p]) THEN pods[p].rv ELSE 0]
    BY <1>1, <1>b DEF listUnassignedPods, clusterVars, ClaimRec
  <2>2. \A p \in Pods : claim'[c].seen[p] # 0 =>
           claim'[c].seen[p] = pods'[p].rv /\ pods'[p].label = NoSession /\ pods'[p].rv \in Nat
    BY <2>1 DEF Unassigned, ClusterTypeOK, PodRec
  <2>3. CandidatesWereUnassigned'
    BY <1>a, <2>1, <2>2 DEF LabelInv, CandidatesWereUnassigned
  <2>4. \A d \in Claims : claim'[d].pc \in Trying => d # c /\ claim'[d] = claim[d]
    BY <1>a, <2>1 DEF Trying
  <2>5. NewPodsUnlabelled' /\ TryingIsCreated' /\ TryingIsLabelled' /\ TryingIsAlone'
    BY <2>1, <2>4 DEF LabelInv, NewPodsUnlabelled, TryingIsCreated, TryingIsLabelled, TryingIsAlone
  <2> QED
    BY <2>1, <2>3, <2>5 DEF LabelInv, LabelChangeIsOwn
<1>e. ASSUME NEW p \in Pods, NextCandidate(c, p), PatchApplies(c, p), SetLabel(p, SessionOf[c]),
             \A q \in Pods : claim'[c].seen[q] \in {0, claim[c].seen[q]},
             claim'[c].pc \in Trying => claim'[c].pod = p
      PROVE  Goal
  <2>1. LabelInv'
    BY <1>a, <1>e, PatchedInv
  <2>2. pods[p].label = NoSession
    BY <1>e, PatchFindsUnassigned
  <2>3. \A q \in Pods \ {p} : pods'[q] = pods[q]
    BY <1>b, <1>e, SetLabelAdvances
  <2>4. LabelChangeIsOwn
    BY <2>2, <2>3 DEF LabelChangeIsOwn
  <2> QED
    BY <2>1, <2>4
<1>2. ASSUME NEW p \in Pods, PatchLabel(c, p)
      PROVE  Goal
  <2>1. /\ claim'[c].pod = p
        /\ \A q \in Pods : claim'[c].seen[q] \in {0, claim[c].seen[q]}
    BY <1>2, <1>b DEF PatchLabel, ClaimRec
  <2> QED
    BY <1>2, <1>e, <2>1 DEF PatchLabel
<1>3. ASSUME NEW p \in Pods, PatchFails(c, p)
      PROVE  Goal
  <2>1. /\ claim'[c].pc = "next"
        /\ \A q \in Pods : claim'[c].seen[q] \in {0, claim[c].seen[q]}
    BY <1>3, <1>b DEF PatchFails, ClaimRec
  <2>2. claim'[c].pc \notin Trying
    BY <2>1 DEF Trying
  <2>3. UNCHANGED pods \/ (PatchApplies(c, p) /\ SetLabel(p, SessionOf[c]))
    BY <1>3 DEF PatchFails
  <2>4. NextCandidate(c, p)
    BY <1>3 DEF PatchFails
  <2> QED
    BY <1>d, <1>e, <2>1, <2>2, <2>3, <2>4
<1>4. ASSUME NEW p \in Pods, DropExtra(c, p)
      PROVE  Goal
  <2>1. UNCHANGED pods \/ \E d \in Pods : DeletePod(d)
    BY <1>4 DEF DropExtra, DeleteNamed, Named
  <2>2. claim'[c].pc = "drop" /\ claim'[c].seen = claim[c].seen
    BY <1>4, <1>b DEF DropExtra, ClaimRec
  <2>3. TryingKept
    BY <1>a, <2>2 DEF TryingKept, Trying
  <2>4. ASSUME NEW d \in Pods, DeletePod(d)
        PROVE  LabelsKept /\ LabelChangeIsOwn
    <3>1. \A q \in Pods : /\ pods'[q].label = pods[q].label
                          /\ InApi(pods'[q]) => InApi(pods[q])
                          /\ pods'[q].state = "none" => pods[q].state = "none"
      BY <2>4, DeletePodAdvances
    <3> QED
      BY <3>1 DEF LabelsKept, LabelChangeIsOwn
  <2> QED
    BY <1>a, <1>c, <2>1, <2>3, <2>4, LabelsKeptInv
<1>5. CASE ClaimFails(c)
  BY <1>5, <1>b, <1>d DEF ClaimFails, Goto, clusterVars, Trying, ClaimRec
<1>6. CASE CreateAuthSecret(c)
  BY <1>6, <1>b, <1>d DEF CreateAuthSecret, Goto, Trying, ClaimRec
<1>7. CASE AssignToken(c)
  BY <1>7, <1>b, <1>d DEF AssignToken, Trying, ClaimRec, NoCandidates
<1>8. CASE AssignFails(c)
  BY <1>8, <1>b, <1>d DEF AssignFails, Goto, Trying, ClaimRec
<1>9. CASE rollbackLabel(c)
  <2>1. /\ claim[c].pc \in {"rollback", "rollbackAll"} /\ claim[c].pc \in Trying
        /\ UNCHANGED pods \/ SetLabel(claim[c].pod, NoSession)
    BY <1>9 DEF rollbackLabel, Trying
  <2>2. claim'[c].pc \in {"next", "unsecret"} /\ claim'[c].seen = claim[c].seen
    BY <1>9, <1>b DEF rollbackLabel, ClaimRec
  <2>3. claim'[c].pc \notin Trying
    BY <2>2 DEF Trying
  <2>4. CASE UNCHANGED pods
    BY <1>d, <2>2, <2>3, <2>4
  <2>5. CASE SetLabel(claim[c].pod, NoSession)
    <3>1. LabelInv'
      BY <1>a, <2>1, <2>2, <2>3, <2>5, RolledBackInv
    <3>2. claim[c].pod \in Pods
      BY <1>b, <2>1
    <3>3. /\ \A q \in Pods : pods'[q].state = pods[q].state
          /\ \A q \in Pods \ {claim[c].pod} : pods'[q] = pods[q]
          /\ InApi(pods[claim[c].pod]) => pods'[claim[c].pod].label = NoSession
      BY <2>5, <3>2, SetLabelAdvances
    <3>4. InApi(pods[claim[c].pod]) => pods[claim[c].pod].label = SessionOf[c]
      BY <2>1 DEF LabelInv, TryingIsLabelled
    <3>5. LabelChangeIsOwn
      BY <2>1, <3>2, <3>3, <3>4 DEF LabelChangeIsOwn, InApi
    <3> QED
      BY <3>1, <3>5
  <2> QED
    BY <2>1, <2>4, <2>5
<1>10. CASE bestEffortDeleteSecret(c)
  BY <1>10, <1>b, <1>d DEF bestEffortDeleteSecret, Goto, Trying, ClaimRec
<1>11. CASE keepOldestAssigned(c)
  <2>1. UNCHANGED pods
    BY <1>11 DEF keepOldestAssigned, clusterVars
  <2>2. \/ claim' = [claim EXCEPT ![c].pc = "done"]
        \/ \E keep, extras : claim' = [claim EXCEPT ![c].pc = "drop", ![c].pod = keep,
                                                    ![c].extras = extras]
    BY <1>11 DEF keepOldestAssigned, Goto
  <2>3. claim'[c].pc \in {"done", "drop"} /\ claim'[c].seen = claim[c].seen
    <3>1. CASE claim' = [claim EXCEPT ![c].pc = "done"]
      BY <3>1, <1>b DEF ClaimRec
    <3>2. ASSUME NEW keep, NEW extras,
                 claim' = [claim EXCEPT ![c].pc = "drop", ![c].pod = keep, ![c].extras = extras]
          PROVE  claim'[c].pc = "drop" /\ claim'[c].seen = claim[c].seen
      BY <3>2, <1>b DEF ClaimRec
    <3> QED
      BY <2>2, <3>1, <3>2
  <2> QED
    BY <1>d, <2>1, <2>3 DEF Trying
<1>12. CASE KeptOldest(c)
  BY <1>12, <1>b, <1>d DEF KeptOldest, Goto, clusterVars, Trying, ClaimRec
<1> QED
  BY <1>1, <1>2, <1>3, <1>4, <1>5, <1>6, <1>7, <1>8, <1>9, <1>10, <1>11, <1>12 DEF ClaimStep

\* Steps of the kubelet keep the label invariant.
LEMMA KubeletStepLabels ==
    ASSUME ClusterTypeOK, ClaimTypeOK, HeldPods, LabelInv, KubeletStep
    PROVE  LabelInv' /\ LabelChangeIsOwn
<1>1. PICK p \in Pods : \/ \E h \in Health : KubeletStatus(p, h)
                        \/ ContainerStart(p)
                        \/ KubeletRemove(p)
  BY DEF KubeletStep
<1>2. /\ Advances
      /\ \A q \in Pods : /\ InApi(pods'[q]) => InApi(pods[q]) /\ pods'[q].label = pods[q].label
                         /\ pods'[q].state = "none" => pods'[q] = pods[q]
  BY <1>1, KubeletAdvances
<1>3. LabelsKept /\ LabelChangeIsOwn
  BY <1>2 DEF LabelsKept, LabelChangeIsOwn
<1>4. TryingKept
  BY DEF KubeletStep, TryingKept
<1> QED
  BY <1>2, <1>3, <1>4, LabelsKeptInv

\* Steps of reconcilePool keep the label invariant: a pod it creates is held by
\* no claim yet.
LEMMA OperatorStepLabels ==
    ASSUME ClusterTypeOK, ClaimTypeOK, OperatorTypeOK, HeldPods, TargetWasUnassigned, LabelInv,
           OperatorStep, UNCHANGED claim
    PROVE  LabelInv' /\ LabelChangeIsOwn
<1>1. Advances
  BY OperatorStepType
<1>2. TryingKept
  BY DEF TryingKept
<1>3. ASSUME LabelsKept
      PROVE  LabelInv' /\ LabelChangeIsOwn
  BY <1>1, <1>2, <1>3, LabelsKeptInv DEF LabelsKept, LabelChangeIsOwn
<1>4. CASE UNCHANGED pods
  BY <1>3, <1>4 DEF LabelsKept
<1>5. ASSUME op.target \in Pods, DeletePod(op.target)
      PROVE  LabelsKept
  <2>1. \A q \in Pods : /\ pods'[q].label = pods[q].label
                        /\ InApi(pods'[q]) => InApi(pods[q])
                        /\ pods'[q].state = "none" => pods[q].state = "none"
    BY <1>5, DeletePodAdvances
  <2> QED
    BY <2>1 DEF LabelsKept
<1>6. ASSUME NEW p \in Unused, CreatePod(p)
      PROVE  LabelInv' /\ LabelChangeIsOwn
  <2>1. /\ \A q \in Pods \ {p} : pods'[q] = pods[q]
        /\ pods'[p].label = NoSession /\ pods'[p].state = "live" /\ pods[p].state = "none"
        /\ p \in Pods
    BY <1>6, CreateAdvances
  <2>2. pods[p].label = NoSession
    BY <2>1 DEF LabelInv, NewPodsUnlabelled
  <2>3. \A c \in Claims : claim[c].pc \in Trying => claim[c].pod \in Pods \ {p}
    BY <2>1 DEF LabelInv, TryingIsCreated, HeldPods, Trying, Holding
  <2>4. CandidatesWereUnassigned'
    BY <1>1, <1>2, CandidatesAfterWrite DEF LabelInv, TryingKept
  <2>5. NewPodsUnlabelled' /\ TryingIsCreated' /\ TryingIsLabelled' /\ TryingIsAlone'
    BY <2>1, <2>3 DEF LabelInv, NewPodsUnlabelled, TryingIsCreated, TryingIsLabelled, TryingIsAlone
  <2> QED
    BY <2>1, <2>2, <2>4, <2>5 DEF LabelInv, LabelChangeIsOwn
<1>7. CASE DeleteUnassigned
  <2>1. op.target \in Pods /\ (UNCHANGED pods \/ DeletePod(op.target))
    BY <1>7 DEF DeleteUnassigned, TargetWasUnassigned
  <2> QED
    BY <1>3, <1>4, <1>5, <2>1
<1>8. CASE DeleteError
  <2>1. op.target \in Pods /\ (UNCHANGED pods \/ DeletePod(op.target))
    BY <1>8 DEF DeleteError, TargetWasUnassigned
  <2> QED
    BY <1>3, <1>4, <1>5, <2>1
<1>9. CASE (\E p \in Pods : createPoolPod(p)) \/ CreateError
  <2>1. UNCHANGED pods \/ \E p \in Unused : CreatePod(p)
    BY <1>9 DEF createPoolPod, CreateError
  <2> QED
    BY <1>4, <1>6, <2>1
<1>10. CASE StartPass \/ StartZeroPass \/ (\E p \in Pods : ReGet(p)) \/ OccupiesSlot
           \/ ChooseSurplus \/ ChooseDeficit \/ EndPass
  <2>1. UNCHANGED pods
    BY <1>10 DEF StartPass, StartZeroPass, ReGet, OccupiesSlot, ChooseSurplus, ChooseDeficit, EndPass
  <2> QED
    BY <1>4, <2>1
<1> QED
  BY <1>7, <1>8, <1>9, <1>10 DEF OperatorStep

-----------------------------------------------------------------------------
(* Secrets.                                                                *)

\* Only the call that owns a session deletes its Secret.
LEMMA ClaimStepSecrets ==
    ASSUME ClusterTypeOK, ClaimTypeOK, HeldPods, OwnerHasSecret, SessionHasOneClaimant,
           NEW c \in Claims, ClaimStep(c)
    PROVE  OwnerHasSecret' /\ SessionHasOneClaimant'
<1> DEFINE Goal == OwnerHasSecret' /\ SessionHasOneClaimant'
<1>a. \A d \in Claims \ {c} : claim'[d] = claim[d]
  BY ClaimStepType, MovesType
<1>b. claim[c] \in ClaimRec /\ claim \in [Claims -> ClaimRec]
  BY DEF ClaimTypeOK
<1>c. ASSUME secrets \subseteq secrets', claim'[c].pc \in OwnsSession => claim[c].pc \in OwnsSession
      PROVE  Goal
  BY <1>a, <1>c DEF OwnerHasSecret, SessionHasOneClaimant
<1>1. CASE listUnassignedPods(c)
  BY <1>1, <1>b, <1>c DEF listUnassignedPods, clusterVars, OwnsSession, ClaimRec
<1>2. ASSUME NEW p \in Pods, PatchLabel(c, p) \/ PatchFails(c, p) \/ DropExtra(c, p)
      PROVE  Goal
  <2>1. secrets \subseteq secrets'
    BY <1>2 DEF PatchLabel, PatchFails, DropExtra
  <2>2. claim'[c].pc \in {"secret", "next"} \/ claim[c].pc = "drop"
    BY <1>2, <1>b DEF PatchLabel, PatchFails, DropExtra, ClaimRec
  <2> QED
    BY <1>c, <2>1, <2>2 DEF OwnsSession
<1>3. CASE ClaimFails(c) \/ AssignToken(c) \/ AssignFails(c) \/ KeptOldest(c)
  <2>1. UNCHANGED secrets
    BY <1>3 DEF ClaimFails, AssignToken, AssignFails, KeptOldest, clusterVars
  <2>2. claim'[c].pc = "failed" \/ claim[c].pc \in {"assign", "drop"}
    BY <1>3, <1>b DEF ClaimFails, AssignToken, AssignFails, KeptOldest, Goto, ClaimRec
  <2> QED
    BY <1>c, <2>1, <2>2 DEF OwnsSession
<1>4. CASE keepOldestAssigned(c)
  BY <1>4, <1>c DEF keepOldestAssigned, OwnsSession, clusterVars
<1>5. CASE rollbackLabel(c)
  <2>1. UNCHANGED secrets /\ claim[c].pc \in {"rollback", "rollbackAll"}
    BY <1>5 DEF rollbackLabel
  <2>2. claim'[c].pc = IF claim[c].pc = "rollback" THEN "next" ELSE "unsecret"
    BY <1>5, <1>b DEF rollbackLabel, ClaimRec
  <2> QED
    BY <1>c, <2>1, <2>2 DEF OwnsSession
<1>6. CASE CreateAuthSecret(c)
  <2>1. CASE SessionOf[c] \notin secrets /\ secrets' = secrets \cup {SessionOf[c]}
    <3>1. \A d \in Claims \ {c} : claim'[d].pc \in OwnsSession =>
             SessionOf[d] \in secrets /\ SessionOf[d] # SessionOf[c]
      BY <1>a, <2>1 DEF OwnerHasSecret
    <3> QED
      BY <1>a, <2>1, <3>1 DEF OwnerHasSecret, SessionHasOneClaimant
  <2>2. CASE ~(SessionOf[c] \notin secrets /\ secrets' = secrets \cup {SessionOf[c]})
    <3>1. secrets \subseteq secrets' /\ claim'[c].pc = "rollback"
      BY <1>6, <1>b, <2>2 DEF CreateAuthSecret, Goto, ClaimRec
    <3> QED
      BY <1>c, <3>1 DEF OwnsSession
  <2> QED
    BY <2>1, <2>2
<1>7. CASE bestEffortDeleteSecret(c)
  <2>1. claim[c].pc = "unsecret" /\ claim'[c].pc = "next" /\ secrets \ {SessionOf[c]} \subseteq secrets'
    BY <1>7, <1>b DEF bestEffortDeleteSecret, Goto, ClaimRec
  <2>2. \A d \in Claims : claim'[d].pc \in OwnsSession =>
           d # c /\ claim'[d] = claim[d] /\ SessionOf[d] # SessionOf[c]
    BY <1>a, <2>1 DEF OwnsSession, SessionHasOneClaimant
  <2> QED
    BY <2>1, <2>2 DEF OwnerHasSecret, SessionHasOneClaimant
<1> QED
  BY <1>1, <1>2, <1>3, <1>4, <1>5, <1>6, <1>7 DEF ClaimStep

-----------------------------------------------------------------------------
(* The invariant.                                                          *)

\* Somebody else's step as the operator sees it: reconcilePool stays where it
\* is.
LEMMA ObservedOperator ==
    ASSUME ClusterTypeOK, OperatorTypeOK, CacheIsPast, TargetWasUnassigned, Advances, Observed
    PROVE  OperatorTypeOK' /\ CacheIsPast' /\ TargetWasUnassigned'
<1>1. CacheIsPast' /\ watch' \in Seq([Pods -> PodRec])
  BY CacheAfterWrite DEF Observed
<1>2. PICK R \in SUBSET Pods : op' = [op EXCEPT !.returned = R]
  <2>1. op.returned \in SUBSET Pods
    BY DEF OperatorTypeOK, OpRec
  <2>2. (op.returned \cup {p \in Pods : Assigned(pods[p]) /\ Unassigned(pods'[p])}) \in SUBSET Pods
    BY <2>1
  <2> QED
    BY <2>2 DEF Observed, Returned
<1>3. op' \in OpRec /\ op'.pc = op.pc /\ op'.target = op.target /\ op'.fresh = op.fresh
  BY <1>2 DEF OperatorTypeOK, OpRec
<1>4. TargetWasUnassigned'
  BY <1>3, TargetAfterWrite
<1> QED
  BY <1>1, <1>3, <1>4 DEF OperatorTypeOK, Observed

\* The initial state satisfies the invariant.
LEMMA InitInv == Init => IInv
<1> SUFFICES ASSUME Init PROVE IInv
  OBVIOUS
<1>1. NeverCreated \in PodRec /\ NeverCreated.label = NoSession /\ NeverCreated.rv = 0
  BY DEF NeverCreated, PodRec, PodState, Health
<1>2. ClusterTypeOK
  BY <1>1 DEF Init, ClusterInit, ClusterTypeOK
<1>3. ClaimTypeOK /\ \A c \in Claims : claim[c].pc \in {"start", "absent"} /\ \A p \in Pods : claim[c].seen[p] = 0
  BY DEF Init, ClaimsMade, NewClaim, ClaimTypeOK, ClaimRec, ClaimPc, NoCandidates
<1>4. OperatorTypeOK /\ watch = <<>> /\ op.pc = "idle"
  <2>1. spec \in [size: Sizes, hash: Hashes, edits: 0..MaxEdits]
    BY OperatorAssumption DEF Init, OperatorInit
  <2>2. op = Idle /\ watch = <<>> /\ cache \in [Pods -> PodRec]
    BY <1>1 DEF Init, OperatorInit
  <2> QED
    BY <2>1, <2>2, IdleType DEF OperatorTypeOK, Idle
<1>5. HeldPods /\ TargetWasUnassigned
  BY <1>3, <1>4 DEF HeldPods, Holding, TargetWasUnassigned
<1>6. CacheIsPast
  <2>1. \A p \in Pods : cache[p] = pods[p] /\ pods[p].rv = 0
    BY <1>1 DEF Init, ClusterInit, OperatorInit
  <2>2. IsPast(cache, pods)
    BY <2>1 DEF IsPast
  <2> QED
    BY <1>4, <2>2 DEF CacheIsPast
<1>7. NewPodsUnlabelled /\ CandidatesWereUnassigned
  BY <1>1, <1>3 DEF Init, ClusterInit, NewPodsUnlabelled, CandidatesWereUnassigned
<1>8. TryingIsCreated /\ TryingIsLabelled /\ TryingIsAlone
  BY <1>3 DEF TryingIsCreated, TryingIsLabelled, TryingIsAlone, Trying
<1>9. OwnerHasSecret /\ SessionHasOneClaimant
  BY <1>3 DEF OwnerHasSecret, SessionHasOneClaimant, OwnsSession
<1> QED
  BY <1>2, <1>3, <1>4, <1>5, <1>6, <1>7, <1>8, <1>9 DEF IInv, TypeOK

\* Every step preserves the invariant, and changes only labels that are the
\* actor's to change.
LEMMA NextInv == IInv /\ [Next]_vars => IInv' /\ (LabelChangeIsOwn \/ UNCHANGED vars)
<1> SUFFICES ASSUME IInv, [Next]_vars
             PROVE  IInv' /\ (LabelChangeIsOwn \/ UNCHANGED vars)
  OBVIOUS
<1>0. /\ ClusterTypeOK /\ ClaimTypeOK /\ OperatorTypeOK /\ HeldPods
      /\ CacheIsPast /\ TargetWasUnassigned /\ LabelInv
      /\ OwnerHasSecret /\ SessionHasOneClaimant
  BY DEF IInv, TypeOK, LabelInv
<1> DEFINE Goal ==
      /\ ClusterTypeOK' /\ ClaimTypeOK' /\ OperatorTypeOK' /\ HeldPods'
      /\ CacheIsPast' /\ TargetWasUnassigned' /\ LabelInv'
      /\ OwnerHasSecret' /\ SessionHasOneClaimant'
      /\ LabelChangeIsOwn \/ UNCHANGED vars
<1> SUFFICES Goal
  BY DEF IInv, TypeOK, LabelInv
<1>1. CASE McpStep
  <2>1. PICK c \in Claims : ClaimStep(c) /\ Observed
    BY <1>1 DEF McpStep
  <2>2. Advances /\ ClusterTypeOK' /\ ClaimTypeOK' /\ HeldPods'
    BY <1>0, <2>1, ClaimStepType, MovesType
  <2>3. OperatorTypeOK' /\ CacheIsPast' /\ TargetWasUnassigned'
    BY <1>0, <2>1, <2>2, ObservedOperator
  <2>4. LabelInv' /\ LabelChangeIsOwn
    BY <1>0, <2>1, ClaimStepLabels
  <2>5. OwnerHasSecret' /\ SessionHasOneClaimant'
    BY <1>0, <2>1, ClaimStepSecrets
  <2> QED
    BY <2>2, <2>3, <2>4, <2>5
<1>2. CASE KubeletStep
  <2>1. PICK p \in Pods : \/ \E h \in Health : KubeletStatus(p, h)
                          \/ ContainerStart(p)
                          \/ KubeletRemove(p)
    BY <1>2 DEF KubeletStep
  <2>2. Advances /\ ClusterTypeOK' /\ UNCHANGED secrets
    BY <1>0, <2>1, KubeletAdvances
  <2>3. Observed /\ UNCHANGED claim
    BY <1>2 DEF KubeletStep
  <2>4. OperatorTypeOK' /\ CacheIsPast' /\ TargetWasUnassigned'
    BY <1>0, <2>2, <2>3, ObservedOperator
  <2>5. LabelInv' /\ LabelChangeIsOwn
    BY <1>0, <1>2, KubeletStepLabels
  <2>6. ClaimTypeOK' /\ HeldPods' /\ OwnerHasSecret' /\ SessionHasOneClaimant'
    BY <1>0, <2>2, <2>3 DEF ClaimTypeOK, HeldPods, OwnerHasSecret, SessionHasOneClaimant
  <2> QED
    BY <2>2, <2>4, <2>5, <2>6
<1>3. CASE OperatorStep /\ UNCHANGED claim
  <2>1. Advances /\ Publish /\ op' \in OpRec /\ UNCHANGED <<cache, spec, secrets, agents>>
    BY <1>0, <1>3, OperatorStepType
  <2>2. CacheIsPast' /\ watch' \in Seq([Pods -> PodRec])
    BY <1>0, <2>1, CacheAfterWrite
  <2>3. TargetWasUnassigned'
    BY <1>0, <1>3, TargetAfterOperatorStep
  <2>4. LabelInv' /\ LabelChangeIsOwn
    BY <1>0, <1>3, OperatorStepLabels
  <2>5. ClusterTypeOK' /\ OperatorTypeOK'
    BY <1>0, <2>1, <2>2 DEF ClusterTypeOK, OperatorTypeOK, Advances
  <2>6. ClaimTypeOK' /\ HeldPods' /\ OwnerHasSecret' /\ SessionHasOneClaimant'
    BY <1>0, <1>3, <2>1 DEF ClaimTypeOK, HeldPods, OwnerHasSecret, SessionHasOneClaimant
  <2> QED
    BY <2>2, <2>3, <2>4, <2>5, <2>6
<1>4. CASE Deliver /\ UNCHANGED claim
  <2>1. CacheIsPast' /\ OperatorTypeOK'
    BY <1>0, <1>4, CacheAfterDeliver
  <2>2. UNCHANGED <<pods, secrets, agents, spec, op, claim>>
    BY <1>4 DEF Deliver
  <2>3. ClusterTypeOK' /\ ClaimTypeOK' /\ HeldPods' /\ TargetWasUnassigned'
    BY <1>0, <2>2 DEF ClusterTypeOK, ClaimTypeOK, HeldPods, TargetWasUnassigned
  <2>4. LabelInv' /\ LabelChangeIsOwn
    BY <1>0, <2>2 DEF LabelInv, NewPodsUnlabelled, CandidatesWereUnassigned, TryingIsCreated,
                      TryingIsLabelled, TryingIsAlone, LabelChangeIsOwn
  <2>5. OwnerHasSecret' /\ SessionHasOneClaimant'
    BY <1>0, <2>2 DEF OwnerHasSecret, SessionHasOneClaimant
  <2> QED
    BY <2>1, <2>3, <2>4, <2>5
<1>5. CASE AdminStep \/ UNCHANGED vars
  <2>1. UNCHANGED <<pods, secrets, agents, cache, watch, op, claim>>
    BY <1>5 DEF AdminStep, EditSpec, vars, clusterVars, operatorVars
  <2>2. spec' \in [size: Sizes, hash: Hashes, edits: 0..MaxEdits]
    <3>1. CASE AdminStep
      <4>1. PICK size \in Sizes, hash \in Hashes : EditSpec(size, hash)
        BY <3>1 DEF AdminStep
      <4>2. spec.edits \in 0..MaxEdits /\ spec.edits < MaxEdits
        BY <1>0, <4>1 DEF EditSpec, OperatorTypeOK
      <4>3. spec.edits + 1 \in 0..MaxEdits
        BY <4>2, OperatorAssumption
      <4> QED
        BY <4>1, <4>3 DEF EditSpec
    <3>2. CASE UNCHANGED vars
      BY <1>0, <3>2 DEF vars, operatorVars, OperatorTypeOK
    <3> QED
      BY <1>5, <3>1, <3>2
  <2>3. ClusterTypeOK' /\ ClaimTypeOK' /\ OperatorTypeOK' /\ HeldPods' /\ TargetWasUnassigned'
    BY <1>0, <2>1, <2>2 DEF ClusterTypeOK, ClaimTypeOK, OperatorTypeOK, HeldPods, TargetWasUnassigned
  <2>4. LabelInv' /\ LabelChangeIsOwn
    BY <1>0, <2>1 DEF LabelInv, NewPodsUnlabelled, CandidatesWereUnassigned, TryingIsCreated,
                      TryingIsLabelled, TryingIsAlone, LabelChangeIsOwn
  <2>5. OwnerHasSecret' /\ SessionHasOneClaimant' /\ CacheIsPast'
    BY <1>0, <2>1 DEF OwnerHasSecret, SessionHasOneClaimant, CacheIsPast
  <2> QED
    BY <2>3, <2>4, <2>5
<1> QED
  BY <1>1, <1>2, <1>3, <1>4, <1>5 DEF Next

\* The invariant holds throughout.
LEMMA InvHolds == Spec => []IInv
<1>1. Init => IInv
  BY InitInv
<1>2. IInv /\ [Next]_vars => IInv'
  BY NextInv
<1> QED
  BY <1>1, <1>2, PTL DEF Spec

-----------------------------------------------------------------------------
(* The theorems.                                                           *)

\* Type correctness of the whole warm pool: the API server's objects, the
\* locals of every ClaimPod call, the informer cache and reconcilePool's locals.
THEOREM TypeCorrect == Spec => []TypeOK
<1>1. IInv => TypeOK
  BY DEF IInv
<1> QED
  BY <1>1, InvHolds, PTL

\* At most one ClaimPod call per session gets past the session's auth Secret,
\* whatever requests fail and whoever else claims.
THEOREM OneClaimant == Spec => []SessionHasOneClaimant
<1>1. IInv => SessionHasOneClaimant
  BY DEF IInv
<1> QED
  BY <1>1, InvHolds, PTL

\* tryClaimPod and rollbackLabel never overwrite or remove a label that is not
\* their own, and nobody else changes labels.
THEOREM LabelsAreOwned == Spec => LabelOnlyClearedByItsClaim
<1>1. IInv /\ [Next]_vars => [LabelChangeIsOwn]_vars
  BY NextInv
<1> QED
  BY <1>1, InvHolds, PTL DEF Spec, LabelOnlyClearedByItsClaim

\* reconcilePool never deletes a pod that carries a session id, however far its
\* cache lags behind: the resourceVersion precondition ties the delete to a
\* version of the pod that was unassigned.
THEOREM PoolDeleteSafe == Spec => PoolDeleteSparesSessions
<1> DEFINE Spares == op.pc = "delete" /\ op'.pc # "delete" =>
             \A p \in Pods : pods[p].state = "live" /\ pods'[p].state = "terminating"
                               => pods[p].label = NoSession
<1>1. IInv /\ [Next]_vars => [Spares]_vars
  <2> SUFFICES ASSUME IInv, Next, op.pc = "delete", op'.pc # "delete"
               PROVE  \A p \in Pods : pods[p].state = "live" /\ pods'[p].state = "terminating"
                                          => pods[p].label = NoSession
    OBVIOUS
  <2>0. op \in OpRec /\ TargetWasUnassigned /\ ClusterTypeOK
    BY DEF IInv, TypeOK, OperatorTypeOK
  <2>1. OperatorStep
    <3>1. Observed => op'.pc = op.pc
      BY <2>0 DEF Observed, Returned, OpRec
    <3>2. Deliver \/ AdminStep => op' = op
      BY DEF Deliver, AdminStep, EditSpec
    <3> QED
      BY <3>1, <3>2 DEF Next, McpStep, KubeletStep
  <2>2. DeleteUnassigned \/ DeleteError
    BY <2>1 DEF OperatorStep, StartPass, StartZeroPass, ReGet, createPoolPod, OccupiesSlot,
                ChooseSurplus, ChooseDeficit, CreateError, EndPass
  <2>3. UNCHANGED pods \/ (PreconditionsHold /\ DeletePod(op.target))
    BY <2>2 DEF DeleteUnassigned, DeleteError
  <2>4. op.target \in Pods
    BY <2>0 DEF TargetWasUnassigned
  <2>5. ASSUME PreconditionsHold, DeletePod(op.target)
        PROVE  /\ pods[op.target].label = NoSession
               /\ \A q \in Pods \ {op.target} : pods'[q] = pods[q]
    BY <2>0, <2>4, <2>5, DeletePodAdvances DEF PreconditionsHold, TargetWasUnassigned
  <2> QED
    BY <2>3, <2>5
<1> QED
  BY <1>1, InvHolds, PTL DEF Spec, PoolDeleteSparesSessions

=============================================================================
