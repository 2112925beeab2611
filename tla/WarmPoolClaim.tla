---------------------------- MODULE WarmPoolClaim ----------------------------
(***************************************************************************)
(* The MCP server's side of the warm pool, pkg/session/pool.go: ClaimPod,  *)
(* run by any number of concurrent claims on any number of replicas.  A    *)
(* replica reads the API server directly, so a list is exact when it is    *)
(* taken and stale from then on.                                           *)
(***************************************************************************)
EXTENDS SandboxCluster

CONSTANTS
    Claims,      \* calls of ClaimPod
    SessionOf,   \* the session each call claims for
    Faulty       \* the calls whose requests may fail, before or after taking effect

ASSUME ClaimAssumption ==
    /\ SessionOf \in [Claims -> Sessions]
    /\ Faulty \subseteq Claims

VARIABLE claim   \* per call: its place in ClaimPod and its locals

ClaimPc == {"start", "next", "secret", "assign", "rollback", "rollbackAll",
            "unsecret", "dedupe", "drop", "done", "failed", "absent"}

\* seen: resourceVersion of each candidate still to try (0: not a candidate)
\* pod: the pod being claimed, then the pod returned
\* extras: pods keepOldestAssigned still has to delete
ClaimRec == [pc: ClaimPc, seen: [Pods -> Nat], pod: Pods \cup {NoPod},
             extras: SUBSET Pods]

NoCandidates == [p \in Pods |-> 0]

ClaimTypeOK == claim \in [Claims -> ClaimRec]

NewClaim == [pc |-> "start", seen |-> NoCandidates, pod |-> NoPod, extras |-> {}]

\* The calls that are made; the others never are.
ClaimsMade(calls) ==
    claim = [c \in Claims |-> IF c \in calls THEN NewClaim
                              ELSE [NewClaim EXCEPT !.pc = "absent"]]

ClaimInit == ClaimsMade(Claims)

Goto(c, pc) == claim' = [claim EXCEPT ![c].pc = pc]

Candidates(c) == {p \in Pods : claim[c].seen[p] # 0}

-----------------------------------------------------------------------------

IsClaimableUnassigned(r) ==
    ~Terminating(r) /\ ~isTerminalPod(r) /\ ~HasUnhealthyWaiting(r)

\* ClaimPod lists the unassigned pods; the loop then skips those that were not
\* claimable when listed.
listUnassignedPods(c) ==
    /\ claim[c].pc = "start"
    /\ claim' = [claim EXCEPT ![c].pc = "next",
                              ![c].seen = [p \in Pods |->
                                 IF Unassigned(pods[p]) /\ IsClaimableUnassigned(pods[p])
                                 THEN pods[p].rv ELSE 0]]
    /\ UNCHANGED clusterVars

NextCandidate(c, p) == p \in Oldest(Candidates(c))

\* Variant: a label patch without the resourceVersion.
PatchAppliesUnlocked(c, p) == InApi(pods[p])

\* A merge patch that carries a resourceVersion is applied to that version only.
PatchApplies(c, p) == InApi(pods[p]) /\ pods[p].rv = claim[c].seen[p]

\* tryClaimPod's label patch was applied and answered.
PatchLabel(c, p) ==
    /\ claim[c].pc = "next"
    /\ NextCandidate(c, p)
    /\ PatchApplies(c, p)
    /\ SetLabel(p, SessionOf[c])
    /\ claim' = [claim EXCEPT ![c].pc = "secret", ![c].pod = p, ![c].seen[p] = 0]
    /\ UNCHANGED <<secrets, agents>>

\* Variant: a conflict is retried on the same pod.
PatchFailsRetrying(c, p) ==
    /\ claim[c].pc = "next"
    /\ NextCandidate(c, p)
    /\ ~PatchApplies(c, p) \/ c \in Faulty
    /\ UNCHANGED <<clusterVars, claim>>

\* Variant: a failed patch is rolled back too.
PatchFailsUndoing(c, p) ==
    /\ claim[c].pc = "next"
    /\ NextCandidate(c, p)
    /\ ~PatchApplies(c, p) /\ SetLabel(p, NoSession)
    /\ claim' = [claim EXCEPT ![c].seen[p] = 0]
    /\ UNCHANGED <<secrets, agents>>

\* The patch failed (Conflict, NotFound, or an error): ClaimPod goes on with
\* the next candidate and undoes nothing, even when the patch was applied and
\* only its answer was lost.
PatchFails(c, p) ==
    /\ claim[c].pc = "next"
    /\ NextCandidate(c, p)
    /\ \/ ~PatchApplies(c, p) /\ UNCHANGED pods
       \/ c \in Faulty /\ UNCHANGED pods
       \/ c \in Faulty /\ PatchApplies(c, p) /\ SetLabel(p, SessionOf[c])
    /\ claim' = [claim EXCEPT ![c].seen[p] = 0]
    /\ UNCHANGED <<secrets, agents>>

\* The loop is over without a claim.
ClaimFails(c) ==
    /\ claim[c].pc = "next"
    /\ Candidates(c) = {}
    /\ Goto(c, "failed")
    /\ UNCHANGED clusterVars

-----------------------------------------------------------------------------

\* Variant: AlreadyExists is fine, as it is in createSandboxPod.
CreateAuthSecretShared(c) ==
    /\ claim[c].pc = "secret"
    /\ secrets' = secrets \cup {SessionOf[c]}
    /\ Goto(c, "assign")
    /\ UNCHANGED <<pods, agents>>

\* AlreadyExists is a failure like any other here: whoever creates the Secret
\* first has the session.
CreateAuthSecret(c) ==
    /\ claim[c].pc = "secret"
    /\ \/ /\ SessionOf[c] \notin secrets
          /\ secrets' = secrets \cup {SessionOf[c]}
          /\ Goto(c, "assign")
       \/ /\ SessionOf[c] \in secrets \/ c \in Faulty
          /\ UNCHANGED secrets
          /\ Goto(c, "rollback")
       \/ /\ c \in Faulty
          /\ secrets' = secrets \cup {SessionOf[c]}
          /\ Goto(c, "rollback")
    /\ UNCHANGED <<pods, agents>>

\* waitForIP and POST /assign answered 200.  The agent takes a token once.
AssignToken(c) ==
    LET p == claim[c].pod IN
    /\ claim[c].pc = "assign"
    /\ AgentReachable(p)
    /\ agents[p] = NoSession
    /\ agents' = [agents EXCEPT ![p] = SessionOf[c]]
    /\ claim' = [claim EXCEPT ![c].pc = "dedupe", ![c].seen = NoCandidates]
    /\ UNCHANGED <<pods, secrets>>

\* waitForIP failed, or POST /assign was refused (409), did not arrive, or took
\* effect and its answer was lost.
AssignFails(c) ==
    LET p == claim[c].pod IN
    /\ claim[c].pc = "assign"
    /\ \/ /\ ~AgentReachable(p) \/ agents[p] # NoSession \/ c \in Faulty
          /\ UNCHANGED agents
       \/ /\ c \in Faulty /\ AgentReachable(p) /\ agents[p] = NoSession
          /\ agents' = [agents EXCEPT ![p] = SessionOf[c]]
    /\ Goto(c, "rollbackAll")
    /\ UNCHANGED <<pods, secrets>>

\* An unconditional patch that removes the label, best effort.
rollbackLabel(c) ==
    /\ claim[c].pc \in {"rollback", "rollbackAll"}
    /\ \/ SetLabel(claim[c].pod, NoSession)
       \/ c \in Faulty /\ UNCHANGED pods
    /\ claim' = [claim EXCEPT ![c].pc = IF @ = "rollback" THEN "next" ELSE "unsecret",
                              ![c].pod = NoPod]
    /\ UNCHANGED <<secrets, agents>>

bestEffortDeleteSecret(c) ==
    /\ claim[c].pc = "unsecret"
    /\ \/ secrets' = secrets \ {SessionOf[c]}
       \/ c \in Faulty /\ UNCHANGED secrets
    /\ Goto(c, "next")
    /\ UNCHANGED <<pods, agents>>

-----------------------------------------------------------------------------

\* The session's pods that keepOldestAssigned compares.
AssignedLive(s) ==
    {p \in Pods : /\ Assigned(pods[p]) /\ pods[p].label = s
                  /\ ~Terminating(pods[p]) /\ ~isTerminalPod(pods[p])}

\* The head of a list sorted by comparePodAge: the name breaks a tie.
OldestByName(p, S) == p \in Oldest(S) /\ \A q \in Oldest(S) : p <= q

\* List the session's pods and keep the oldest; the others will be deleted.
\* The claimed pod is returned when it is the only one, or the list failed.
keepOldestAssigned(c) ==
    LET live == AssignedLive(SessionOf[c]) IN
    /\ claim[c].pc = "dedupe"
    /\ \/ /\ Cardinality(live) <= 1 \/ c \in Faulty
          /\ Goto(c, "done")
       \/ /\ Cardinality(live) > 1
          /\ \E keep \in live :
                /\ OldestByName(keep, live)
                /\ claim' = [claim EXCEPT ![c].pc = "drop", ![c].pod = keep,
                                          ![c].extras = live \ {keep}]
    /\ UNCHANGED clusterVars

\* bestEffortDeletePod of each extra.  The delete carries no precondition.
DropExtra(c, p) ==
    /\ claim[c].pc = "drop"
    /\ p \in claim[c].extras
    /\ \/ DeleteNamed(p)
       \/ c \in Faulty /\ UNCHANGED pods
    /\ claim' = [claim EXCEPT ![c].extras = @ \ {p}]
    /\ UNCHANGED <<secrets, agents>>

KeptOldest(c) ==
    /\ claim[c].pc = "drop"
    /\ claim[c].extras = {}
    /\ Goto(c, "done")
    /\ UNCHANGED clusterVars

ClaimStep(c) ==
    \/ listUnassignedPods(c)
    \/ \E p \in Pods : PatchLabel(c, p) \/ PatchFails(c, p) \/ DropExtra(c, p)
    \/ ClaimFails(c)
    \/ CreateAuthSecret(c)
    \/ AssignToken(c)
    \/ AssignFails(c)
    \/ rollbackLabel(c)
    \/ bestEffortDeleteSecret(c)
    \/ keepOldestAssigned(c)
    \/ KeptOldest(c)

-----------------------------------------------------------------------------
(* What concurrent claims promise each other.                              *)

Holding == {"secret", "assign", "rollback", "rollbackAll", "dedupe", "done"}

\* No two calls are made for one session: a client that waits for each answer sees
\* to it, nothing in ClaimPod does.
OneCallPerSession ==
    \A c, d \in Claims :
       /\ claim[c].pc # "absent" /\ claim[d].pc # "absent"
       /\ SessionOf[c] = SessionOf[d]
       => c = d

\* A pod is held by the claims of one session at a time: the first label patch
\* wins, and a loser never acts on the pod.  (With two calls for one session
\* keepOldestAssigned may return a pod that goes back to the pool afterwards: see
\* ReturnedPodIsClaimed of ClaimRace.)
ClaimIsExclusive ==
    OneCallPerSession =>
    \A c, d \in Claims :
       /\ claim[c].pc \in Holding /\ claim[d].pc \in Holding
       /\ claim[c].pod = claim[d].pod
       => SessionOf[c] = SessionOf[d]

\* Between creating the session's Secret and giving it back
OwnsSession == {"assign", "rollbackAll", "unsecret", "dedupe", "drop", "done"}

\* Of all ClaimPod calls for a session, on all replicas, at most one gets past
\* the Secret: a second one finds it and gives its pod back (tryClaimPod treats
\* AlreadyExists as a failure), and of the claims only the one that created it
\* deletes it.  CleanupSession, idle collection and createSandboxPod delete it by
\* name, too; they are in SessionManager.
SessionHasOneClaimant ==
    \A c, d \in Claims :
       /\ claim[c].pc \in OwnsSession /\ claim[d].pc \in OwnsSession
       /\ SessionOf[c] = SessionOf[d]
       => c = d

\* A step that writes a label puts it on a pod that has none; a step that takes
\* one off is the rollback of a claim, of the session the label names, on the
\* pod that claim holds.
LabelChangeIsOwn ==
    \A p \in Pods :
       InApi(pods'[p]) /\ pods'[p].label # pods[p].label =>
         \/ pods[p].label = NoSession
         \/ /\ pods'[p].label = NoSession
            /\ \E c \in Claims : /\ claim[c].pc \in {"rollback", "rollbackAll"}
                                 /\ claim[c].pod = p
                                 /\ SessionOf[c] = pods[p].label

=============================================================================
