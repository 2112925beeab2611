--------------------------- MODULE SandboxCluster ---------------------------
(***************************************************************************)
(* The objects the operator and the MCP server replicas share: sandbox     *)
(* pods and session auth Secrets in the Kubernetes API server, and the     *)
(* agent process inside each pod.  The API server and the kubelet are      *)
(* external; they are modelled from the calls src/ makes and the status    *)
(* fields it reads.                                                        *)
(***************************************************************************)
EXTENDS Naturals, FiniteSets

CONSTANTS
    Pods,         \* pod identities (UIDs), in name order; one is never used twice
    EnvToken,     \* the session whose token a pod's containers are started with
    Sessions,     \* session ids
    NoPod,        \* "no pod"
    NoSession,    \* "no session-id label", "agent holds no token"
    MaxVersion    \* bound: the kubelet writes a pod's status below this version

ASSUME ClusterAssumption ==
    /\ Pods \subseteq Nat /\ IsFiniteSet(Pods)
    /\ NoPod \notin Pods
    /\ NoSession \notin Sessions
    /\ EnvToken \in [Pods -> Sessions \cup {NoSession}]
    /\ MaxVersion \in Nat

VARIABLES
    pods,      \* API server: pod objects
    secrets,   \* API server: sessions whose auth Secret exists
    agents     \* per pod, the session whose token its agent holds

clusterVars == <<pods, secrets, agents>>

-----------------------------------------------------------------------------

\* "none": not created yet.  "gone": removed from the API server.
PodState == {"none", "live", "terminating", "gone"}

\* What src/ reads of a pod's status: "starting" has no IP yet, "running" has
\* an IP but is not Ready, "backoff" is a container waiting in
\* ImagePullBackOff, CrashLoopBackOff or ErrImagePull, "failed" is the phase
\* Failed.  Succeeded, which isTerminalPod also counts as terminal and
\* poolPodUnhealthy does not, is no phase of a pod whose containers are always
\* restarted, the default that BuildBasePodSpec leaves in place.
Health == {"starting", "running", "ready", "backoff", "failed"}

PodRec == [state: PodState, label: Sessions \cup {NoSession}, rv: Nat,
           health: Health, born: Nat, hash: Nat]

NeverCreated == [state |-> "none", label |-> NoSession, rv |-> 0,
                 health |-> "starting", born |-> 0, hash |-> 0]

ClusterTypeOK ==
    /\ pods \in [Pods -> PodRec]
    /\ secrets \in SUBSET Sessions
    /\ agents \in [Pods -> Sessions \cup {NoSession}]

ClusterInit ==
    /\ pods = [p \in Pods |-> NeverCreated]
    /\ secrets = {}
    /\ agents = [p \in Pods |-> NoSession]

-----------------------------------------------------------------------------
(* Reading a pod object r, as listed or fetched.                           *)

InApi(r) == r.state \in {"live", "terminating"}

\* isAssignedSandbox, isUnassignedSandbox and the two label selectors
Assigned(r) == InApi(r) /\ r.label # NoSession
Unassigned(r) == InApi(r) /\ r.label = NoSession

\* DeletionTimestamp set
Terminating(r) == r.state = "terminating"

isTerminalPod(r) == r.health = "failed"

HasUnhealthyWaiting(r) == r.health = "backoff"

isPodReady(r) == r.health = "ready"

\* The elements of S created no later than any other.  Pods created in the
\* same second compare equal, so there may be several.
Oldest(S) == {p \in S : \A q \in S : pods[p].born <= pods[q].born}

-----------------------------------------------------------------------------
(* API server writes.  Every one gives the object a new resourceVersion.   *)

Write(p, r) == pods' = [pods EXCEPT ![p] = [r EXCEPT !.rv = pods[p].rv + 1]]

SetLabel(p, s) ==
    IF InApi(pods[p])
    THEN Write(p, [pods[p] EXCEPT !.label = s])
    ELSE UNCHANGED pods

\* A delete is graceful: it stamps the DeletionTimestamp and leaves the object
\* until its containers have stopped.
DeletePod(p) ==
    IF pods[p].state = "live"
    THEN Write(p, [pods[p] EXCEPT !.state = "terminating"])
    ELSE UNCHANGED pods

\* The on-demand pods of a session all have the name derived from its id; other
\* pods have names of their own.
SameName(p, q) == p = q \/ (EnvToken[p] # NoSession /\ EnvToken[p] = EnvToken[q])

\* The pod that has p's name now, if there is one
Named(p) == {q \in Pods : SameName(p, q) /\ InApi(pods[q])}

\* A delete by name, without preconditions
DeleteNamed(p) ==
    \/ Named(p) = {} /\ UNCHANGED pods
    \/ \E q \in Named(p) : DeletePod(q)

-----------------------------------------------------------------------------
(* The kubelet.                                                            *)

KubeletStatus(p, h) ==
    /\ InApi(pods[p])
    /\ pods[p].rv < MaxVersion
    /\ <<pods[p].health, h>> \in
          {<<"starting", "backoff">>, <<"running", "ready">>, <<"ready", "running">>,
           <<"ready", "backoff">>, <<"running", "failed">>, <<"ready", "failed">>}
    /\ Write(p, [pods[p] EXCEPT !.health = h])
    /\ UNCHANGED <<secrets, agents>>

\* A container starts or restarts: a new agent process, which holds the token
\* of its environment or none.  A container whose environment names a Secret
\* does not start without it.
ContainerStart(p) ==
    /\ InApi(pods[p])
    /\ pods[p].rv < MaxVersion
    /\ pods[p].health # "failed"
    /\ EnvToken[p] \in secrets \cup {NoSession}
    /\ Write(p, [pods[p] EXCEPT !.health = "running"])
    /\ agents' = [agents EXCEPT ![p] = EnvToken[p]]
    /\ UNCHANGED secrets

KubeletRemove(p) ==
    /\ pods[p].state = "terminating"
    /\ Write(p, [NeverCreated EXCEPT !.state = "gone", !.born = pods[p].born])
    /\ agents' = [agents EXCEPT ![p] = NoSession]
    /\ UNCHANGED secrets

\* An HTTP request to the pod's IP reaches its agent.
AgentReachable(p) == InApi(pods[p]) /\ pods[p].health \in {"running", "ready"}

=============================================================================
