--------------------------- MODULE SessionManager ---------------------------
(***************************************************************************)
(* One tool call after another on the MCP server replicas:                 *)
(* pkg/session/manager.go.  A call resolves its session's pod (cache,      *)
(* discovery, proxy gate, warm pool, on-demand pod), runs the command on   *)
(* the pod's agent, and recovers once when the agent is unassigned or      *)
(* unreachable.                                                            *)
(* Pods with an EnvToken are the on-demand pods; the warm pool is not      *)
(* being refilled.                                                         *)
(***************************************************************************)
EXTENDS WarmPoolClaim, ProxyGate

CONSTANTS
    ReplicaOf,    \* the replica that serves each call
    Serial,       \* TRUE: a client sends a call when the one before has returned
    Workloads     \* what may be asked of the system

\* calls: the calls that are made;  pods: the pods there is room for;  ends:
\* whether a session is ended, by DELETE or by the idle GC (once);  gated: whether
\* there is a proxy gate.
ASSUME ManagerAssumption ==
    /\ ReplicaOf \in [Claims -> Replicas]
    /\ Serial \in BOOLEAN
    /\ Workloads \subseteq [calls: SUBSET Claims, pods: SUBSET Pods, ends: BOOLEAN,
                        gated: BOOLEAN]

VARIABLES
    call,       \* ExecuteCommand: its place and its locals
    podCache,   \* PodCache of each replica: session -> pod (its name and IP)
    cleanup,    \* CleanupSession: its place and the pods it has still to delete
    ran,        \* history variable: how often a call's command was run
    answered,   \* history variable: pods that calls of a session had answers from
    restarted   \* history variable: of these, the pods whose shell is a new one

historyVars == <<ran, answered, restarted>>
managerVars == <<call, podCache, cleanup, historyVars>>
vars == <<clusterVars, claim, managerVars, gateVars>>

CallPc == {"never", "idle", "lookup", "discover", "found", "gate", "join", "gateWait",
           "claim", "waitClaim", "sibling",
           "cleanup", "unsecret", "secret", "create", "waitCreate", "capture",
           "exec", "assign", "recover", "recoverWait", "reassign", "rexec",
           "done", "error"}

\* stage: which discoverPod of GetOrCreatePod;  pod: podIP, or the pod waited
\* for;  name: podName as captured before Execute;  replaced: podForRecovery
\* went back to GetOrCreatePod;  reset: the answer carries sessionResetNotice
CallRec == [pc: CallPc, stage: {"first", "afterClaim", "afterConflict"},
            pod: Pods \cup {NoPod}, name: Pods \cup {NoPod},
            replaced: BOOLEAN, reset: BOOLEAN]

NewCall == [pc |-> "idle", stage |-> "first", pod |-> NoPod, name |-> NoPod,
            replaced |-> FALSE, reset |-> FALSE]

TypeOK ==
    /\ ClusterTypeOK
    /\ ClaimTypeOK
    /\ call \in [Claims -> CallRec]
    /\ podCache \in [Replicas -> [Sessions -> Pods \cup {NoPod}]]
    /\ cleanup \in [pc: {"idle", "list", "pods", "secret", "over"},
                    session: Sessions \cup {NoSession}, todo: SUBSET Pods]
    /\ ran \in [Claims -> Nat]
    /\ answered \in [Sessions -> SUBSET Pods]
    /\ restarted \in SUBSET Pods
    /\ GateTypeOK

\* A pool of Ready and starting pods; no session yet.
PoolPod(h) == [NeverCreated EXCEPT !.state = "live", !.rv = 1, !.health = h]

NoRoom == [NeverCreated EXCEPT !.state = "gone"]

Init ==
    /\ \E w \in Workloads, health \in [Pods -> {"starting", "ready"}] :
          /\ pods = [p \in Pods |-> IF p \notin w.pods THEN NoRoom
                                    ELSE IF EnvToken[p] = NoSession THEN PoolPod(health[p])
                                    ELSE NeverCreated]
          /\ call = [c \in Claims |->
                       [NewCall EXCEPT !.pc = IF c \in w.calls THEN "idle" ELSE "never"]]
          /\ cleanup = [pc |-> IF w.ends THEN "idle" ELSE "over", session |-> NoSession,
                        todo |-> {}]
          /\ GateInit(w.gated)
    /\ secrets = {}
    /\ agents = [p \in Pods |-> NoSession]
    /\ ClaimInit
    /\ podCache = [r \in Replicas |-> [s \in Sessions |-> NoPod]]
    /\ ran = [c \in Claims |-> 0]
    /\ answered = [s \in Sessions |-> {}]
    /\ restarted = {}

-----------------------------------------------------------------------------

At(c, pc) == call[c].pc = pc

Step(c, pc) == call' = [call EXCEPT ![c].pc = pc]

StepPod(c, pc, p) == call' = [call EXCEPT ![c].pc = pc, ![c].pod = p]

\* discoverPod is called for the first time, or again.
StepDiscover(c, stage) == call' = [call EXCEPT ![c].pc = "discover", ![c].stage = stage]

Cached(c) == podCache[ReplicaOf[c]][SessionOf[c]]

CacheSet(c, p) == podCache' = [podCache EXCEPT ![ReplicaOf[c]][SessionOf[c]] = p]

\* PodCache.Invalidate: only the entry that still has this pod's IP goes.
Invalidate(c, p) == IF Cached(c) = p THEN CacheSet(c, NoPod) ELSE UNCHANGED podCache

\* GetOrCreatePod returns p, to ExecuteCommand or to podForRecovery.
Resolved(c, p) == StepPod(c, IF call[c].replaced THEN "reassign" ELSE "capture", p)

ResolvedAndCached(c, p) == Resolved(c, p) /\ CacheSet(c, p)

\* The pod of p's name is Ready: waitForReady returns its IP.
ReadyNow(p) == {q \in Named(p) : isPodReady(pods[q])}

\* waitForReady gives up: the pod is gone, is not Ready until the deadline, or
\* the read fails.
WaitFails(c, p) == ReadyNow(p) = {} \/ c \in Faulty

Sessionless == UNCHANGED <<claim, cleanup, historyVars>>

-----------------------------------------------------------------------------
(* GetOrCreatePod.                                                         *)

\* A client sends a tool call.
StartCall(c) ==
    /\ At(c, "idle")
    /\ Serial => \A d \in Claims : SessionOf[d] = SessionOf[c]
                                     => call[d].pc \in {"never", "idle", "done", "error"}
    /\ Step(c, "lookup")
    /\ UNCHANGED <<clusterVars, podCache>> /\ Sessionless

CacheGet(c) ==
    /\ At(c, "lookup")
    /\ IF Cached(c) # NoPod
       THEN Resolved(c, Cached(c))
       ELSE StepDiscover(c, "first")
    /\ UNCHANGED <<clusterVars, podCache>> /\ Sessionless

\* Variant: pods that are not Ready are left out.
ListedReady(s) == {p \in Pods : Assigned(pods[p]) /\ pods[p].label = s /\ isPodReady(pods[p])}

Listed(s) == {p \in Pods : Assigned(pods[p]) /\ pods[p].label = s /\ ~isTerminalPod(pods[p])}

StartClaim(c) == Step(c, "claim") /\ claim' = [claim EXCEPT ![c] = NewClaim]

\* What GetOrCreatePod does when discoverPod finds nothing.  Before the claim it
\* asks the proxy gate, if there is one.
NothingFound(c) ==
    \/ call[c].stage = "first" /\ proxy.on /\ Step(c, "gate") /\ UNCHANGED claim
    \/ call[c].stage = "first" /\ ~proxy.on /\ StartClaim(c)
    \/ call[c].stage = "afterClaim" /\ Step(c, "secret") /\ UNCHANGED claim
    \/ call[c].stage = "afterConflict" /\ Step(c, "error") /\ UNCHANGED claim

\* The oldest Ready pod; else some pod to wait for; a terminating pod counts.
discoverPod(c) ==
    LET listed == Listed(SessionOf[c])
        ready  == {p \in listed : isPodReady(pods[p])}
    IN
    /\ At(c, "discover")
    /\ \/ /\ \E p \in Oldest(ready) : ResolvedAndCached(c, p)
          /\ UNCHANGED claim
       \/ /\ ready = {}
          /\ \E p \in listed : StepPod(c, "found", p)
          /\ UNCHANGED <<claim, podCache>>
       \/ listed = {} /\ NothingFound(c) /\ UNCHANGED podCache
       \/ c \in Faulty /\ Step(c, "error") /\ UNCHANGED <<claim, podCache>>
    /\ UNCHANGED <<clusterVars, cleanup, historyVars>>

Managed == UNCHANGED <<clusterVars, podCache, cleanup, historyVars>>

\* ensureProxyReady: the verdict kept decides, if it is fresh; else the call waits
\* for the lookup, its own or one that is under way.
ensureProxyReady(c) ==
    LET r == ReplicaOf[c] IN
    /\ At(c, "gate")
    /\ \/ ~cachedProxyGate(r) /\ Step(c, "join") /\ UNCHANGED claim
       \/ cachedProxyGate(r) /\ gate[r].verdict = "open" /\ StartClaim(c)
       \/ cachedProxyGate(r) /\ gate[r].verdict = "shut" /\ Step(c, "error") /\ UNCHANGED claim
    /\ UNCHANGED gateVars /\ Managed

JoinLookup(c) ==
    /\ At(c, "join")
    /\ Join(ReplicaOf[c], c \in Faulty)
    /\ Step(c, "gateWait")
    /\ UNCHANGED claim /\ Managed

\* A caller that gives up does not end the lookup, even when it began it.
LeaveLookup(c) ==
    /\ At(c, "gateWait") /\ c \in Faulty
    /\ Step(c, "error")
    /\ UNCHANGED <<claim, gateVars>> /\ Managed

\* The lookup of replica r; in the end all who wait for it have its verdict.
lookupProxyReady(r) ==
    /\ \/ LookupGoesOn(r) /\ UNCHANGED <<call, claim>>
       \/ \E verdict \in {"open", "shut"} :
             LET waiting == {c \in Claims : ReplicaOf[c] = r /\ At(c, "gateWait")} IN
             /\ LookupEnds(r, verdict)
             /\ call' = [c \in Claims |-> IF c \notin waiting THEN call[c]
                           ELSE [call[c] EXCEPT !.pc = IF verdict = "open" THEN "claim" ELSE "error"]]
             /\ claim' = [c \in Claims |-> IF c \in waiting /\ verdict = "open" THEN NewClaim
                                              ELSE claim[c]]
    /\ Managed

WaitDiscovered(c) ==
    /\ At(c, "found")
    /\ \/ \E p \in ReadyNow(call[c].pod) : ResolvedAndCached(c, p)
       \/ WaitFails(c, call[c].pod) /\ Step(c, "error") /\ UNCHANGED podCache
    /\ UNCHANGED clusterVars /\ Sessionless

\* pool.ClaimPod, step by step
Claiming(c) ==
    /\ At(c, "claim")
    /\ ClaimStep(c)
    /\ UNCHANGED managerVars

ClaimReturned(c) ==
    /\ At(c, "claim")
    /\ \/ claim[c].pc = "done" /\ StepPod(c, "waitClaim", claim[c].pod)
       \/ /\ claim[c].pc = "failed"
          /\ StepDiscover(c, "afterClaim")
    /\ UNCHANGED <<clusterVars, podCache>> /\ Sessionless

\* waitAndCacheClaim; a caller that gives up (Faulty) leaves everything.
WaitClaimed(c) ==
    /\ At(c, "waitClaim")
    /\ \/ \E p \in ReadyNow(call[c].pod) : ResolvedAndCached(c, p)
       \/ WaitFails(c, call[c].pod) /\ Step(c, "sibling") /\ UNCHANGED podCache
       \/ c \in Faulty /\ Step(c, "error") /\ UNCHANGED podCache
    /\ UNCHANGED clusterVars /\ Sessionless

\* A sibling replica may have kept an older pod: use it and delete nothing.
lookupAssignedSibling(c) ==
    LET others == {p \in AssignedLive(SessionOf[c]) : ~SameName(p, call[c].pod)}
        ready  == {p \in others : isPodReady(pods[p])}
    IN
    /\ At(c, "sibling")
    /\ \/ \E p \in ready : OldestByName(p, ready) /\ ResolvedAndCached(c, p)
       \/ ready = {} /\ others # {} /\ Step(c, "error") /\ UNCHANGED podCache
       \/ others = {} /\ Step(c, "cleanup") /\ UNCHANGED podCache
       \/ c \in Faulty /\ Step(c, "error") /\ UNCHANGED podCache
    /\ UNCHANGED clusterVars /\ Sessionless

\* bestEffortCleanupFailedPod: the pod by name, then the session's Secret.
CleanupFailedPod(c) ==
    /\ At(c, "cleanup")
    /\ DeleteNamed(call[c].pod) \/ (c \in Faulty /\ UNCHANGED pods)
    /\ Step(c, "unsecret")
    /\ UNCHANGED <<secrets, agents, podCache>> /\ Sessionless

CleanupFailedSecret(c) ==
    /\ At(c, "unsecret")
    /\ secrets' = secrets \ {SessionOf[c]} \/ (c \in Faulty /\ UNCHANGED secrets)
    /\ Step(c, "error")
    /\ UNCHANGED <<pods, agents, podCache>> /\ Sessionless

\* createSandboxPod: here an existing Secret is fine.
CreateSandboxSecret(c) ==
    /\ At(c, "secret")
    /\ \/ secrets' = secrets \cup {SessionOf[c]} /\ Step(c, "create")
       \/ c \in Faulty /\ UNCHANGED secrets /\ Step(c, "error")
       \/ c \in Faulty /\ secrets' = secrets \cup {SessionOf[c]} /\ Step(c, "error")
    /\ UNCHANGED <<pods, agents, podCache>> /\ Sessionless

OnDemand(s) == {p \in Pods : EnvToken[p] = s}

\* The next incarnation of the session's on-demand pod
FreshOnDemand(s) ==
    LET unused == {p \in OnDemand(s) : pods[p].state = "none"}
    IN  {p \in unused : \A q \in unused : p <= q}

PutOnDemand(p, s) ==
    Write(p, [NeverCreated EXCEPT !.state = "live", !.label = s,
                 !.born = Cardinality({q \in Pods : pods[q].state # "none"})])

\* The pod's name is derived from the session id: AlreadyExists sends the call
\* back to discoverPod, any other error (a quota, or the model's last
\* incarnation) takes the Secret away again.
CreateSandboxPod(c) ==
    LET s == SessionOf[c]
        exists == \E p \in OnDemand(s) : InApi(pods[p])
    IN
    /\ At(c, "create")
    /\ \/ /\ ~exists
          /\ \E p \in FreshOnDemand(s) : PutOnDemand(p, s) /\ StepPod(c, "waitCreate", p)
       \/ /\ exists /\ UNCHANGED pods
          /\ StepDiscover(c, "afterConflict")
       \/ FreshOnDemand(s) = {} /\ ~exists /\ UNCHANGED pods /\ Step(c, "unsecret")
       \/ c \in Faulty /\ UNCHANGED pods /\ Step(c, "unsecret")
       \/ /\ c \in Faulty /\ ~exists
          /\ \E p \in FreshOnDemand(s) : PutOnDemand(p, s)
          /\ Step(c, "unsecret")
    /\ UNCHANGED <<secrets, agents, podCache>> /\ Sessionless

WaitCreated(c) ==
    /\ At(c, "waitCreate")
    /\ \/ \E p \in ReadyNow(call[c].pod) : ResolvedAndCached(c, p)
       \/ WaitFails(c, call[c].pod) /\ Step(c, "cleanup") /\ UNCHANGED podCache
       \/ c \in Faulty /\ Step(c, "error") /\ UNCHANGED podCache
    /\ UNCHANGED clusterVars /\ Sessionless

-----------------------------------------------------------------------------
(* ExecuteCommand.                                                         *)

\* podName is read back from the cache before Execute, and may have expired.
CaptureName(c) ==
    /\ At(c, "capture")
    /\ call' = [call EXCEPT ![c].pc = "exec", ![c].name = Cached(c)]
    /\ UNCHANGED <<clusterVars, podCache>> /\ Sessionless

\* The agent at the pod's IP accepts the session's token and runs the command.
Runs(c, p) == AgentReachable(p) /\ agents[p] = SessionOf[c]

Ran(c) == ran' = [ran EXCEPT ![c] = @ + 1]

\* The call returns the agent's answer.  (Its last-activity patch is a step of
\* module IdleGC.)
Answer(c, p) ==
    /\ call' = [call EXCEPT ![c].pc = "done", ![c].reset = @ \/ call[c].replaced]
    /\ Ran(c)
    /\ answered' = [answered EXCEPT ![SessionOf[c]] = @ \cup {p}]
    /\ restarted' = restarted \ {p}

\* An Execute that gets no answer: the command may have been run all the same.
NoAnswer(c, p) ==
    /\ UNCHANGED ran \/ (Runs(c, p) /\ Ran(c))
    /\ UNCHANGED <<answered, restarted>>

\* A 503 that outlasts the wait for an in-flight assign, and a network error, are
\* recoverable; a 401 is not.  A caller that gives up drops the cache entry when
\* it does so inside Execute, and keeps it when it does so in the wait.
executeWhenAssigned(c) ==
    LET p == call[c].pod IN
    /\ At(c, "exec")
    /\ \/ Runs(c, p) /\ Answer(c, p) /\ UNCHANGED podCache
       \/ /\ AgentReachable(p) /\ agents[p] # SessionOf[c]
          /\ \/ agents[p] = NoSession /\ Step(c, "assign")
             \/ (agents[p] # NoSession \/ c \in Faulty) /\ Step(c, "error")
          /\ UNCHANGED <<podCache, historyVars>>
       \/ /\ ~AgentReachable(p) \/ c \in Faulty
          /\ Step(c, "recover") /\ NoAnswer(c, p) /\ UNCHANGED podCache
       \/ /\ c \in Faulty
          /\ Step(c, "error") /\ NoAnswer(c, p) /\ Invalidate(c, p)
    /\ UNCHANGED <<clusterVars, claim, cleanup>>

\* Variant: 200 and 409 are not told apart.
Assigned200Silent(c, p) ==
    /\ AgentReachable(p) /\ agents[p] = NoSession
    /\ agents' = [agents EXCEPT ![p] = SessionOf[c]]
    /\ Step(c, "rexec")

\* reassign: 200 makes this call the one that reset the shell, 409 does not.
Assigned200(c, p) ==
    /\ AgentReachable(p) /\ agents[p] = NoSession
    /\ agents' = [agents EXCEPT ![p] = SessionOf[c]]
    /\ call' = [call EXCEPT ![c].pc = "rexec", ![c].reset = TRUE]

Assigned409(c, p) ==
    /\ AgentReachable(p) /\ agents[p] # NoSession
    /\ Step(c, "rexec") /\ UNCHANGED agents

\* No answer to the assign, which may have taken effect: go on at pc.
AssignLost(c, p, pc) ==
    /\ \/ ~AgentReachable(p) /\ UNCHANGED agents
       \/ c \in Faulty /\ UNCHANGED agents
       \/ /\ c \in Faulty /\ AgentReachable(p) /\ agents[p] = NoSession
          /\ agents' = [agents EXCEPT ![p] = SessionOf[c]]
    /\ Step(c, pc)

\* recoverSession after a 503: assign the token again on the same pod.
recoverSession(c) ==
    LET p == call[c].pod IN
    /\ At(c, "assign")
    /\ \/ Assigned200(c, p)
       \/ Assigned409(c, p)
       \/ AssignLost(c, p, "recover")
       \/ c \in Faulty /\ AssignLost(c, p, "error")
    /\ UNCHANGED <<pods, secrets, podCache>> /\ Sessionless

\* podForRecovery gives the pod up and goes back to GetOrCreatePod.
Replace(c) ==
    /\ Invalidate(c, call[c].pod)
    /\ call' = [call EXCEPT ![c].pc = "lookup", ![c].replaced = TRUE]

\* The named pod is still the session's pod.
Kept(c) ==
    IF call[c].name = NoPod THEN {}
    ELSE {q \in Named(call[c].name) : ~Terminating(pods[q]) /\ ~isTerminalPod(pods[q])}

Keep(c, q) == CacheSet(c, q) /\ StepPod(c, "reassign", q)

waitRecoveredPod(c) ==
    /\ At(c, "recover")
    /\ \/ Kept(c) = {} /\ Replace(c)
       \/ \E q \in Kept(c) :
             IF isPodReady(pods[q]) THEN Keep(c, q)
             ELSE Step(c, "recoverWait") /\ UNCHANGED podCache
       \/ c \in Faulty /\ Step(c, "error") /\ UNCHANGED podCache
    /\ UNCHANGED clusterVars /\ Sessionless

\* It is Ready in time, or is looked at again when it is not.
RecoveredPodReady(c) ==
    /\ At(c, "recoverWait")
    /\ \/ \E q \in ReadyNow(call[c].name) : Keep(c, q)
       \/ Kept(c) = {} /\ Replace(c)
       \/ (Kept(c) # {} \/ c \in Faulty) /\ Step(c, "error") /\ UNCHANGED podCache
    /\ UNCHANGED clusterVars /\ Sessionless

\* recoverOnNewPod: assign on the pod it settled on, then one Execute.
recoverOnNewPod(c) ==
    LET p == call[c].pod IN
    /\ At(c, "reassign")
    /\ \/ Assigned200(c, p)
       \/ Assigned409(c, p)
       \/ AssignLost(c, p, "error")
    /\ UNCHANGED <<pods, secrets, podCache>> /\ Sessionless

\* Variant: a failed recovery exec is recovered from in turn.
ExecuteAgainRecovering(c) ==
    LET p == call[c].pod IN
    /\ At(c, "rexec")
    /\ \/ Runs(c, p) /\ Answer(c, p)
       \/ (~Runs(c, p) \/ c \in Faulty) /\ Step(c, "recover") /\ NoAnswer(c, p)
    /\ UNCHANGED <<clusterVars, podCache, claim, cleanup>>

ExecuteAgain(c) ==
    LET p == call[c].pod IN
    /\ At(c, "rexec")
    /\ \/ Runs(c, p) /\ Answer(c, p)
       \/ (~Runs(c, p) \/ c \in Faulty) /\ Step(c, "error") /\ NoAnswer(c, p)
    /\ UNCHANGED <<clusterVars, podCache, claim, cleanup>>

PodStep(c) ==
    \/ CacheGet(c) \/ discoverPod(c) \/ WaitDiscovered(c)
    \/ Claiming(c) \/ ClaimReturned(c) \/ WaitClaimed(c) \/ lookupAssignedSibling(c)
    \/ CreateSandboxSecret(c) \/ CreateSandboxPod(c) \/ WaitCreated(c)
    \/ CleanupFailedPod(c) \/ CleanupFailedSecret(c)
    \/ CaptureName(c) \/ executeWhenAssigned(c) \/ recoverSession(c)
    \/ waitRecoveredPod(c) \/ RecoveredPodReady(c) \/ recoverOnNewPod(c) \/ ExecuteAgain(c)

CallStep(c) ==
    \/ PodStep(c) /\ UNCHANGED gateVars
    \/ ensureProxyReady(c) \/ JoinLookup(c) \/ LeaveLookup(c)

-----------------------------------------------------------------------------
(* What happens around the calls.                                          *)

\* A PodCache entry reaches its TTL.
ExpireEntry(r, s) ==
    /\ podCache[r][s] # NoPod
    /\ podCache' = [podCache EXCEPT ![r][s] = NoPod]
    /\ UNCHANGED <<clusterVars, claim, call, cleanup, historyVars>>

\* DELETE /sessions/{id} on replica r.
CleanupSession(r, s) ==
    /\ cleanup.pc = "idle"
    /\ podCache' = [podCache EXCEPT ![r][s] = NoPod]
    /\ cleanup' = [pc |-> "list", session |-> s, todo |-> {}]
    /\ UNCHANGED <<clusterVars, claim, call, historyVars>>

CleanupList ==
    /\ cleanup.pc = "list"
    /\ \/ cleanup' = [cleanup EXCEPT !.pc = "pods",
             !.todo = {p \in Pods : Assigned(pods[p]) /\ pods[p].label = cleanup.session}]
       \/ cleanup' = [cleanup EXCEPT !.pc = "over"]
    /\ UNCHANGED <<clusterVars, claim, call, podCache, historyVars>>

\* The operator's gcIdleAssigned picks a pod whose last activity is too old: the
\* label patch stamps it too, and no claim lasts as long as the idle timeout.
gcIdleAssigned(p) ==
    /\ cleanup.pc = "idle"
    /\ \A c \in Claims : At(c, "claim") => claim[c].pod # p
    /\ Assigned(pods[p]) /\ ~Terminating(pods[p])
    /\ cleanup' = [pc |-> "pods", session |-> pods[p].label, todo |-> {p}]
    /\ UNCHANGED <<clusterVars, claim, call, podCache, historyVars>>

CleanupPod(p) ==
    /\ cleanup.pc = "pods" /\ p \in cleanup.todo
    /\ DeleteNamed(p) \/ UNCHANGED pods
    /\ cleanup' = [cleanup EXCEPT !.todo = @ \ {p}]
    /\ UNCHANGED <<secrets, agents, claim, call, podCache, historyVars>>

CleanupSecret ==
    /\ cleanup.pc = "pods" /\ cleanup.todo = {}
    /\ secrets' = secrets \ {cleanup.session} \/ UNCHANGED secrets
    /\ cleanup' = [cleanup EXCEPT !.pc = "over"]
    /\ UNCHANGED <<pods, agents, claim, call, podCache, historyVars>>

CleanupStep ==
    \/ \E r \in Replicas, s \in Sessions : CleanupSession(r, s)
    \/ CleanupList
    \/ \E p \in Pods : gcIdleAssigned(p) \/ CleanupPod(p)
    \/ CleanupSecret

KubeletStep ==
    /\ \E p \in Pods :
          \/ /\ (\E h \in Health : KubeletStatus(p, h)) \/ KubeletRemove(p)
             /\ UNCHANGED restarted
          \/ /\ ContainerStart(p)
             /\ restarted' = restarted \cup ({p} \cap UNION {answered[s] : s \in Sessions})
    /\ UNCHANGED <<claim, call, podCache, cleanup, ran, answered>>

Progress == (\E c \in Claims : CallStep(c)) \/ (\E r \in Replicas : lookupProxyReady(r))

Surroundings ==
    \/ \E c \in Claims : StartCall(c)
    \/ \E r \in Replicas, s \in Sessions : ExpireEntry(r, s)
    \/ CleanupStep
    \/ KubeletStep

ProxyStep ==
    /\ Tick \/ \E x \in Parts : ProxyChanges(x)
    /\ UNCHANGED <<clusterVars, claim, managerVars>>

Next == Progress \/ (Surroundings /\ UNCHANGED gateVars) \/ ProxyStep

Spec == Init /\ [][Next]_vars

\* As long as a call or a lookup can go on, some call or lookup does: each wait has a
\* deadline, and a request is answered or fails.  The agent's client has no timeout
\* (WithTimeout(0) in NewSessionManager); the agent's own timer ends a command, and a
\* broken connection a request.
FairSpec == Spec /\ WF_vars(Progress)

-----------------------------------------------------------------------------

\* A session's own pod: it has answered a call and is there
Home(s) ==
    {p \in answered[s] : /\ pods[p].state = "live" /\ pods[p].label = s
                         /\ ~isTerminalPod(pods[p])}

\* "The same session id reuses the shell, environment, and /workspace"
\* (docs/architecture.md): the calls of a session do not have their answers from
\* two pods that are both there.
OneShellPerSession == \A s \in Sessions : Cardinality(Home(s)) <= 1

\* A call made after the others have returned never claims or creates a second
\* pod while the session's pod is there, on whatever replica it runs, however
\* stale the replica's cache is and however unready the pod: GetOrCreatePod and
\* podForRecovery wait for it or fail.
HomeIsKept ==
    [][ \A p \in Pods, s \in Sessions :
          pods'[p].label = s /\ pods[p].label # s => Home(s) = {} ]_vars

\* Of calls made one after the other, the first that is answered by the new shell of a
\* restarted warm-pool pod says so: it had to assign the token again, and notes the
\* reset (assignedByUs in recoverSession).  It may be silent when an earlier call
\* assigned the token and then failed, or when its own assignment took effect and the
\* answer was lost; the next assignment is then a 409.  An on-demand pod comes back
\* with the token from its environment.  (Of calls at once, one that gets a 409, or
\* whose claim assigns the restarted agent, may be answered first, without a notice.)
ResetIsReported ==
    [][ \A c \in Claims :
          /\ Serial
          /\ call[c].pc # "done" /\ call'[c].pc = "done"
          /\ call[c].pod \in restarted /\ EnvToken[call[c].pod] = NoSession
          => \/ call'[c].reset
             \/ c \in Faulty
             \/ \E d \in Faulty : /\ SessionOf[d] = SessionOf[c] /\ call[d].pc = "error"
                                  /\ call[d].pod = call[c].pod ]_vars

\* A command runs a second time only as the one recovery exec of its call
\* ("Do not start a second recovery", pkg/session/manager.go), however many
\* answers are lost.
OneRecoveryExec == \A c \in Claims : ran[c] <= 2

\* A call stamps for deletion only pods of its own session: the pod it gives up
\* after waitForReady, and the extras of keepOldestAssigned, have not gone to
\* another session in the meantime (with one call per session at a time).
DeletesOwnPodsOnly ==
    [][ \A p \in Pods :
          pods[p].state = "live" /\ pods'[p].state = "terminating" =>
             \/ cleanup' # cleanup
             \/ \E c \in Claims : /\ call[c] # call'[c] \/ claim[c] # claim'[c]
                                  /\ SessionOf[c] = pods[p].label ]_vars

\* A call that claims or creates a pod does so while the proxy and the NetworkPolicy
\* are there, or were not long ago: a verdict is used for less than the TTL, and is
\* not older when it is stored than a lookup takes.  This holds for a caller that
\* joined a lookup, and for one that came between a verdict's expiry and the next.
AdmissionIsRecent ==
    [][ \A c \in Claims :
          call[c].pc \in {"gate", "gateWait"} /\ call'[c].pc = "claim" =>
             \A x \in Parts : proxy.down[x] < ProxyGateTTL + LookupTicks ]_vars

\* Every tool call returns, and so does every ClaimPod in it: a failed attempt
\* moves it on to a candidate it has not tried, and it recovers once at most.  (The
\* calls are finitely many, so it is enough that none is under way in the end.)
CallsReturn == <>[](\A c \in Claims : call[c].pc \in {"never", "idle", "done", "error"})

=============================================================================
