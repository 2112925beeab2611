# Formal model of cli-mcp-operator

TLA+ models of the operator, the MCP server's session layer, the sandbox agent
and the credential proxy; TLC configurations that check them on small instances;
and TLAPS proofs of the central safety properties for instances of any size.
Paths below are relative to the repository root.

To run something:

    tlc -workers 2 -config WarmPool.cfg MCWarmPool
    tlapm WarmPoolProofs.tla

`PROJECT.json` lists every run, the source lines behind every definition
(`map`), the hazards with the properties aimed at them, the disagreements
between code and documents that a run demonstrates (`findings`; section 6 has the
others), and for every property a plausible mutation of the code that breaks it (`mutants`; the
definitions commented "Variant:" in the modules).

## 1. The system

| Part | Keeps | Operations | What makes it correct |
|---|---|---|---|
| Warm-pool claim (`pkg/session/pool.go`), on every MCP replica | nothing; labels, annotations and Secrets in the API server, the token in the agent | `ClaimPod`: dedupe, list candidates, patch label under resourceVersion, create Secret, `POST /assign`, roll back | one session per pod, one claimant per session, labels taken off by their own claim only, calls return |
| Pool reconciliation (`internal/controller/pool.go`) | the informer cache | one pass: list, delete failed and outdated pods, delete surplus, create the deficit | never deletes a claimed pod, ends at the desired size although every list is stale |
| Pool status | `status.warmPool*`, conditions, requeue delay | `syncStatus`, `poolReadyGate`, deadlines | Ready is cleared after the deadline, kept during claims, held back during a rebuild |
| Session manager (`pkg/session/manager.go`, `cache.go`) | pod cache with TTL, per replica | `GetOrCreatePod`, `ExecuteCommand`, recovery, `CleanupSession` | a session keeps its pod, a reset is reported, a command is repeated once at most, calls return |
| Proxy gate (`manager.go`, `ensureProxyReady`) | cached verdict, shared lookup, per replica | check before claims | nobody is admitted by a verdict past its TTL, its own or a shared one |
| Sandbox agent (`pkg/sandbox/handler.go`, `cmd/agent`) | the token | `/health`, `/assign`, `/exec` | token set once; calls return |
| Bash session (`pkg/sandbox/bash.go`) | the process, `dead`, mutex | `Execute`, respawn, timer | exact output, a finished command is answered, resets are noticed |
| Idle collection (`internal/controller/idle.go`, `watch.go`) | requeue timer | `gcIdleAssigned`, `soonestIdleRequeue`, the event filter | idle sessions go in time, others stay |
| Instance lifecycle (`climcpinstance_controller.go`, `hmac.go`, `clientauth.go`) | finalizer, HMAC Secret, shared ClusterRoleBinding | reconcile, `finalize` | nothing left behind, key kept, binding converges, deletion ends |
| Kubeconfig and routes (`pkg/kubeconfig`, `pkg/proxy`) | route table of the proxy | `Validate`, `BuildRoutes`, `mergeRoutes`, load, match | verdict independent of map order, a published config with PEM CAs loads, request gets its own token |
| Proxy rollout (`internal/controller/proxy.go`) | CA, ConfigMap, Deployment | `applyProxy`, pool gate | the running proxy ends up with the current inputs, without a gap |
| Proxy shutdown (`cmd/proxy/main.go`) | tracked tunnels | `add`, `remove`, `drain` | returns, misses no wake-up, leaves no tunnel |

**How they interact.** Operator and MCP replicas never talk to each other: both
read and write pods and Secrets. The operator reads from a cache that lags, the
replicas read the API server; writes are protected by resourceVersions where the
code asks for it (label patch, pool deletes) and by nothing where it does not
(idle deletes, deletes by name). Replicas talk to agents over HTTP, where an
answer may be lost after the request had its effect. Agents are seen by the
operator only through pod readiness. The proxy is fed by the operator through a
ConfigMap, Secrets and a rollout, and gates both pool creation and claims.

**What is hard.** Races of claims with each other and with a pass; stale lists;
rollbacks that fail half-way or whose answer was lost; a session whose first
calls arrive on two replicas; restarts of containers under cached IPs; timers
that must make up for events that are filtered out; deletion of an instance
while its server still creates things without owner; rollouts computed from
stale inputs; a delimiter protocol on pipes that others write to as well.

## 2. Modules

    SandboxCluster            API objects of sandboxes, kubelet, agents' tokens
      |-- WarmPoolClaim       ClaimPod, step by step
      |     |-- ClaimRace     claims of several replicas, pool pods given
      |     |-- SessionManager  calls, caches, recovery, cleanup on replicas
      |           = WarmPoolClaim + ProxyGate   (SessionManagerProofs)
      |-- WarmPoolOperator    reconcilePool with its cache
            WarmPool = WarmPoolClaim + WarmPoolOperator
              |-- implements PodOwnership, the abstract specification
              |-- WarmPoolProofs, ClaimExclusionProofs, OwnershipProofs
    SandboxAgent (SandboxAgentProofs)   BashStream
    MitmTracker (MitmTrackerProofs)     IdleGC (IdleGCProofs)
    InstanceLifecycle (InstanceLifecycleProofs)   PoolStatus
    ProxyRoutes   ProxyRollout
    MC*            values of the constants for TLC

Definitions keep the names of the code. Each request to the API server or an
agent is a step of its own; what runs between two requests, without anything
others can see, is one step.

**SandboxCluster.** `pods` holds what the code reads of a pod object: existence
and deletion, session label, resourceVersion, status (`Health`), age, overlay
hash; `secrets` the sessions with an auth Secret; `agents` the session whose token the
agent holds (the HMAC makes token and session one to one). A pod is named by its
UID; pods of one deterministic name are several members of `Pods` with the same
`EnvToken`. The API server and the kubelet are external.

**WarmPoolClaim.** `claim[c]` is one call of `ClaimPod`: its place, the candidate
in hand, the candidates with the resourceVersion it saw, the extra pods to
delete. Each request of a claim in `Faulty` may fail without effect or after having had it
(a lost answer, a cancelled context). A replica that crashes stops taking steps,
which every safety property allows for; what it leaves is what a failed request
leaves.

**WarmPoolOperator.** `op` is the pass: its loop, the pods still to delete, the
counts it took from the list. The cache is a FIFO of cluster states at most
`MaxLag` long: the operator sees every state in order and late. Deletes carry UID
and resourceVersion of a re-read, itself from the cache, as in
`deleteUnassignedIfStillUnassigned`. `WriteFaults` lets writes fail; a restart of
the operator is a pass that failed, since a pass keeps nothing.

**PodOwnership.** What the pool promises, without saying how: a pod has no owner
or one session, changes hands only by way of nobody, and once it is *settled*
with a session it stays with it; nobody but the session ends it. `WarmPool`
instantiates it (`Ownership`): the owner is the label, a pod is settled when a
`ClaimPod` call returned it. With two calls for one session no pod counts as
settled, because `keepOldestAssigned` of one may then delete or hand out the other's
pod (section 6); everything else of the promise is still required.

**ProxyGate.** The verdict a replica keeps with its age, the `singleflight` lookup
that calls share, its two requests (EndpointSlices, NetworkPolicy) as two steps
between which the proxy may change, and the context of the call that leads it:
when that call is cancelled the lookup fails, the verdict is not kept, and all who
joined are refused. Time is counted in ticks; `down` is history, how long a part
has been missing.

**SessionManager.** `call[c]` is a tool call on `ReplicaOf[c]`, from
`GetOrCreatePod` over claim or on-demand creation to the exec and the one
recovery; `podCache` is `cache.go` with expiry at any time; `cleanup` is
`CleanupSession` or the idle collection of one pod. `Workloads` says which
calls are made, which pods there is room for, and whether there is a proxy gate.
`Serial` makes the calls of a session come one after the other. `ran`, `answered`
and `restarted` are history.

**SandboxAgent.** The agent's token, mutex, `dead` flag and process; requests are
placed at each read of shared state (`HandleExec` reads it twice). The readiness
probe and the MCP pod cache are there because they decide whether a call arrives.

**BashStream.** One `Execute`: the wrapped script, what is in each pipe token by
token, the two readers, the select loop, the timer, and a job of an earlier
command that writes to both pipes. Markers contain a fresh UUID and so never
occur in output.

**IdleGC.** Time is an integer; a pod has the age of its last-activity annotation.
`due`, `timer` and the pass are the work queue, `Enqueues` the event filter of
`watch.go`. With `prompt` the watch and the passes take no time, otherwise
everything may be late. The pool's own requeue delay (`PoolDelays`) stands for
whatever else schedules passes: delays are merged by taking the smaller, so another
session acts on this one just as such a delay does, and one pod is enough. `behind`
is history: for how long the operator has not been up to date.

**InstanceLifecycle.** The objects of an instance by kind, each kind with its own
watch, the single worker with its queue, and the MCP server that goes on creating a
Secret and a pod until it is gone. `finalize` and the steps of a normal pass are
steps of the worker in the order of the code. `setting` is chosen once and says who
is used, whose server gets calls, which watches lag, and how much fails.

**PoolStatus.** What `poolReadyGate`, `shortfallPastDeadline` and the requeue delays
make of a pool whose pods come, fail and are claimed as time passes. The work of a
pass on the pods is one step (WarmPoolOperator has its detail), the status another;
between them the cache may change. All other gates of Ready are one Boolean.

**ProxyRoutes.** `Validate`, `BuildRoutes`, `mergeRoutes`, the proxy's config loader
and its host lookup, as operators, with the iterations over Go maps as steps in any
order. A host is a name with a case, a port may be absent (443).

**ProxyRollout.** The two Secrets, the ConfigMap and the Deployment with
resourceVersions and the operator's copies of them, `applyProxy` request by request,
the Deployment controller with `maxSurge` 1 and `maxUnavailable` 0, and proxy pods
that read their inputs when they start.

**MitmTracker.** `serve` from the signal on, the condition variable with its two
wakers, and connections that are hijacked, tracked, refused and closed meanwhile.

## 3. Runs

| Run | Checks | Bounds | States |
|---|---|---|---|
| `WarmPool` | `TypeOK`, `ClaimIsExclusive`, `SessionHasOneClaimant`, `PodsAreOwned`, `LabelOnlyClearedByItsClaim`, `PoolDeleteSparesSessions`, `SyncedPassNeverOvershoots`, `PoolConverges` | 3 pods; two calls of one session, two of different sessions, or one whose answers are lost, on two pods the operator is about to cut; a call on a pool that is being filled; or an edit of the size (0, 1) and overlay of a pool of one; cache one state behind; writes of the operator fail | 255,000 |
| `SessionManager` | `HomeIsKept`, `ResetIsReported`, `OneRecoveryExec`, `DeletesOwnPodsOnly`, `AdmissionIsRecent`, `CallsReturn` | 7 workloads: two calls on two replicas with a pool pod or only on-demand pods and one end of the session; calls of two sessions; one call on two pool pods; one call whose requests fail, and such a call among two others of its session; two calls that share a gate (TTL 2, lookups of up to 1 tick) | 304,000 |
| `SandboxAgent_shell` | `ResetIsReported`, `ExecsReturn` | 2 clients that call again and again, 2 assignments, restarts, respawns that fail | 98,000 |
| `SandboxAgent_respawn` | `DeadShellIsReplaced` (violated) | 1 client that calls again and again, respawns that work | |
| `BashStream_lines` | `OutputIsExact`, `StdoutBeginsAtStart`, `FinishedCommandIsAnswered` | five shapes of output on either pipe, one line of a background job | 151,000 |
| `BashStream_partial` | `FinishedCommandIsAnswered` (violated) | the same without the job, and an output without a final newline | |
| `MitmTracker` | `NoTunnelLeft`, `WakeupIsPending`, `ServeReturns` | 3 connections | 3,922 |
| `IdleGC` | `CollectedOnTime`, `QuietSessionIsCollected`, `ErrsOnlyWhileBehind` | 1 pod, timeout 3, minimal requeue 2, resync 6, 2 failed requests | 794,000 |
| `InstanceLifecycle` | `FreshListLeavesNoOrphans`, `HmacIsKept`, `DeletionFinishes`, `SubjectGoesFirst`, `BindingConverges` | 3 settings: sessions during deletion; late watches of owned objects; two instances and an administrator | 145,000 |
| `PoolStatus` | `ShortfallIsReported`, `RebuildWaits`, `ClaimKeepsReady` | 2 pods (symmetric), sizes 0 and 2, deadline 2, retry 2, resync 3 | 1,042,000 |
| `ProxyRoutes_routed` | `VerdictIsRight`, `PublishedConfigLoads`, `RequestIsRouted` | 2 clusters (of 7, one with CA data that is not PEM), users and contexts, 2 allowlist domains, 5 requests | 2,629,000 |
| `ProxyRollout` | `ServiceIsKept`, `ProxyFollowsInputs` | 3 kubeconfigs, absent, invalid; 2 edits or failures; 2 settings of late watches | 450,000 |

`WarmPool_resize.cfg` (edits of size and overlay with failing writes, 1,305,000
states) and `ProxyRollout_deploy.cfg` (a late watch of the Deployment, 554,000
states) are larger instances that pass as well. The remaining configurations show
the behaviours of section 6.

What the less obvious properties say:

- `PodsAreOwned` is the refinement: every step of claims, passes and kubelet is a
  step of `PodOwnership` or changes nothing there.
- `SessionHasOneClaimant`: whatever two replicas do for one session, one of them at
  most is between the creation of the auth Secret and the end of its rollback.
- `AdmissionIsRecent`: a call goes on to claim or create only if endpoints and
  NetworkPolicy were there less than TTL plus one lookup ago.
- `ResetIsReported` of SessionManager: for calls one after the other, an answer from a
  pool pod whose container was restarted says that state was lost. The exceptions are
  part of it: the call's own requests fail, or a call of the session whose requests
  fail has ended in an error on that pod. It may have assigned the token again and
  taken the notice with it: the next call finds an assigned agent and says nothing.
  The workload `LostNotice` makes that happen.
- `ResetIsReported` of SandboxAgent has no exceptions: it is about shells within one
  agent process.
- `PublishedConfigLoads`: the proxy refuses what the operator published only if CA data
  of the kubeconfig is not PEM, in which case it does (section 6).
- `OutputIsExact` is about outputs that are empty or end with a newline; the others
  are the finding of section 6.
- `DeletesOwnPodsOnly` is about pods of other sessions; a newer pod of the same session
  and name is not told apart from the one that was given up.
- `WakeupIsPending`: while `drain` sleeps, a tracked tunnel has still to be removed and
  the waker has still to see the context's end.
- `ErrsOnlyWhileBehind`: a pod that idle collection deletes although it is not idle
  was stamped or created after the operator was last up to date.
- `SyncedPassNeverOvershoots`: a pass whose list was up to date never raises the
  pool above the size it set out for, however the cluster changes meanwhile.
- `HomeIsKept`: for calls one after the other, a session with a live pod that has
  answered never gets a second one.

**Why the bounds are enough to be interesting.** Every race in the code is between
two parties and one object: two claims and a pod, a claim and a pass, a lookup and
a change of the proxy, an idle pass and a stamp. Two claims, two pods and one state of lag make
each happen; the third pod of `WarmPool` leaves room for a replacement while one
pod terminates, and its runs begin where the pods to fight over are there. `MaxVersion` limits how often the kubelet changes a
status, not the writes of the code under test. Times are the smallest for which
"before", "at" and "after" each deadline differ, with a minimal requeue that is
longer than one tick, so that a remainder below it occurs. Bounds on faults
(`MaxFaults`, `faults`, `MaxEdits`) are needed for liveness: nothing converges while
requests fail forever. The safety properties that are proved (section 5) do not depend
on any of these values.

Where deadlock is not checked the system may stop: claims and calls are finitely
many, `serve` returns, a command has been answered, a kubeconfig has been judged.

## 4. Liveness and fairness

| Property | Assumed | Because |
|---|---|---|
| `PoolConverges` | passes go on, a delete or create that is tried again and again succeeds in the end (`SF`), the watch delivers, terminating pods go | the work queue is fed by watch and resync and retries after an error; informers catch up; grace periods end. Nothing is assumed of claims: one may stop anywhere |
| `CallsReturn` | as long as a call or a lookup can go on, one does (`WF(Progress)`) | `waitForReady`, `waitForIP` and recovery have deadlines; the claim's `/assign` has a client timeout. The client for `/exec` has none (`agent.WithTimeout(0)`), but the agent's own timer ends a command; API requests and the recovery's `/assign`, which have none either, are taken to be answered or broken off in the end. Nothing is assumed of clients, kubelet, proxy or time |
| `ExecsReturn` | handlers run; the mutex is granted to a waiter again and again (`SF(LockAndRespawn)`); the timer fires | Go's mutex is starvation-free; `Execute` arms a timer for each command. That bash answers is not assumed |
| `DeadShellIsReplaced` (violated) | also: the probe runs, cache entries expire, clients call again | kubelet probes periodically; `PodCache` has a TTL |
| `ServeReturns` | the context ends, the waker and drain run | `context.WithTimeout`; nothing is assumed of tunnels |
| `QuietSessionIsCollected` | time passes, the operator runs, the watch delivers | as above |
| `DeletionFinishes`, `BindingConverges` | the worker goes on, each queued instance is served in turn (`SF(Reconcile(i))`), timers fire, watches deliver, pods stop | the work queue is first in, first out; with one worker an instance is disabled while the other is served, hence strong fairness |
| `ProxyFollowsInputs` | the operator runs, resyncs, sees changes; the Deployment controller and the kubelet do their part | the same |

`FinishedCommandIsAnswered`, `ShortfallIsReported` and `CollectedOnTime` are
stated as safety: what must have happened by the time a given point is reached.

## 5. Proofs

Everything below is proved by TLAPS for all values of the constants that satisfy
the named assumptions (`ClusterAssumption`, `ClaimAssumption`, `OperatorAssumption`,
`ManagerAssumption`, `GateAssumption`, `AgentAssumption`, `IdleAssumption`,
`LifecycleAssumption`): pods form a finite set of numbers (their order is creation
order), markers such as `NoPod` are not values, functions have their types, and
durations are positive. TLC evaluates them in every run that uses the module.

| Module | Theorem | Statement |
|---|---|---|
| `WarmPoolProofs` | `TypeCorrect` | `Spec => []TypeOK` |
| | `OneClaimant` | `Spec => []SessionHasOneClaimant` |
| | `LabelsAreOwned` | `Spec => LabelOnlyClearedByItsClaim` |
| | `PoolDeleteSafe` | `Spec => PoolDeleteSparesSessions` |
| `ClaimExclusionProofs` | `ClaimsExclude` | `Spec => []ClaimIsExclusive` |
| `OwnershipProofs` | `PoolImplementsOwnership` | `Spec => PodsAreOwned` |
| `SessionManagerProofs` | `CommandRunsAtMostTwice` | `Spec => []OneRecoveryExec` |
| | `AdmissionByRecentVerdict` | `Spec => AdmissionIsRecent` |
| `SandboxAgentProofs` | `ResetsAreReported` | `Spec => ResetIsReported` |
| `IdleGCProofs` | `CollectionIsOnTime` | `Spec => []CollectedOnTime` |
| | `CollectionErrsOnlyWhileBehind` | `Spec => ErrsOnlyWhileBehind` |
| `InstanceLifecycleProofs` | `KeyIsKept` | `Spec => HmacIsKept` |
| | `SubjectHasGone` | `Spec => SubjectGoesFirst` |
| | `NothingIsLeft` | `Spec => []FreshListLeavesNoOrphans` |
| `MitmTrackerProofs` | `ServeLeavesNoTunnel` | `Spec => []NoTunnelLeft` |
| | `NoLostWakeup` | `Spec => []WakeupIsPending` |

**Warm pool.** The difficulty is stale knowledge: a claim acts on a list, the
operator on a cache, and both rely on resourceVersions. The invariant `IInv` says
what a version proves. `CacheIsPast`: an object in the cache with the current
version *is* the current object. `TargetWasUnassigned` and
`CandidatesWereUnassigned`: the version read for a delete or listed for a claim had
no label, so a precondition or a patch that succeeds finds an unlabelled pod.
`TryingIsCreated`, `TryingIsLabelled`, `TryingIsAlone`: from patch to rollback a
claim's pod carries its session's label and no other claim is at work on it.
`OwnerHasSecret` and `SessionHasOneClaimant`: the Secret is there as long as its
claimant is, so a second creation fails. `ClaimExclusionProofs` adds `HeldInv` (the
same for returned pods) under one call per session, which is where
`keepOldestAssigned` can do no harm.

**Refinement.** `OwnershipProofs` shows that a step changes state or label of at most
one pod, in one of five ways (`Created`, `Labelled`, `Unlabelled`, `Retired`,
`Removed`), or lets one call return, and maps each to an action of `PodOwnership`;
`HeldInv` excludes that an unlabelled or retired pod is settled.

**Session manager.** `RanInv` bounds the runs of a command by the call's place: none
before `Execute`, one before the recovery, two at the end; `replaced` is what keeps
`podForRecovery` from coming back to the first `Execute`. For the gate, `GateInv`
says that a verdict still in use was true no longer ago than its age plus a lookup
(`OpenIsRecent`), and that a lookup past its first request saw the endpoints since
it began (`SeenIsRecent`).

**Agent.** `FreshIsAccountedFor`: a shell that nobody has been told of is dead, or
its bash has exited, or the `Execute` that holds the mutex carries `stateReset`.

**Idle collection.** For `CollectedOnTime` the invariant says who will look at a pod in
time (`LookedAt`): a queued pass, this pass's list or its delay, or the timer; the
lemma on `soonestIdleRequeue` bounds the delay. For `ErrsOnlyWhileBehind`,
`UnseenIsRecent` and `TodoIsIdleOrRecent` bound what the cache and the list of a
pass can have missed.

**Instance lifecycle.** `LInv` relates cache and API server (`CacheIsPast`), the
worker's decision to the instance (`PassIsApt`), and the binding as read to the
binding as it is (`BindingIsRead`). `OInv` follows finalize: past each of its steps
one more kind of object is gone and cannot come back (`TakenDown`), provided reads
of the Deployment and the server pods are up to date.

**Shutdown.** `SleepIsSafe` and `WakeupIsPending`: between the check of `conns` and
`cond.Wait` drain holds the mutex, so neither waker can come in between.

Only model-checked: all liveness (the prover has no fairness or `ENABLED`);
`HomeIsKept`, `ResetIsReported` of SessionManager, `DeletesOwnPodsOnly` and
`SyncedPassNeverOvershoots`, whose invariants run over the whole of both modules;
and BashStream, PoolStatus, ProxyRoutes and ProxyRollout, where what is at stake is
what loops over sequences and maps compute, or what happens in the end.

## 6. Where the code does not do what one might expect

Two disagreements with a document are runs.

- `BashStream_partial`: a command whose stderr does not end with a newline hides the
  exit marker (`pkg/sandbox/bash.go:229`), so one that has finished runs into its
  timeout and takes the shell with it. (The end marker on stdout, line 211, is hidden
  the same way.)
- `SandboxAgent_respawn`: a dead shell makes `/health` fail (`pkg/sandbox/handler.go:108`).
  The pod is then not Ready, and when its cache entry has expired `discoverPod` waits
  for readiness and gives up. No call gets to `Execute`, which alone respawns, until
  idle collection or `CleanupSession` takes the pod away. The design says "respawn on
  next call".

The others have a configuration of their own, to be run like any other; each ends in
a counterexample.

| Configuration | Violated | Behaviour |
|---|---|---|
| `ClaimRace_dedupe.cfg` | `ReturnedPodIsClaimed` | With two calls of one session, `keepOldestAssigned` returns the sibling's pod, whose claim then fails and takes the label off (`pkg/session/pool.go:174`). |
| `ClaimRace_rollback.cfg` | `RollbackRestoresPod` | The answer of `POST /assign` is lost; the pod goes back to the pool with a token in its agent (`pool.go:221`), and every later claim of it fails with 409. |
| `SessionManager_split.cfg` | `OneShellPerSession` | The first two calls of a session, at once on two replicas, get answers from two pods (`manager.go:297`). |
| `IdleGC_stale.cfg` | `OnlyIdleCollected` | A session that has become active since the list is deleted (`idle.go:113` deletes by name, without preconditions). |
| `IdleGC_busy.cfg` | `BusySessionIsSpared` | Activity is stamped after the command (`manager.go:634`): one that runs longer than the idle timeout loses its pod. |
| `InstanceLifecycle_orphan.cfg` | `NoOrphans` | finalize asks the cache whether the servers are gone (`climcpinstance_controller.go:147`); one it does not show creates a pod that stays. |
| `PoolStatus_rebuild.cfg` | `RebuildAlwaysWaits` | The re-list after deletes may still count the deleted pods as Ready (`internal/controller/pool.go:331`). |
| `ProxyRoutes_ca.cfg` | `AnyPublishedConfigLoads` | CA data that is no PEM is published as it is (`routes.go:56`) and refused by the proxy's loader. |

Two more are in the models without a property: callers that joined a lookup of the
proxy gate are refused when the call that began it is cancelled (`manager.go:187`);
and a cached IP may come to belong to another pod (`cache.go:46`), which is not
modelled, since a pod is identified with its IP.

## 7. Not modelled

- `pkg/proxy/strip.go` (path and header rules), `pkg/kubeconfig/sanitize.go`,
  `pkg/session/podspec.go`, `internal/controller/overlay.go`, `normalize.go`,
  `names.go` and most of `children.go`: functions from one value to another, without
  state or order of steps. A model would repeat their text. What other parts depend
  on is there: the overlay hash, the servers and CAs of a kubeconfig, the Deployment.
- TLS (`pkg/proxy/transport.go`, `ca.go`, `pem.go`), flags, wiring, the MCP transport,
  generated code and type declarations.
- kube-rbac-proxy and the other children of an instance: applied unconditionally on
  every pass; of the gates of Ready in PoolStatus all but the pool's are one Boolean.
- Reuse of IPs and collisions of random names; clocks that differ between operator
  and replicas (last-activity is written by one and read by the other).
- InstanceLifecycle takes the shared ClusterRoleBinding to have the operator's roleRef.
  A binding of that name with another one is an error on every pass
  (`clientauth.go:229`), is never mended, and keeps `finalize` from going on:
  `DeletionFinishes` and `BindingConverges` are about the other case. Adoption of a
  Secret's labels and owner (`adoptHMACMetadata`) is left out, too.
- ProxyRollout's gate (`proxyPoolOpen`) looks at ConfigMap and endpoints. The two
  NetworkPolicies it also asks for are applied earlier in every pass and taken to be
  there; the instance always names a kubeconfig Secret, so that the ConfigMap needs a
  dummy; a missing image stops every pass and is left out; hosts of kubeconfig and
  allowlist are distinct (ProxyRoutes has the conflict).
- In MitmTracker, `serve` that returns because `Serve` failed ends the process: its
  tunnels are not followed any further.
- The API server, kubelet, Deployment controller, informers and work queue are
  external: they do what the code relies on, late and in any order.
