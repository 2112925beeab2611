-------------------------- MODULE InstanceLifecycle --------------------------
(***************************************************************************)
(* The life of CliMcpInstance objects under the operator's single worker:  *)
(* finalizer, HMAC Secret, MCP Deployment and the auth-delegator binding   *)
(* that all instances share, and deletion, which has to outlast the MCP    *)
(* server pods because what they create has no owner reference.  The       *)
(* operator reads the binding from the API server and all else from its    *)
(* cache, in which every kind of object has a watch of its own.            *)
(***************************************************************************)
EXTENDS Naturals, FiniteSets

CONSTANTS
    Instances,    \* CliMcpInstance objects
    NoBinding,    \* "the ClusterRoleBinding does not exist"
    Settings      \* the circumstances to look at

Kinds == {"inst", "deploy", "server", "sandbox", "secret", "hmac"}

\* A key of the HMAC Secret; a new one is one that was never used.
Keys == 0..2

\* used: the instances that users create;  serving: those whose MCP server
\* comes up and gets calls;  lag: the kinds whose watch may lag behind;  and two bounds: faults,
\* failed requests of the operator, and admin, deletions of the binding by an
\* administrator.
ASSUME LifecycleAssumption ==
    Settings \subseteq [used: SUBSET Instances, serving: SUBSET Instances, lag: SUBSET Kinds,
                        faults: Nat, admin: Nat]

VARIABLES
    api,       \* the objects of every instance, by kind
    cache,     \* the operator's copy
    call,      \* MCP server: createSandboxPod has its Secret, not yet its pod
    crb,       \* subjects of the auth-delegator ClusterRoleBinding
    due,       \* instances in the work queue
    later,     \* instances to be added after a delay
    op,        \* the worker: its place, its instance, what it read
    faults, admin,
    setting    \* chosen once

vars == <<api, cache, call, crb, due, later, op, faults, admin, setting>>

NoInst == [state |-> "absent", fin |-> FALSE]

Objects ==
    [inst: [Instances -> [state: {"absent", "live", "deleting"}, fin: BOOLEAN]],
     deploy: [Instances -> {"none", "up", "zero"}],
     server: [Instances -> {"none", "running", "stopping"}],
     sandbox: [Instances -> {"none", "live", "terminating"}],
     secret: [Instances -> BOOLEAN],
     hmac: [Instances -> Keys]]

Steps == {"idle", "finalizer", "hmac", "getHMAC", "children", "crb", "crbWrite",
          "scale", "servers", "pods", "secrets", "recheck", "remove"}

Idle == [pc |-> "idle", i |-> NoBinding, fin |-> FALSE, subjects |-> {}, seen |-> NoBinding,
         err |-> FALSE]

TypeOK ==
    /\ api \in Objects /\ cache \in Objects
    /\ call \in [Instances -> BOOLEAN]
    /\ crb \in SUBSET Instances \cup {NoBinding}
    /\ due \subseteq Instances /\ later \subseteq Instances
    /\ op.pc \in Steps /\ op.i \in Instances \cup {NoBinding}
    /\ op.subjects \subseteq Instances
    /\ setting \in Settings
    /\ faults \in 0..setting.faults /\ admin \in 0..setting.admin

Init ==
    /\ api = [inst |-> [i \in Instances |-> NoInst],
              deploy |-> [i \in Instances |-> "none"],
              server |-> [i \in Instances |-> "none"],
              sandbox |-> [i \in Instances |-> "none"],
              secret |-> [i \in Instances |-> FALSE],
              hmac |-> [i \in Instances |-> 0]]
    /\ cache = api
    /\ call = [i \in Instances |-> FALSE]
    /\ crb = NoBinding
    /\ due = {} /\ later = {}
    /\ op = Idle
    /\ faults = 0 /\ admin = 0
    /\ setting \in Settings

\* What a cached read returns.
Read(kind, i) == IF kind \in setting.lag THEN cache[kind][i] ELSE api[kind][i]

Put(kind, i, value) == api' = [api EXCEPT ![kind][i] = value]

-----------------------------------------------------------------------------
(* Users and Kubernetes.                                                   *)

others == <<cache, crb, due, later, op, faults, admin, setting>>

\* (Bound: a name is used again when nothing the old instance owned is left.)
CreateInstance(i) ==
    /\ i \in setting.used
    /\ api.inst[i] = NoInst /\ api.hmac[i] = 0 /\ cache.inst[i] = NoInst
    /\ op.i # i /\ api.deploy[i] = "none"
    /\ Put("inst", i, [state |-> "live", fin |-> FALSE])
    /\ UNCHANGED <<call, others>>

\* The object goes at once when it has no finalizer.
DeleteInstance(i) ==
    /\ api.inst[i].state = "live"
    /\ Put("inst", i, IF api.inst[i].fin THEN [api.inst[i] EXCEPT !.state = "deleting"]
                                         ELSE NoInst)
    /\ UNCHANGED <<call, others>>

\* The garbage collector deletes what the instance owned.
OwnerGC(i) ==
    /\ api.inst[i].state = "absent"
    /\ \/ api.deploy[i] # "none" /\ Put("deploy", i, "none")
       \/ api.hmac[i] # 0 /\ Put("hmac", i, 0)
    /\ UNCHANGED <<call, others>>

\* The Deployment's pods.  A stopping server finishes its requests.
ServerStep(i) ==
    /\ \/ /\ api.server[i] = "none" /\ api.deploy[i] = "up" /\ i \in setting.serving
          /\ Put("server", i, "running") /\ UNCHANGED call
       \/ /\ api.server[i] = "running" /\ api.deploy[i] # "up"
          /\ Put("server", i, "stopping") /\ UNCHANGED call
       \/ /\ api.server[i] = "stopping"
          /\ Put("server", i, "none") /\ call' = [call EXCEPT ![i] = FALSE]
    /\ UNCHANGED others

\* createSandboxPod of an MCP server: the Secret, then the pod, without owners.
SessionSecret(i) ==
    /\ api.server[i] # "none" /\ ~call[i]
    /\ Put("secret", i, TRUE) /\ call' = [call EXCEPT ![i] = TRUE]
    /\ UNCHANGED others

SessionPod(i) ==
    /\ call[i]
    /\ Put("sandbox", i, IF api.sandbox[i] = "none" THEN "live" ELSE api.sandbox[i])
    /\ call' = [call EXCEPT ![i] = FALSE]
    /\ UNCHANGED others

SandboxRemoved(i) ==
    /\ api.sandbox[i] = "terminating"
    /\ Put("sandbox", i, "none")
    /\ UNCHANGED <<call, others>>

AdminDeletesBinding ==
    /\ crb # NoBinding /\ admin < setting.admin
    /\ crb' = NoBinding /\ admin' = admin + 1
    /\ UNCHANGED <<api, cache, call, due, later, op, faults, setting>>

-----------------------------------------------------------------------------
(* Watches and queue.                                                      *)

\* Server pods and the Secrets of sessions enqueue nothing.  (A kind that does not
\* lag needs no event: a timer may fire whenever its event would come.)
Deliver(kind) ==
    /\ kind \in setting.lag /\ cache[kind] # api[kind]
    /\ cache' = [cache EXCEPT ![kind] = api[kind]]
    /\ due' = IF kind \in {"server", "secret"} THEN due
              ELSE due \cup {i \in Instances : cache[kind][i] # api[kind][i]}
    /\ UNCHANGED <<api, call, crb, later, op, faults, admin, setting>>

TimerFires(i) ==
    /\ i \in later
    /\ later' = later \ {i} /\ due' = due \cup {i}
    /\ UNCHANGED <<api, cache, call, crb, op, faults, admin, setting>>

-----------------------------------------------------------------------------
(* Reconcile.                                                              *)

env == <<cache, call, later, faults, admin, setting>>

Goto(pc) == op' = [op EXCEPT !.pc = pc]

\* An error, a conflict: the queue tries again.
Retry == op' = Idle /\ due' = due \cup {op.i} /\ UNCHANGED <<api, crb>>

Reconcile(i) ==
    /\ op.pc = "idle" /\ i \in due
    /\ due' = due \ {i}
    /\ LET inst == Read("inst", i)
           start(pc, fin) == op' = [Idle EXCEPT !.pc = pc, !.i = i, !.fin = fin]
       IN  \/ inst.state = "absent" /\ UNCHANGED op
           \/ inst.state = "deleting" /\ (IF inst.fin THEN start("crb", TRUE) ELSE UNCHANGED op)
           \/ inst.state = "live" /\ start(IF inst.fin THEN "hmac" ELSE "finalizer", FALSE)
    /\ UNCHANGED <<api, crb, env>>

AddFinalizer ==
    /\ op.pc = "finalizer"
    /\ IF api.inst[op.i] = [state |-> "live", fin |-> FALSE]
       THEN Put("inst", op.i, [state |-> "live", fin |-> TRUE]) /\ Goto("hmac") /\ UNCHANGED due
       ELSE op' = Idle /\ due' = due \cup {op.i} /\ UNCHANGED api
    /\ UNCHANGED <<crb, env>>

\* Variant: a Secret the cache does not show is written over.
EnsureHMACOver ==
    /\ op.pc = "hmac"
    /\ IF Read("hmac", op.i) # 0
       THEN Goto("children") /\ UNCHANGED <<api, due>>
       ELSE Put("hmac", op.i, 1 + (api.hmac[op.i] % 2)) /\ Goto("getHMAC") /\ UNCHANGED due
    /\ UNCHANGED <<crb, env>>

\* Generate once: a Secret that the cache does not show, though it exists, makes
\* the Create fail.
EnsureHMAC ==
    /\ op.pc = "hmac"
    /\ \/ Read("hmac", op.i) # 0 /\ Goto("children") /\ UNCHANGED <<api, due, crb>>
       \/ /\ Read("hmac", op.i) = 0 /\ api.hmac[op.i] = 0
          /\ Put("hmac", op.i, 1) /\ Goto("getHMAC") /\ UNCHANGED <<due, crb>>
       \/ Read("hmac", op.i) = 0 /\ api.hmac[op.i] # 0 /\ Retry
    /\ UNCHANGED env

\* The Get after the Create reads the cache, too.
GetHMAC ==
    /\ op.pc = "getHMAC"
    /\ IF Read("hmac", op.i) # 0 THEN Goto("children") /\ UNCHANGED <<api, due, crb>> ELSE Retry
    /\ UNCHANGED env

\* applyChildren, of which the MCP Deployment matters here; its error is kept
\* until the binding has been applied.
ApplyChildren ==
    /\ op.pc = "children"
    /\ LET seen == Read("deploy", op.i) IN
          \/ seen = "up" /\ Goto("crb") /\ UNCHANGED api
          \/ seen # "up" /\ seen = api.deploy[op.i] /\ Put("deploy", op.i, "up") /\ Goto("crb")
          \/ /\ seen # "up" /\ seen # api.deploy[op.i]
             /\ op' = [op EXCEPT !.pc = "crb", !.err = TRUE] /\ UNCHANGED api
    /\ UNCHANGED <<crb, due, env>>

\* Variant: instances under deletion keep their subject.
DesiredSubjectsAll == {i \in Instances : Read("inst", i).state # "absent"}

desiredAuthDelegatorSubjects == {i \in Instances : Read("inst", i).state = "live"}

\* The instances from the cache, the binding from the API server.
ReadBinding ==
    /\ op.pc = "crb"
    /\ op' = [op EXCEPT !.pc = "crbWrite", !.subjects = desiredAuthDelegatorSubjects,
                        !.seen = crb]
    /\ UNCHANGED <<api, crb, due, env>>

\* Variant: a quiet instance does not come back.
AfterBindingQuiet ==
    IF op.fin THEN Goto("scale") /\ UNCHANGED <<due, later>>
    ELSE /\ op' = Idle
         /\ due' = IF op.err THEN due \cup {op.i} ELSE due
         /\ UNCHANGED later

\* Where a pass goes on after the binding: finalize scales down; Reconcile ends,
\* to come again after the resync interval or at once after an error.
AfterBinding ==
    IF op.fin THEN Goto("scale") /\ UNCHANGED <<due, later>>
    ELSE /\ op' = Idle
         /\ IF op.err THEN due' = due \cup {op.i} /\ UNCHANGED later
                      ELSE later' = later \cup {op.i} /\ UNCHANGED due

\* The binding is taken to carry the operator's own roleRef.  With another one
\* (somebody else made a binding of that name) the function fails on every pass and
\* leaves it alone, also in finalize.
applyAuthDelegatorCRB ==
    /\ op.pc = "crbWrite"
    /\ \/ op.seen = op.subjects /\ AfterBinding /\ UNCHANGED <<api, crb>>
       \/ /\ op.seen # op.subjects /\ op.seen = crb
          /\ crb' = op.subjects /\ AfterBinding /\ UNCHANGED api
       \/ op.seen # op.subjects /\ op.seen # crb /\ Retry /\ UNCHANGED later
    /\ UNCHANGED <<cache, call, faults, admin, setting>>

-----------------------------------------------------------------------------
(* finalize.                                                               *)

\* Requeue after two seconds.
Wait == op' = Idle /\ later' = later \cup {op.i}

\* Variant: a Deployment with replicas is left as it is.
ScaleNothing ==
    /\ op.pc = "scale"
    /\ Goto("servers") /\ UNCHANGED <<api, due, crb>>
    /\ UNCHANGED env

scaleMCPToZero ==
    /\ op.pc = "scale"
    /\ LET seen == Read("deploy", op.i) IN
          \/ seen # "up" /\ Goto("servers") /\ UNCHANGED <<api, due, crb>>
          \/ /\ seen = "up" /\ api.deploy[op.i] = "up"
             /\ Put("deploy", op.i, "zero") /\ Goto("servers") /\ UNCHANGED <<due, crb>>
          \/ seen = "up" /\ api.deploy[op.i] # "up" /\ Retry
    /\ UNCHANGED env

\* Variant: scaling down is taken for being down.
ListServersUnwaited ==
    /\ op.pc = "servers"
    /\ Goto("pods") /\ UNCHANGED later
    /\ UNCHANGED <<api, cache, call, crb, due, faults, admin, setting>>

ListServers ==
    /\ op.pc = "servers"
    /\ IF Read("server", op.i) # "none" THEN Wait ELSE Goto("pods") /\ UNCHANGED later
    /\ UNCHANGED <<api, cache, call, crb, due, faults, admin, setting>>

\* DeleteAllOf acts on the API server's objects, not on the cache's.
DeleteSandboxPods ==
    /\ op.pc = "pods"
    /\ Put("sandbox", op.i, IF api.sandbox[op.i] = "none" THEN "none" ELSE "terminating")
    /\ Goto("secrets")
    /\ UNCHANGED <<crb, due, env>>

DeleteSessionSecrets ==
    /\ op.pc = "secrets"
    /\ Put("secret", op.i, FALSE) /\ Goto("recheck")
    /\ UNCHANGED <<crb, due, env>>

Recheck ==
    /\ op.pc = "recheck"
    /\ IF Read("sandbox", op.i) # "none" \/ Read("secret", op.i)
       THEN Wait ELSE Goto("remove") /\ UNCHANGED later
    /\ UNCHANGED <<api, cache, call, crb, due, faults, admin, setting>>

RemoveFinalizer ==
    /\ op.pc = "remove"
    /\ Put("inst", op.i, NoInst) /\ op' = Idle
    /\ UNCHANGED <<crb, due, env>>

\* Any request of a pass may fail; one for a child does not keep the binding from
\* being applied.
RequestFails ==
    /\ op.pc # "idle" /\ faults < setting.faults
    /\ faults' = faults + 1
    /\ IF op.pc = "children" THEN op' = [op EXCEPT !.pc = "crb", !.err = TRUE] /\ UNCHANGED due
       ELSE op' = Idle /\ due' = due \cup {op.i}
    /\ UNCHANGED <<api, cache, call, crb, later, admin, setting>>

PassStep ==
    \/ AddFinalizer \/ EnsureHMAC \/ GetHMAC \/ ApplyChildren \/ ReadBinding
    \/ applyAuthDelegatorCRB \/ scaleMCPToZero \/ ListServers \/ DeleteSandboxPods
    \/ DeleteSessionSecrets \/ Recheck \/ RemoveFinalizer

Next ==
    \/ \E i \in Instances :
          \/ CreateInstance(i) \/ DeleteInstance(i) \/ OwnerGC(i) \/ ServerStep(i)
          \/ SessionSecret(i) \/ SessionPod(i) \/ SandboxRemoved(i)
          \/ TimerFires(i) \/ Reconcile(i)
    \/ \E kind \in Kinds : Deliver(kind)
    \/ AdminDeletesBinding \/ PassStep \/ RequestFails

Spec == Init /\ [][Next]_vars

\* The worker serves its queue in turn, timers fire, watches deliver, and
\* Kubernetes does its part; nothing is assumed of users.
FairSpec ==
    /\ Spec
    /\ WF_vars(PassStep)
    /\ \A i \in Instances :
          /\ SF_vars(Reconcile(i)) /\ WF_vars(TimerFires(i))
          /\ WF_vars(ServerStep(i) \/ SandboxRemoved(i))
    /\ \A kind \in Kinds : WF_vars(Deliver(kind))

-----------------------------------------------------------------------------

Live == {i \in Instances : api.inst[i].state = "live"}

\* "Deleting the custom resource scales the MCP Deployment to zero, waits until
\* its pods are gone, then deletes that instance's sandbox pods and session
\* Secrets" (docs/architecture.md): when the instance is gone none of them is left
\* to stay.
NoOrphans ==
    \A i \in Instances : api.inst[i] = NoInst =>
       api.sandbox[i] # "live" /\ ~api.secret[i]

\* finalize keeps that promise, with requests that fail and servers that go on
\* creating sandboxes while they stop, as long as the Deployment and the server
\* pods it reads are up to date.
FreshListLeavesNoOrphans == setting.lag \cap {"deploy", "server"} = {} => NoOrphans

\* finalize waits for a state that comes: whatever fails a bounded number of
\* times, and however the watches lag, a deleted instance goes (if the shared
\* binding has the operator's roleRef, see applyAuthDelegatorCRB).
DeletionFinishes ==
    \A i \in Instances : api.inst[i].state = "deleting" ~> api.inst[i] = NoInst

\* ensureHMAC "never overwrites an existing Secret": as long as the instance is
\* there its sessions' tokens stay derivable, also when the cache is stale.
HmacIsKept ==
    [][ \A i \in Instances : api.hmac[i] # 0 /\ api'.hmac[i] # api.hmac[i]
                               => api.inst[i] = NoInst ]_vars

\* The shared binding comes to hold the MCP service accounts of the instances
\* there are, though it is computed from a stale list, deleted by others and not
\* watched: as long as an instance stays, its resync mends the binding (its
\* subjects; a binding with a foreign roleRef is left alone).
BindingConverges ==
    \A i, j \in Instances :
       <>[](j \in Live) =>
          /\ <>[](crb # NoBinding /\ j \in crb)
          /\ <>[](i \notin Live) => <>[](crb # NoBinding /\ i \notin crb)

\* An instance is not reconciled any more once its finalizer is gone; its service
\* account has left the binding by then, and no pass of another instance has put
\* it back.
SubjectGoesFirst ==
    [][ \A i \in Instances : api.inst[i].fin /\ api'.inst[i] = NoInst
                               => crb = NoBinding \/ i \notin crb ]_vars

=============================================================================
