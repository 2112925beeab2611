------------------------------- MODULE IdleGC -------------------------------
(***************************************************************************)
(* Idle collection of sessions, internal/controller/idle.go, with what it  *)
(* depends on: the last-activity stamps of the MCP server, the pod watch   *)
(* that does not enqueue on them (watch.go), and the requeue delays that   *)
(* make up for it (pool.go).  Time is relative: the age of a stamp and the *)
(* time left on a timer, so that no bound on the clock is needed.          *)
(***************************************************************************)
EXTENDS Naturals, FiniteSets, FiniteSetsExt

CONSTANTS
    Pods,         \* sandbox pods, one session each
    Timeout,      \* spec.sandbox.idleTimeout
    MinRequeue,   \* minIdleRequeue
    Resync,       \* managedResyncInterval
    PoolDelays,   \* what poolRequeueAfter may return (0: nothing)
    NoTimer,      \* "no delayed requeue is scheduled"
    MaxFaults     \* bound: failed API requests of the operator

ASSUME IdleAssumption ==
    /\ {Timeout, MinRequeue, Resync} \subseteq Nat \ {0}
    /\ PoolDelays \subseteq 0..Resync
    /\ NoTimer \notin Nat
    /\ MaxFaults \in Nat

VARIABLES
    pods,      \* API server: a pod's state and the age of its last-activity
    call,      \* per pod: a bash call on its session
    cache,     \* the operator's copy of pods
    due,       \* the instance is in the work queue
    timer,     \* time left until it is added again
    op,        \* gcIdleAssigned: the expired pods it has still to delete
    faults,    \* failed requests so far
    prompt,    \* the operator and its watch take no time (chosen once)
    behind     \* history variable: time since there was last nothing to do for them

vars == <<pods, call, cache, due, timer, op, faults, prompt, behind>>

\* Ages are told apart up to here.
OldAge == Timeout + MinRequeue + 1

PodRec == [state: {"free", "assigned", "terminating", "gone"}, age: 0..OldAge,
           uid: {0, 1}]

TypeOK ==
    /\ pods \in [Pods -> PodRec] /\ cache \in [Pods -> PodRec]
    /\ call \in [Pods -> {"none", "claim", "running", "stamp"}]
    /\ due \in BOOLEAN
    /\ timer \in Nat \cup {NoTimer}
    /\ op \in [pc: {"idle", "delete"}, todo: SUBSET Pods, delay: 0..Timeout + MinRequeue]
    /\ faults \in 0..MaxFaults
    /\ prompt \in BOOLEAN
    /\ behind \in 0..Timeout

Idle == [pc |-> "idle", todo |-> {}, delay |-> 0]

\* The pool pods have just been created, and the operator is about to see them.
Init ==
    /\ pods = [p \in Pods |-> [state |-> "free", age |-> 0, uid |-> 0]]
    /\ cache = pods
    /\ call = [p \in Pods |-> "none"]
    /\ due = TRUE /\ timer = NoTimer /\ op = Idle /\ faults = 0
    /\ prompt \in BOOLEAN
    /\ behind = 0

-----------------------------------------------------------------------------
(* The MCP server.                                                         *)

\* tryClaimPod's patch sets the label and stamps last-activity.
Claim(p) ==
    /\ pods[p].state = "free" /\ call[p] = "none"
    /\ pods' = [pods EXCEPT ![p].state = "assigned", ![p].age = 0]
    /\ call' = [call EXCEPT ![p] = "claim"]
    /\ UNCHANGED <<cache, due, timer, op, faults, prompt, behind>>

\* The claim goes through, or rollbackLabel takes the label off again; the stamp
\* stays.
ClaimEnds(p) ==
    /\ call[p] = "claim"
    /\ call' = [call EXCEPT ![p] = "none"]
    /\ \/ UNCHANGED pods
       \/ pods[p].state = "assigned" /\ pods' = [pods EXCEPT ![p].state = "free"]
    /\ UNCHANGED <<cache, due, timer, op, faults, prompt, behind>>

\* A new pod, stamped at creation: an on-demand pod takes the name of the old one,
\* a pool pod's name is new to the operator.  (Bound: the watch is at most one
\* pod of that name behind.)
Create(p) ==
    /\ pods[p].state = "gone" /\ call[p] = "none" /\ cache[p].uid = pods[p].uid
    /\ \E state \in {"free", "assigned"} :
          /\ state = "free" => cache[p].state = "gone" /\ p \notin op.todo
          /\ pods' = [pods EXCEPT ![p] = [state |-> state, age |-> 0, uid |-> 1 - @.uid]]
    /\ UNCHANGED <<call, cache, due, timer, op, faults, prompt, behind>>

\* ExecuteCommand stamps nothing before the agent has answered, and nothing at
\* all when the call fails.
StartCall(p) ==
    /\ pods[p].state = "assigned" /\ call[p] = "none"
    /\ call' = [call EXCEPT ![p] = "running"]
    /\ UNCHANGED <<pods, cache, due, timer, op, faults, prompt, behind>>

EndCall(p) ==
    /\ call[p] = "running"
    /\ \/ call' = [call EXCEPT ![p] = "stamp"]
       \/ call' = [call EXCEPT ![p] = "none"]
    /\ UNCHANGED <<pods, cache, due, timer, op, faults, prompt, behind>>

\* The goroutine that updateLastActivity runs in; its patch may fail.
updateLastActivity(p) ==
    /\ call[p] = "stamp"
    /\ pods' = [pods EXCEPT ![p].age = IF pods[p].state = "gone" THEN @ ELSE 0]
    /\ call' = [call EXCEPT ![p] = "none"]
    /\ UNCHANGED <<cache, due, timer, op, faults, prompt, behind>>

-----------------------------------------------------------------------------
(* The watch.                                                              *)

\* Variant: the label is not looked at.
EnqueuesNoLabel(old, new) == old.uid # new.uid \/ (old.state = "gone") # (new.state = "gone")

\* sandboxPodPredicate: creation, deletion, and the session-id label coming or going; not
\* a new last-activity.
Enqueues(old, new) ==
    \/ old.uid # new.uid \/ (old.state = "gone") # (new.state = "gone")
    \/ (old.state = "free") # (new.state = "free")

Deliver(p) ==
    /\ cache[p] # pods[p]
    /\ cache' = [cache EXCEPT ![p] = pods[p]]
    /\ due' = (due \/ Enqueues(cache[p], pods[p]))
    /\ UNCHANGED <<pods, call, timer, op, faults, prompt, behind>>

\* Something else enqueues the instance.
OtherEvent ==
    /\ ~due /\ due' = TRUE
    /\ UNCHANGED <<pods, call, cache, timer, op, faults, prompt, behind>>

-----------------------------------------------------------------------------
(* The operator.                                                           *)

\* Variant: what would expire before the next pass is taken along.
idleExpiredSoon(r) == r.state = "assigned" /\ r.age + MinRequeue > Timeout

idleExpired(r) == r.state = "assigned" /\ r.age >= Timeout

\* soonestIdleRequeue: 0 when there is nothing to wait for.
soonestIdleRequeue(listed) ==
    LET delays == {Timeout - r.age : r \in {r \in listed : r.state = "assigned"
                                                            /\ r.age < Timeout}}
    IN  IF delays = {} THEN 0
        ELSE IF Min(delays) < MinRequeue THEN MinRequeue ELSE Min(delays)

\* The pods are listed from the cache and compared with one reading of the clock.
ListAssigned ==
    /\ due /\ op.pc = "idle"
    /\ due' = FALSE
    /\ op' = [pc |-> "delete", todo |-> {p \in Pods : idleExpired(cache[p])},
              delay |-> soonestIdleRequeue({cache[p] : p \in Pods})]
    /\ UNCHANGED <<pods, call, cache, timer, faults, prompt, behind>>

\* A delete by name, without preconditions, and that of the session's Secret.
DeleteIdle(p) ==
    /\ op.pc = "delete" /\ p \in op.todo
    /\ pods' = [pods EXCEPT ![p].state = IF @ = "gone" THEN @ ELSE "terminating"]
    /\ op' = [op EXCEPT !.todo = @ \ {p}]
    /\ UNCHANGED <<call, cache, due, timer, faults, prompt, behind>>

\* An error, here or earlier in Reconcile, ends the pass; the work queue retries.
Fails ==
    /\ op.pc = "delete" /\ faults < MaxFaults
    /\ op' = Idle /\ due' = TRUE /\ faults' = faults + 1
    /\ UNCHANGED <<pods, call, cache, timer, prompt, behind>>

mergeRequeueAfter(a, b) == IF a = 0 THEN b ELSE IF b = 0 THEN a ELSE Min({a, b})

scheduledRequeueAfter(idle, pool) ==
    LET d == mergeRequeueAfter(idle, pool) IN IF d > 0 THEN d ELSE Resync

\* The queue keeps the earlier of two delayed additions.
AddAfter(d) == timer' = IF timer = NoTimer THEN d ELSE Min({d, timer})

\* Variant: the result carries no delay.
EndPassUnscheduled ==
    /\ op.pc = "delete" /\ op.todo = {}
    /\ op' = Idle
    /\ UNCHANGED <<pods, call, cache, due, timer, faults, prompt, behind>>

EndPass ==
    /\ op.pc = "delete" /\ op.todo = {}
    /\ \E pool \in PoolDelays : AddAfter(scheduledRequeueAfter(op.delay, pool))
    /\ op' = Idle
    /\ UNCHANGED <<pods, call, cache, due, faults, prompt, behind>>

-----------------------------------------------------------------------------
(* Time and the kubelet.                                                   *)

Older(r) == [r EXCEPT !.age = IF @ < OldAge THEN @ + 1 ELSE @]

UpToDate == ~due /\ op.pc = "idle" /\ cache = pods

\* (Times of Timeout and more need not be told apart.)
Tick ==
    /\ prompt => UpToDate
    /\ behind' = IF UpToDate THEN 0 ELSE Min({behind + 1, Timeout})
    /\ pods' = [p \in Pods |-> Older(pods[p])]
    /\ cache' = [p \in Pods |-> Older(cache[p])]
    /\ timer' = IF timer = NoTimer \/ timer <= 1 THEN NoTimer ELSE timer - 1
    /\ due' = (due \/ (timer # NoTimer /\ timer <= 1))
    /\ UNCHANGED <<call, op, faults, prompt>>

PodRemoved(p) ==
    /\ pods[p].state = "terminating"
    /\ pods' = [pods EXCEPT ![p].state = "gone"]
    /\ UNCHANGED <<call, cache, due, timer, op, faults, prompt, behind>>

CallStep(p) ==
    Claim(p) \/ ClaimEnds(p) \/ Create(p) \/ StartCall(p) \/ EndCall(p) \/ updateLastActivity(p)

OperatorStep == ListAssigned \/ (\E p \in Pods : DeleteIdle(p)) \/ Fails \/ EndPass

Next ==
    \/ \E p \in Pods : CallStep(p) \/ Deliver(p) \/ PodRemoved(p)
    \/ OtherEvent
    \/ OperatorStep
    \/ Tick

Spec == Init /\ [][Next]_vars

\* Time passes, the watch delivers, and the controller works its queue off.
FairSpec ==
    /\ Spec
    /\ WF_vars(Tick) /\ WF_vars(OperatorStep)
    /\ \A p \in Pods : WF_vars(Deliver(p))

-----------------------------------------------------------------------------

\* Idle collection is punctual though last-activity patches enqueue nothing: with
\* an operator and a watch that take no time, no session outlives its timeout by
\* more than the minimal requeue delay.
CollectedOnTime ==
    prompt => \A p \in Pods : pods[p].state = "assigned" => pods[p].age <= Timeout + MinRequeue

\* "A quiet session still collects when that delay fires" (ADR 0001): no session
\* stays assigned without calls forever, however late the watch is, whatever
\* requests fail and whatever else schedules passes.  (With a prompt operator the
\* stronger bound above holds, as long as time passes.)
QuietSessionIsCollected ==
    ~prompt => \A p \in Pods : ~<>[](pods[p].state = "assigned" /\ call[p] = "none")

\* Idle collection acts on a list, by name and without preconditions, but it errs
\* only by what happened while it was behind: a pod that it deletes is idle for the
\* timeout, or was stamped or created since the operator last had nothing to do.
ErrsOnlyWhileBehind ==
    [][ \A p \in Pods : pods[p].state # "terminating" /\ pods'[p].state = "terminating"
                          => pods[p].age >= Timeout \/ pods[p].age <= behind ]_vars

\* "The operator deletes assigned pods past idleTimeout" (docs/architecture.md):
\* it deletes a pod whose last activity is that old and no other.
OnlyIdleCollected ==
    [][ \A p \in Pods : pods[p].state # "terminating" /\ pods'[p].state = "terminating"
                          => idleExpired(pods[p]) ]_vars

\* "IdleTimeout is how long an assigned session may be idle before the operator
\* GCs it": a session with a command running is not idle.
BusySessionIsSpared ==
    [][ \A p \in Pods : pods[p].state # "terminating" /\ pods'[p].state = "terminating"
                          => call[p] # "running" ]_vars

=============================================================================
