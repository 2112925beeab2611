----------------------------- MODULE PoolStatus -----------------------------
(***************************************************************************)
(* What an instance's Ready condition says of its warm pool: syncStatus    *)
(* and poolReadyGate, fed by a pass of reconcilePool that looks at the     *)
(* pool before it mutates it and again after.  How a pass chooses pods is  *)
(* modelled in WarmPoolOperator; here pods are slots, and time counts: the *)
(* age of the WarmPoolReady condition and the delay until the next pass.   *)
(***************************************************************************)
EXTENDS Naturals, FiniteSets, FiniteSetsExt

CONSTANTS
    Slots,      \* room for pool pods
    Sizes,      \* values of warmPoolSize
    Deadline,   \* poolReplenishDeadline
    Retry,      \* proxyGateRetry
    Resync,     \* managedResyncInterval
    NoTimer     \* "no delayed requeue is scheduled"

ASSUME StatusAssumption ==
    /\ IsFiniteSet(Slots) /\ Sizes \subseteq Nat
    /\ {Deadline, Retry, Resync} \subseteq Nat \ {0}
    /\ NoTimer \notin Nat

VARIABLES
    size,      \* spec.sandbox.warmPoolSize
    gates,     \* the conditions of readyGate that are not about the pool hold
    pods,      \* API server: the unassigned pods
    cache,     \* the operator's copy
    status,    \* the instance's status; since: age of WarmPoolReady's last change
    due, timer,\* work queue
    op,        \* the pass: the size it read, what it saw before it mutated the pool
    short,     \* history variable: how long passes have found the pool short
    lags,      \* the pod cache may lag behind, and passes take time (chosen once)
    rebuilt    \* history variable: pods of an old overlay were deleted and the
               \* pool has not been full since

vars == <<size, gates, pods, cache, status, due, timer, op, short, lags, rebuilt>>

Long == Deadline + Retry

PodState == {"none", "starting", "ready", "oldstarting", "old", "failed", "terminating"}

Idle == [pc |-> "idle", unhealthy |-> FALSE, rebuild |-> FALSE, closed |-> FALSE, size |-> 0]

TypeOK ==
    /\ size \in Sizes
    /\ pods \in [Slots -> PodState] /\ cache \in [Slots -> PodState]
    /\ status \in [ready: BOOLEAN, warm: BOOLEAN, since: 0..Long, desired: Sizes \cup {0}]
    /\ gates \in BOOLEAN /\ due \in BOOLEAN /\ rebuilt \in BOOLEAN /\ lags \in BOOLEAN
    /\ timer \in 0..Resync \cup {NoTimer}
    /\ op \in [pc: {"idle", "observe"}, unhealthy: BOOLEAN, rebuild: BOOLEAN, closed: BOOLEAN,
              size: Sizes \cup {0}]
    /\ short \in [on: BOOLEAN, for: 0..Long]

\* The instance was just created (the zero value of a missing condition is False).
Init ==
    /\ size \in Sizes /\ gates = TRUE
    /\ pods = [p \in Slots |-> "none"] /\ cache = pods
    /\ status = [ready |-> FALSE, warm |-> FALSE, since |-> 0, desired |-> 0]
    /\ due = TRUE /\ timer = NoTimer
    /\ op = Idle /\ short = [on |-> FALSE, for |-> 0] /\ rebuilt = FALSE
    /\ lags \in BOOLEAN

\* Pods that pass the readiness probe, with the current overlay or an old one.
ReadyIn(ps) == Cardinality({p \in Slots : ps[p] \in {"ready", "old"}})

-----------------------------------------------------------------------------
(* The world outside.                                                      *)

ChangeSize(n) ==
    /\ n # size
    /\ size' = n /\ due' = TRUE
    /\ UNCHANGED <<gates, pods, cache, status, timer, op, short, rebuilt, lags>>

ChangeGates ==
    /\ gates' = ~gates /\ due' = TRUE
    /\ UNCHANGED <<size, pods, cache, status, timer, op, short, rebuilt, lags>>

\* A new image, environment or resource list: the annotation of the pods there are
\* is not the hash any more.
Outdated(ps) ==
    [p \in Slots |-> CASE ps[p] = "ready" -> "old"
                      [] ps[p] = "starting" -> "oldstarting"
                      [] OTHER -> ps[p]]

ChangeOverlay ==
    /\ Outdated(pods) # pods
    /\ pods' = Outdated(pods) /\ cache' = Outdated(cache)
    /\ due' = TRUE
    /\ UNCHANGED <<size, gates, status, timer, op, short, rebuilt, lags>>

\* A change of pods: the watch delivers it at once, or later.
PodsChange(queued) ==
    IF lags THEN cache' = cache /\ due' = queued
    ELSE cache' = pods' /\ due' = (queued \/ pods' # pods)

\* The kubelet, and a claim, which takes a pod out of the pool.
PodStep(p) ==
    /\ \/ pods[p] = "starting" /\ pods' = [pods EXCEPT ![p] = "ready"]
       \/ pods[p] = "oldstarting" /\ pods' = [pods EXCEPT ![p] = "old"]
       \/ pods[p] \in {"starting", "ready"} /\ pods' = [pods EXCEPT ![p] = "failed"]
       \/ pods[p] = "terminating" /\ pods' = [pods EXCEPT ![p] = "none"]
       \/ pods[p] \in {"ready", "old"} /\ pods' = [pods EXCEPT ![p] = "none"]
    /\ PodsChange(due)
    /\ UNCHANGED <<size, gates, status, timer, op, short, rebuilt, lags>>

Deliver ==
    /\ cache # pods
    /\ cache' = pods /\ due' = TRUE
    /\ UNCHANGED <<size, gates, pods, status, timer, op, short, rebuilt, lags>>

-----------------------------------------------------------------------------
(* A pass.                                                                 *)

Bad == {"failed", "old", "oldstarting"}

\* reconcilePool: failed and outdated pods are deleted, then surplus ones; a pod
\* that is deleted but not gone keeps its slot; what is missing is created.
reconcilePool ==
    LET bad == {p \in Slots : cache[p] \in Bad}
        live == {p \in Slots : cache[p] \in {"starting", "ready"}}
        held(deleted) == {p \in Slots : cache[p] = "terminating" \/
                                        (p \in deleted /\ pods[p] # "none")}
        free == {p \in Slots : pods[p] = "none" /\ cache[p] = "none"}
        less(a, b) == IF a > b THEN a - b ELSE 0
        surplus == Min({less(Cardinality(held(bad)) + Cardinality(live), size),
                        Cardinality(live)})
    IN  \E drop \in kSubset(surplus, live) :
           LET used == Cardinality(held(bad \cup drop)) + Cardinality(live \ drop)
           IN  \E new \in kSubset(Min({less(size, used), Cardinality(free)}), free) :
                  /\ pods' = [p \in Slots |->
                                IF p \in bad \cup drop /\ pods[p] # "none" THEN "terminating"
                                ELSE IF p \in new THEN "starting" ELSE pods[p]]
                  /\ rebuilt' = (rebuilt \/ \E p \in bad : pods[p] \in {"old", "oldstarting"})

\* The first half of a pass; behind a closed proxy gate it only looks, and a pool
\* of size zero is emptied without noting why.
AdjustPool ==
    /\ due /\ op.pc = "idle"
    /\ \/ /\ size > 0
          /\ op' = [Idle EXCEPT !.pc = "observe", !.closed = TRUE, !.size = size]
          /\ UNCHANGED <<pods, rebuilt>>
       \/ /\ op' = [pc |-> "observe", closed |-> FALSE, size |-> size,
                     unhealthy |-> size > 0 /\ \E p \in Slots : cache[p] = "failed",
                     rebuild |-> size > 0 /\ \E p \in Slots : cache[p] \in {"old", "oldstarting"}]
          /\ reconcilePool
    /\ PodsChange(FALSE)
    /\ UNCHANGED <<size, gates, status, timer, short, lags>>

\* Variant: the deadline itself does not count.
ShortfallPastDeadlineLate == ~status.warm /\ status.since > Deadline

shortfallPastDeadline == ~status.warm /\ status.since >= Deadline

\* Variant: a shortfall clears Ready at once.
PoolReadyGateStrict(ready, unhealthy) == op.size = 0 \/ (~unhealthy /\ ready >= op.size)

\* Variant: a rebuild counts as a claim.
PoolReadyGateRebuilding(ready, unhealthy) ==
    \/ op.size = 0
    \/ /\ ~unhealthy
       /\ \/ ready >= op.size
          \/ ~(status.desired < op.size \/ ~status.ready) /\ ~shortfallPastDeadline

\* Conditions are those before this pass.
poolReadyGate(ready, unhealthy) ==
    \/ op.size = 0
    \/ /\ ~unhealthy
       /\ \/ ready >= op.size
          \/ /\ ~(status.desired < op.size \/ op.rebuild \/ ~status.ready)
             /\ ~shortfallPastDeadline

\* 0: nothing to wait for.
poolRequeueAfter(ready, unhealthy) ==
    IF op.closed THEN Retry
    ELSE IF op.size = 0 \/ unhealthy \/ ready >= op.size \/ ~status.ready THEN 0
    ELSE IF status.warm THEN Deadline
    ELSE IF status.since < Deadline THEN Deadline - status.since ELSE 0

AddAfter(d) ==
    LET delay == IF d > 0 THEN d ELSE Resync
    IN  timer' = IF timer = NoTimer THEN delay ELSE Min({delay, timer})

\* The second half: the pool is listed again, and the status follows from both
\* looks.
syncStatus ==
    LET ready == ReadyIn(cache)
        unhealthy == op.unhealthy \/ \E p \in Slots : cache[p] = "failed"
        full == op.size = 0 \/ ready >= op.size
        warm == ~unhealthy /\ full
    IN  /\ op.pc = "observe"
        /\ op' = Idle
        /\ status' = [ready |-> gates /\ poolReadyGate(ready, unhealthy), warm |-> warm,
                      since |-> IF warm = status.warm THEN status.since ELSE 0,
                      desired |-> op.size]
        /\ AddAfter(poolRequeueAfter(ready, unhealthy))
        /\ short' = IF full THEN [on |-> FALSE, for |-> 0] ELSE [short EXCEPT !.on = TRUE]
        /\ rebuilt' = (rebuilt /\ ReadyIn(pods) < op.size)
        /\ UNCHANGED <<size, gates, pods, cache, due, lags>>

Tick ==
    /\ lags \/ (~due /\ op.pc = "idle")
    /\ status' = [status EXCEPT !.since = Min({@ + 1, Long})]
    /\ short' = [short EXCEPT !.for = IF short.on THEN Min({@ + 1, Long}) ELSE 0]
    /\ timer' = IF timer = NoTimer \/ timer <= 1 THEN NoTimer ELSE timer - 1
    /\ due' = (due \/ (timer # NoTimer /\ timer <= 1))
    /\ UNCHANGED <<size, gates, pods, cache, op, rebuilt, lags>>

Next ==
    \/ \E n \in Sizes : ChangeSize(n)
    \/ ChangeOverlay \/ ChangeGates
    \/ \E p \in Slots : PodStep(p)
    \/ Deliver \/ AdjustPool \/ syncStatus \/ Tick

Spec == Init /\ [][Next]_vars

-----------------------------------------------------------------------------

\* "A stuck pool must not look Ready" (ADR 0001): when passes have found the pool
\* short for the replenish deadline, Ready is cleared, by a pass that some delay
\* of an earlier one has to schedule.  It is late by less than proxyGateRetry, which
\* is what a pass behind a closed gate asks for instead of what is left.  (With a
\* cache that is up to date and passes that take no time; otherwise it is later by
\* as much.)
ShortfallIsReported == ~lags /\ status.ready => short.for < Deadline + Retry

\* "A later claim does not clear Ready" (docs/architecture.md): only a failed pod,
\* a larger size, a rebuild, another gate, or a shortfall that passes have found
\* for the whole deadline clears it.
ClaimKeepsReady ==
    [][ status.ready /\ ~status'.ready =>
           \/ ~gates \/ op.unhealthy \/ op.rebuild \/ op.size > status.desired
           \/ (\E p \in Slots : cache[p] = "failed")
           \/ short.for >= Deadline ]_vars

\* A status says Ready after a rebuild only with a full pool.
ReadyWhenRebuilt ==
    op.pc = "observe" /\ op'.pc = "idle" /\ status'.ready
       => ~rebuilt \/ op.size = 0 \/ ReadyIn(cache) >= op.size

\* "An unassigned overlay rebuild waits until warmPoolReady meets warmPoolDesired"
\* (ADR 0001): after a pass has deleted pods with an old overlay, and until the pool
\* has been full, no status says Ready while it publishes a smaller count.
RebuildAlwaysWaits == [][ ReadyWhenRebuilt ]_vars

\* The same for a pass whose re-list, in observeAfterMutate, shows its own deletes:
\* the rebuilding pass clears Ready, and the gate holds it down until the pool is
\* full, through claims, failures and edits of the size.
RebuildWaits == [][ ~lags => ReadyWhenRebuilt ]_vars

=============================================================================
