-------------------------- MODULE WarmPoolOperator --------------------------
(***************************************************************************)
(* The operator's side of the warm pool, internal/controller/pool.go:      *)
(* reconcilePool, one pass at a time.  Its reads come from the manager's   *)
(* informer cache; its writes go to the API server.                        *)
(***************************************************************************)
EXTENDS SandboxCluster, Sequences

CONSTANTS
    Sizes,        \* values spec.sandbox.warmPoolSize may take
    Hashes,       \* overlay hashes a spec change may lead to
    MaxEdits,     \* bound: spec changes
    MaxLag,       \* bound: watch events on their way to the cache
    WriteFaults   \* TRUE: an API write of the operator may fail

ASSUME OperatorAssumption ==
    /\ Sizes \subseteq Nat
    /\ Hashes \subseteq Nat
    /\ MaxEdits \in Nat
    /\ MaxLag \in Nat \ {0}
    /\ WriteFaults \in BOOLEAN

VARIABLES
    cache,      \* the informer cache: pod objects as of an earlier moment
    watch,      \* the cluster states the cache has still to go through
    spec,       \* the instance: pool size, overlay hash, times edited
    op          \* reconcilePool: its place and its locals

operatorVars == <<cache, watch, spec, op>>

OpPc == {"idle", "purge", "surplus", "zero", "get", "delete", "occupies", "create"}

\* loop: which loop the delete in progress belongs to
\* todo: pods the loop has still to delete;  target, fresh: the one in hand and
\* its version as re-read;  live: listed pods that are to stay;  term: number of
\* listed terminating pods;  slots: deletedSlots;  deficit: pods to create;
\* synced: history variable, the list was taken from an up-to-date cache;
\* returned: history variable, pods given back to the pool during the pass
OpRec == [pc: OpPc, loop: {"purge", "surplus", "zero"}, desired: Nat, hash: Nat,
          todo: SUBSET Pods, target: Pods \cup {NoPod}, fresh: Nat,
          live: SUBSET Pods, term: Nat, slots: Nat, deficit: Nat, born: Nat,
          synced: BOOLEAN, returned: SUBSET Pods]

Idle == [pc |-> "idle", loop |-> "purge", desired |-> 0, hash |-> 0,
         todo |-> {}, target |-> NoPod, fresh |-> 0,
         live |-> {}, term |-> 0, slots |-> 0, deficit |-> 0, born |-> 0,
         synced |-> FALSE, returned |-> {}]

OperatorTypeOK ==
    /\ cache \in [Pods -> PodRec]
    /\ watch \in Seq([Pods -> PodRec])
    /\ spec \in [size: Sizes, hash: Hashes, edits: 0..MaxEdits]
    /\ op \in OpRec

OperatorInit ==
    /\ cache = [p \in Pods |-> NeverCreated]
    /\ watch = <<>>
    /\ spec \in [size: Sizes, hash: Hashes, edits: {0}]
    /\ op = Idle

-----------------------------------------------------------------------------
(* The watch: every API write becomes an event, delivered in order.        *)

Publish ==
    IF pods' = pods
    THEN UNCHANGED watch
    ELSE Len(watch) < MaxLag /\ watch' = Append(watch, pods')

\* A pod that loses its label while a pass is under way
Returned ==
    op' = [op EXCEPT !.returned =
              IF op.pc = "idle" THEN {}
              ELSE @ \cup {p \in Pods : Assigned(pods[p]) /\ Unassigned(pods'[p])}]

Deliver ==
    /\ watch # <<>>
    /\ cache' = Head(watch)
    /\ watch' = Tail(watch)
    /\ UNCHANGED <<pods, secrets, agents, spec, op>>

-----------------------------------------------------------------------------

poolPodUnhealthy(r) ==
    /\ Unassigned(r) /\ ~Terminating(r)
    /\ isTerminalPod(r) \/ HasUnhealthyWaiting(r)

\* The listed pods reconcilePool deletes before it counts
StaleOrUnhealthy(h) ==
    {p \in Pods : /\ Unassigned(cache[p]) /\ ~Terminating(cache[p])
                  /\ cache[p].hash # h \/ poolPodUnhealthy(cache[p])}

ListedLive == {p \in Pods : Unassigned(cache[p]) /\ ~Terminating(cache[p])}

ListedTerminating == {p \in Pods : Unassigned(cache[p]) /\ Terminating(cache[p])}

\* A pass that may change the pool: list and classify.  (A pass with the proxy
\* gate closed, or without its inputs, only observes: it is not a step.)
StartPass ==
    /\ op.pc = "idle"
    /\ spec.size > 0
    /\ LET bad == StaleOrUnhealthy(spec.hash) IN
       op' = [Idle EXCEPT !.pc = "purge", !.desired = spec.size, !.hash = spec.hash,
                          !.todo = bad, !.live = ListedLive \ bad,
                          !.term = Cardinality(ListedTerminating),
                          !.synced = (cache = pods)]
    /\ UNCHANGED <<cache, watch, spec, pods, secrets, agents>>

\* reconcileZeroPool: no gate, no overlay, every live unassigned pod goes.
StartZeroPass ==
    /\ op.pc = "idle"
    /\ spec.size = 0
    /\ ListedLive # {}
    /\ op' = [Idle EXCEPT !.pc = "zero", !.loop = "zero", !.todo = ListedLive]
    /\ UNCHANGED <<cache, watch, spec, pods, secrets, agents>>

\* deleteUnassignedIfStillUnassigned re-reads the pod, from the cache.
ReGet(p) ==
    /\ op.pc \in {"purge", "surplus", "zero"}
    /\ p \in op.todo
    /\ op.pc # "purge" => p \in Oldest(op.todo)
    /\ op' = [op EXCEPT !.loop = op.pc, !.todo = @ \ {p}, !.target = p,
                        !.fresh = cache[p].rv,
                        !.pc = IF Unassigned(cache[p]) THEN "delete" ELSE "occupies"]
    /\ UNCHANGED <<cache, watch, spec, pods, secrets, agents>>

\* Variant: the delete names the pod only.
PreconditionsUidOnly == InApi(pods[op.target])

\* The delete's UID and resourceVersion preconditions
PreconditionsHold == InApi(pods[op.target]) /\ pods[op.target].rv = op.fresh

\* NotFound and Conflict are not errors: the pod changed, leave it.
DeleteUnassigned ==
    /\ op.pc = "delete"
    /\ IF PreconditionsHold THEN DeletePod(op.target) ELSE UNCHANGED pods
    /\ op' = [op EXCEPT !.pc = "occupies"]
    /\ Publish
    /\ UNCHANGED <<cache, spec, secrets, agents>>

\* Any other error ends the pass.
DeleteError ==
    /\ op.pc = "delete" /\ WriteFaults
    /\ \/ UNCHANGED pods
       \/ PreconditionsHold /\ DeletePod(op.target)
    /\ op' = Idle
    /\ Publish
    /\ UNCHANGED <<cache, spec, secrets, agents>>

\* unassignedOccupiesSlot, again from the cache.  reconcileZeroPool does not
\* count slots.
OccupiesSlot ==
    /\ op.pc = "occupies"
    /\ op' = [op EXCEPT !.pc = op.loop, !.target = NoPod, !.fresh = 0,
                        !.slots = IF op.loop # "zero" /\ Unassigned(cache[op.target])
                                  THEN @ + 1 ELSE @]
    /\ UNCHANGED <<cache, watch, spec, pods, secrets, agents>>

\* Variant: one pod over the desired size is tolerated.
SurplusOneLess ==
    LET occupied == op.term + Cardinality(op.live) + op.slots
        over     == IF occupied > op.desired + 1 THEN occupied - op.desired ELSE 0
    IN  IF over < Cardinality(op.live) THEN over ELSE Cardinality(op.live)

Surplus ==
    LET occupied == op.term + Cardinality(op.live) + op.slots
        over     == IF occupied > op.desired THEN occupied - op.desired ELSE 0
    IN  IF over < Cardinality(op.live) THEN over ELSE Cardinality(op.live)

\* S is what the first n of the live pods, sorted by age, may be.
FirstByAge(S, n) ==
    /\ Cardinality(S) = n
    /\ \A p \in S, q \in op.live \ S : pods[p].born <= pods[q].born

ChooseSurplus ==
    /\ op.pc = "purge"
    /\ op.todo = {}
    /\ \E S \in SUBSET op.live :
          /\ FirstByAge(S, Surplus)
          /\ op' = [op EXCEPT !.pc = "surplus", !.todo = S, !.live = @ \ S]
    /\ UNCHANGED <<cache, watch, spec, pods, secrets, agents>>

\* Variants: without max(.., 0); without the slots of deleted pods.
DeficitUnclamped == op.desired - (op.term + Cardinality(op.live) + op.slots)

DeficitNoSlots ==
    LET kept == op.term + Cardinality(op.live)
    IN  IF op.desired > kept THEN op.desired - kept ELSE 0

Deficit ==
    LET kept == op.term + Cardinality(op.live) + op.slots
    IN  IF op.desired > kept THEN op.desired - kept ELSE 0

ChooseDeficit ==
    /\ op.pc = "surplus"
    /\ op.todo = {}
    /\ op' = [op EXCEPT !.pc = "create", !.deficit = Deficit,
                        !.born = Cardinality({p \in Pods : pods[p].state # "none"})]
    /\ UNCHANGED <<cache, watch, spec, pods, secrets, agents>>

\* Pool pods have fresh UUID names; they are numbered in creation order.
Unused == {p \in Pods : pods[p].state = "none" /\ EnvToken[p] = NoSession}

CreatePod(p) ==
    Write(p, [NeverCreated EXCEPT !.state = "live", !.hash = op.hash, !.born = op.born])

createPoolPod(p) ==
    /\ op.pc = "create" /\ op.deficit > 0
    /\ p \in Unused /\ \A q \in Unused : p <= q
    /\ CreatePod(p)
    /\ op' = [op EXCEPT !.deficit = @ - 1]
    /\ Publish
    /\ UNCHANGED <<cache, spec, secrets, agents>>

CreateError ==
    /\ op.pc = "create" /\ op.deficit > 0 /\ WriteFaults
    /\ \/ UNCHANGED pods
       \/ \E p \in Unused : (\A q \in Unused : p <= q) /\ CreatePod(p)
    /\ op' = Idle
    /\ Publish
    /\ UNCHANGED <<cache, spec, secrets, agents>>

\* observeAfterMutate only reads; the pass is over.  (It is also over when the
\* model has no pod names left.)
EndPass ==
    /\ \/ op.pc = "create" /\ (op.deficit = 0 \/ Unused = {})
       \/ op.pc = "zero" /\ op.todo = {}
    /\ op' = Idle
    /\ UNCHANGED <<cache, watch, spec, pods, secrets, agents>>

OperatorStep ==
    \/ StartPass
    \/ StartZeroPass
    \/ \E p \in Pods : ReGet(p) \/ createPoolPod(p)
    \/ DeleteUnassigned
    \/ DeleteError
    \/ OccupiesSlot
    \/ ChooseSurplus
    \/ ChooseDeficit
    \/ CreateError
    \/ EndPass

-----------------------------------------------------------------------------
(* The environment of the operator.                                        *)

\* The admin edits the instance.
EditSpec(size, hash) ==
    /\ spec.edits < MaxEdits
    /\ size # spec.size \/ hash # spec.hash
    /\ spec' = [size |-> size, hash |-> hash, edits |-> spec.edits + 1]
    /\ UNCHANGED <<cache, watch, op, pods, secrets, agents>>

=============================================================================
