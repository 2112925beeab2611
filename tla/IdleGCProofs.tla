---------------------------- MODULE IdleGCProofs ----------------------------
(***************************************************************************)
(* Idle collection for any number of pods and any durations: with a prompt *)
(* operator no session outlives its timeout by more than minIdleRequeue,   *)
(* and an operator that is behind errs only by what it has not seen.       *)
(***************************************************************************)
EXTENDS IdleGC, WellFoundedInduction, TLAPS

IdleHasNothingToDo == op.pc = "idle" => op.todo = {}

\* The watch hands over stamps late, never early.
CacheIsOlder == \A p \in Pods : pods[p].age <= cache[p].age

\* A pod whose stamp the operator has not seen was stamped or created since it was
\* last up to date, unless it is idle all the same.
UnseenIsRecent ==
    \A p \in Pods : \/ cache[p].age = pods[p].age
                    \/ pods[p].age <= behind \/ pods[p].age >= Timeout

TodoIsIdleOrRecent ==
    \A p \in op.todo : pods[p].age <= behind \/ pods[p].age >= Timeout

\* A pod that the operator has seen end does not come back under its uid.
EndIsFinal ==
    \A p \in Pods :
       cache[p].uid = pods[p].uid /\ cache[p].state \in {"terminating", "gone"}
         => pods[p].state \in {"terminating", "gone"}

TimerIsPositive == timer # NoTimer => timer >= 1

Latest == Timeout + MinRequeue

\* Somebody will look at p in time: a pass is due, this pass deletes p or comes
\* back for it, or the delayed requeue does.
LookedAt(p) ==
    \/ due
    \/ op.pc = "delete" /\ (p \in op.todo \/ (op.delay > 0 /\ pods[p].age + op.delay <= Latest))
    \/ timer # NoTimer /\ pods[p].age + timer <= Latest

\* A pod that the operator knows to be assigned, as long as it has not ended.  (A
\* pod whose label went and came back unseen is one: the watch may not tell.)
Known(p) ==
    /\ cache[p].state = "assigned" /\ cache[p].uid = pods[p].uid
    /\ pods[p].state \in {"free", "assigned"}

KnownIsLookedAt == prompt => \A p \in Pods : Known(p) => LookedAt(p)

BehindInv == TypeOK /\ IdleHasNothingToDo /\ UnseenIsRecent /\ TodoIsIdleOrRecent

PromptInv ==
    /\ CacheIsOlder /\ EndIsFinal /\ TimerIsPositive
    /\ KnownIsLookedAt /\ CollectedOnTime

IInv == BehindInv /\ PromptInv

-----------------------------------------------------------------------------
(* Delays.                                                                 *)

\* Min picks an element, for any set of numbers: < is well-founded.
LEMMA MinOfNaturals ==
    ASSUME NEW S, S \subseteq Nat, S # {}
    PROVE  Min(S) \in S /\ \A y \in S : Min(S) <= y
<1> DEFINE R == {ss \in Nat \X Nat : ss[1] < ss[2]}
<1>1. IsWellFoundedOn(R, Nat)
  BY NatLessThanWellFounded DEF OpToRel
<1>2. PICK x \in S : \A y \in S : ~ (<<y, x>> \in R)
  BY <1>1, WFMin
<1>3. ASSUME NEW y \in S PROVE x <= y
  <2>1. x \in Nat /\ y \in Nat
    OBVIOUS
  <2>2. <<y, x>> \in R <=> y < x
    BY <2>1
  <2>3. ~ (y < x)
    BY <1>2, <2>2
  <2> QED
    BY <2>1, <2>3
<1>4. \A y \in S : x <= y
  BY <1>3
<1> QED
  BY <1>4 DEF Min

\* The smaller of two numbers.
LEMMA MinOfTwo ==
    ASSUME NEW a \in Nat, NEW b \in Nat
    PROVE  Min({a, b}) \in {a, b} /\ Min({a, b}) <= a /\ Min({a, b}) <= b
BY MinOfNaturals

\* soonestIdleRequeue comes back for each listed pod that is assigned and not yet
\* idle, at most minIdleRequeue late.
LEMMA SoonestIsSoon ==
    ASSUME NEW listed, listed \subseteq PodRec
    PROVE  /\ soonestIdleRequeue(listed) \in 0..Latest
           /\ \A r \in listed : r.state = "assigned" /\ r.age < Timeout =>
                /\ soonestIdleRequeue(listed) > 0
                /\ r.age + soonestIdleRequeue(listed) <= Latest
<1> DEFINE waiting == {r \in listed : r.state = "assigned" /\ r.age < Timeout}
           delays == {Timeout - r.age : r \in waiting}
<1>1. Timeout \in Nat /\ Timeout > 0 /\ MinRequeue \in Nat /\ MinRequeue > 0
  BY IdleAssumption
<1>2. \A r \in listed : r.age \in Nat
  BY <1>1 DEF PodRec, OldAge
<1>3. \A d \in delays : d \in Nat /\ d > 0 /\ d <= Timeout
  BY <1>1, <1>2
<1>4. soonestIdleRequeue(listed) = IF delays = {} THEN 0
          ELSE IF Min(delays) < MinRequeue THEN MinRequeue ELSE Min(delays)
  BY DEF soonestIdleRequeue
<1> HIDE DEF delays
<1>5. CASE delays = {}
  <2>1. waiting = {}
    BY <1>5 DEF delays
  <2> QED
    BY <1>1, <1>4, <1>5, <2>1 DEF Latest
<1>6. CASE delays # {}
  <2>1. Min(delays) \in delays /\ \A d \in delays : Min(delays) <= d
    BY <1>3, <1>6, MinOfNaturals
  <2>2. Min(delays) \in Nat /\ Min(delays) > 0 /\ Min(delays) <= Timeout
    BY <2>1, <1>3
  <2>3. ASSUME NEW r \in listed, r.state = "assigned", r.age < Timeout
        PROVE  r.age + soonestIdleRequeue(listed) <= Latest
    <3>1. Min(delays) <= Timeout - r.age
      BY <2>1, <2>3 DEF delays
    <3> QED
      BY <3>1, <2>2, <2>3, <1>1, <1>2, <1>4, <1>6 DEF Latest
  <2> QED
    BY <2>2, <2>3, <1>1, <1>4, <1>6 DEF Latest
<1> QED
  BY <1>5, <1>6

\* The delay that EndPass schedules is positive, and no longer than the idle one.
LEMMA ScheduleIsSoon ==
    ASSUME NEW idle \in Nat, NEW pool \in Nat
    PROVE  /\ scheduledRequeueAfter(idle, pool) \in Nat
           /\ scheduledRequeueAfter(idle, pool) >= 1
           /\ idle > 0 => scheduledRequeueAfter(idle, pool) <= idle
<1>1. Resync \in Nat /\ Resync >= 1
  BY IdleAssumption
<1>2. Min({idle, pool}) \in {idle, pool} /\ Min({idle, pool}) <= idle
  BY MinOfTwo
<1> QED
  BY <1>1, <1>2 DEF scheduledRequeueAfter, mergeRequeueAfter

-----------------------------------------------------------------------------
(* Steps.                                                                  *)

\* Only p changes, to a record with these fields.
Becomes(p, state, age, uid) ==
    /\ pods' \in [Pods -> PodRec]
    /\ pods'[p].state = state /\ pods'[p].age = age /\ pods'[p].uid = uid
    /\ \A q \in Pods \ {p} : pods'[q] = pods[q]

\* What a step of the MCP server or of the kubelet does to one pod: the label comes
\* or goes, the pod is stamped, ends, or is created anew.
PodMoves(p) ==
    \/ UNCHANGED pods
    \/ pods[p].state = "free" /\ Becomes(p, "assigned", 0, pods[p].uid)
    \/ pods[p].state = "assigned" /\ Becomes(p, "free", pods[p].age, pods[p].uid)
    \/ Becomes(p, pods[p].state, 0, pods[p].uid)
    \/ Becomes(p, "gone", pods[p].age, pods[p].uid)
    \/ \E state \in {"free", "assigned"} :
          cache[p].uid = pods[p].uid /\ Becomes(p, state, 0, 1 - pods[p].uid)

\* The durations are numbers.
LEMMA Durations ==
    /\ Timeout \in Nat /\ Timeout > 0 /\ MinRequeue \in Nat /\ MinRequeue > 0
    /\ OldAge \in Nat /\ OldAge > Latest /\ Latest \in Nat /\ Latest > Timeout
BY IdleAssumption DEF OldAge, Latest

\* A record is its fields.
LEMMA RecordIsFields ==
    ASSUME TypeOK, NEW p \in Pods
    PROVE  /\ pods[p] \in PodRec
           /\ pods[p].state \in {"free", "assigned", "terminating", "gone"}
           /\ pods[p].age \in 0..OldAge /\ pods[p].age \in Nat /\ pods[p].uid \in {0, 1}
<1>1. pods[p] \in PodRec
  BY DEF TypeOK
<1> QED
  BY <1>1, Durations DEF PodRec

\* An assignment to one pod's record changes that pod alone.
LEMMA RecordBecomes ==
    ASSUME TypeOK, NEW p \in Pods,
           NEW state \in {"free", "assigned", "terminating", "gone"},
           NEW age \in 0..OldAge, NEW uid \in {0, 1},
           pods' = [pods EXCEPT ![p] = pods'[p]],
           pods'[p] = [state |-> state, age |-> age, uid |-> uid]
    PROVE  Becomes(p, state, age, uid)
<1>1. pods'[p] \in PodRec
  BY DEF PodRec
<1>2. pods' \in [Pods -> PodRec] /\ \A q \in Pods \ {p} : pods'[q] = pods[q]
  BY <1>1 DEF TypeOK
<1>3. pods'[p].state = state /\ pods'[p].age = age /\ pods'[p].uid = uid
  OBVIOUS
<1> QED
  BY <1>2, <1>3 DEF Becomes

SetsState(p, state) == pods' = [pods EXCEPT ![p].state = state]

\* An assignment to the state alone.
LEMMA StateBecomes ==
    ASSUME TypeOK, NEW p \in Pods,
           NEW state \in {"free", "assigned", "terminating", "gone"},
           SetsState(p, state)
    PROVE  Becomes(p, state, pods[p].age, pods[p].uid)
<1>1. pods[p] \in PodRec
  BY RecordIsFields
<1>2. pods'[p] = [state |-> state, age |-> pods[p].age, uid |-> pods[p].uid]
  BY <1>1 DEF SetsState, TypeOK, PodRec
<1>3. pods' = [pods EXCEPT ![p] = pods'[p]]
  BY DEF SetsState, TypeOK
<1>4. pods[p].age \in 0..OldAge /\ pods[p].uid \in {0, 1}
  BY RecordIsFields
<1> QED
  BY <1>2, <1>3, <1>4, RecordBecomes

\* Every action of the MCP server, and the kubelet's, is such a step.
LEMMA CallMoves ==
    ASSUME TypeOK, NEW p \in Pods, CallStep(p) \/ PodRemoved(p)
    PROVE  PodMoves(p)
<1>a. 0 \in 0..OldAge
  BY Durations
<1>b. /\ pods[p].state \in {"free", "assigned", "terminating", "gone"}
      /\ pods[p].age \in 0..OldAge /\ pods[p].uid \in {0, 1}
  BY RecordIsFields
<1>c. pods[p] \in PodRec
  BY RecordIsFields
<1>1. CASE Claim(p)
  <2>1. pods'[p] = [state |-> "assigned", age |-> 0, uid |-> pods[p].uid]
    BY <1>1, <1>c DEF Claim, TypeOK, PodRec
  <2>2. pods' = [pods EXCEPT ![p] = pods'[p]]
    BY <1>1 DEF Claim, TypeOK
  <2>3. Becomes(p, "assigned", 0, pods[p].uid)
    BY <2>1, <2>2, <1>a, <1>b, RecordBecomes
  <2> QED
    BY <2>3, <1>1 DEF Claim, PodMoves
<1>2. CASE ClaimEnds(p)
  <2>1. CASE UNCHANGED pods
    BY <2>1 DEF PodMoves
  <2>2. CASE pods[p].state = "assigned" /\ pods' = [pods EXCEPT ![p].state = "free"]
    <3>1. Becomes(p, "free", pods[p].age, pods[p].uid)
      BY <2>2, StateBecomes DEF SetsState
    <3> QED
      BY <3>1, <2>2 DEF PodMoves
  <2> QED
    BY <1>2, <2>1, <2>2 DEF ClaimEnds
<1>3. CASE Create(p)
  <2>1. PICK state \in {"free", "assigned"} :
           pods' = [pods EXCEPT ![p] = [state |-> state, age |-> 0, uid |-> 1 - pods[p].uid]]
    BY <1>3 DEF Create, TypeOK
  <2>2. 1 - pods[p].uid \in {0, 1}
    BY <1>b
  <2>3. pods'[p] = [state |-> state, age |-> 0, uid |-> 1 - pods[p].uid]
    BY <2>1 DEF TypeOK
  <2>4. Becomes(p, state, 0, 1 - pods[p].uid)
    BY <2>1, <2>2, <2>3, <1>a, RecordBecomes
  <2> QED
    BY <2>4, <1>3 DEF Create, PodMoves
<1>4. CASE StartCall(p) \/ EndCall(p)
  BY <1>4 DEF StartCall, EndCall, PodMoves
<1>5. CASE updateLastActivity(p)
  <2> DEFINE age == IF pods[p].state = "gone" THEN pods[p].age ELSE 0
  <2>1. pods'[p] = [state |-> pods[p].state, age |-> age, uid |-> pods[p].uid]
    BY <1>5, <1>c DEF updateLastActivity, TypeOK, PodRec
  <2>2. pods' = [pods EXCEPT ![p] = pods'[p]]
    BY <1>5 DEF updateLastActivity, TypeOK
  <2>3. age \in 0..OldAge
    BY <1>a, <1>b
  <2>4. Becomes(p, pods[p].state, age, pods[p].uid)
    BY <2>1, <2>2, <2>3, <1>b, RecordBecomes
  <2> QED
    BY <2>4 DEF PodMoves
<1>6. CASE PodRemoved(p)
  <2>1. Becomes(p, "gone", pods[p].age, pods[p].uid)
    BY <1>6, StateBecomes DEF PodRemoved, SetsState
  <2> QED
    BY <2>1 DEF PodMoves
<1> QED
  BY <1>1, <1>2, <1>3, <1>4, <1>5, <1>6 DEF CallStep

\* And it touches nothing of the operator's.
LEMMA CallFrame ==
    ASSUME TypeOK, NEW p \in Pods, CallStep(p) \/ PodRemoved(p)
    PROVE  /\ UNCHANGED <<cache, due, timer, op, faults, prompt, behind>>
           /\ call' \in [Pods -> {"none", "claim", "running", "stamp"}]
BY DEF CallStep, PodRemoved, Claim, ClaimEnds, Create, StartCall, EndCall,
       updateLastActivity, TypeOK

\* A moved pod: its age goes to 0 or stays, and p's uid stays or becomes one that
\* the operator has not seen.
LEMMA MovesBound ==
    ASSUME TypeOK, NEW p \in Pods, PodMoves(p), NEW q \in Pods
    PROVE  /\ pods' \in [Pods -> PodRec]
           /\ pods'[q].age = pods[q].age \/ pods'[q].age = 0
           /\ \/ pods'[q].uid # cache[q].uid
              \/ /\ pods'[q].uid = pods[q].uid
                 /\ \/ pods'[q].state = pods[q].state
                    \/ pods'[q].state = "gone"
                    \/ pods'[q].state \in {"free", "assigned"} /\ pods[q].state \in {"free", "assigned"}
<1>1. pods[p].uid \in {0, 1}
  BY RecordIsFields
<1>2. CASE UNCHANGED pods
  BY <1>2 DEF TypeOK
<1>3. CASE ~UNCHANGED pods
  <2>1. pods' \in [Pods -> PodRec] /\ \A r \in Pods \ {p} : pods'[r] = pods[r]
    BY <1>3 DEF PodMoves, Becomes
  <2>2. CASE q # p
    BY <2>1, <2>2
  <2>3. CASE q = p
    BY <1>1, <1>3, <2>1, <2>3 DEF PodMoves, Becomes
  <2> QED
    BY <2>2, <2>3
<1> QED
  BY <1>2, <1>3

\* Ages in the API server and in the cache are numbers; Older adds one up to OldAge.
LEMMA OlderRecord ==
    ASSUME NEW r \in PodRec
    PROVE  /\ Older(r) \in PodRec
           /\ Older(r).state = r.state /\ Older(r).uid = r.uid
           /\ Older(r).age = IF r.age < OldAge THEN r.age + 1 ELSE r.age
           /\ r.age \in Nat /\ r.age <= OldAge
BY Durations DEF PodRec, Older

\* Type correctness of every step.
LEMMA TypeNext == TypeOK /\ [Next]_vars => TypeOK'
<1> SUFFICES ASSUME TypeOK, [Next]_vars PROVE TypeOK'
  OBVIOUS
<1>1. ASSUME NEW p \in Pods, CallStep(p) \/ PodRemoved(p) PROVE TypeOK'
  <2>1. pods' \in [Pods -> PodRec]
    BY <1>1, CallMoves, MovesBound
  <2>2. /\ UNCHANGED <<cache, due, timer, op, faults, prompt, behind>>
        /\ call' \in [Pods -> {"none", "claim", "running", "stamp"}]
    BY <1>1, CallFrame
  <2> QED
    BY <2>1, <2>2 DEF TypeOK
<1>2. ASSUME NEW p \in Pods, Deliver(p) PROVE TypeOK'
  BY <1>2 DEF TypeOK, Deliver
<1>3. CASE OtherEvent
  BY <1>3 DEF TypeOK, OtherEvent
<1>4. CASE ListAssigned
  <2>1. {cache[p] : p \in Pods} \subseteq PodRec
    BY DEF TypeOK
  <2>2. soonestIdleRequeue({cache[p] : p \in Pods}) \in 0..Latest
    BY <2>1, SoonestIsSoon
  <2> QED
    BY <1>4, <2>2 DEF TypeOK, ListAssigned, Latest
<1>5. ASSUME NEW p \in Pods, DeleteIdle(p) PROVE TypeOK'
  <2> DEFINE state == IF pods[p].state = "gone" THEN "gone" ELSE "terminating"
  <2>1. pods' = [pods EXCEPT ![p].state = state]
    BY <1>5 DEF DeleteIdle, TypeOK
  <2>2. state \in {"free", "assigned", "terminating", "gone"}
    OBVIOUS
  <2> HIDE DEF state
  <2>3. pods' \in [Pods -> PodRec]
    BY <2>1, <2>2, StateBecomes DEF Becomes, SetsState
  <2> QED
    BY <1>5, <2>3 DEF DeleteIdle, TypeOK
<1>6. CASE Fails
  <2>1. Timeout + MinRequeue \in Nat /\ MaxFaults \in Nat
    BY IdleAssumption
  <2> QED
    BY <1>6, <2>1 DEF TypeOK, Fails, Idle
<1>7. CASE EndPass
  <2>1. PICK pool \in PoolDelays : AddAfter(scheduledRequeueAfter(op.delay, pool))
    BY <1>7 DEF EndPass
  <2>2. pool \in Nat /\ op.delay \in Nat
    BY IdleAssumption DEF TypeOK
  <2>3. scheduledRequeueAfter(op.delay, pool) \in Nat
    BY <2>2, ScheduleIsSoon
  <2>4. timer' \in Nat \cup {NoTimer}
    BY <2>1, <2>3, MinOfTwo DEF AddAfter, TypeOK
  <2>5. Timeout + MinRequeue \in Nat
    BY IdleAssumption
  <2> QED
    BY <1>7, <2>4, <2>5 DEF TypeOK, EndPass, Idle
<1>8. CASE Tick
  <2>1. pods' \in [Pods -> PodRec] /\ cache' \in [Pods -> PodRec]
    BY <1>8, OlderRecord DEF Tick, TypeOK
  <2>2. behind' \in 0..Timeout
    BY <1>8, Durations, MinOfTwo DEF Tick, TypeOK
  <2>3. timer' \in Nat \cup {NoTimer}
    BY <1>8 DEF Tick, TypeOK
  <2>4. due' \in BOOLEAN
    BY <1>8 DEF Tick, TypeOK
  <2> QED
    BY <1>8, <2>1, <2>2, <2>3, <2>4 DEF Tick, TypeOK
<1>9. CASE UNCHANGED vars
  BY <1>9 DEF vars, TypeOK
<1> QED
  BY <1>1, <1>2, <1>3, <1>4, <1>5, <1>6, <1>7, <1>8, <1>9 DEF Next, OperatorStep

\* DeleteIdle ends p, or finds it gone, and leaves the others alone.
LEMMA DeleteEnds ==
    ASSUME TypeOK, NEW p \in Pods, DeleteIdle(p)
    PROVE  \E state \in {"terminating", "gone"} : Becomes(p, state, pods[p].age, pods[p].uid)
<1> DEFINE state == IF pods[p].state = "gone" THEN "gone" ELSE "terminating"
<1>1. pods' = [pods EXCEPT ![p].state = state]
  BY DEF DeleteIdle, TypeOK
<1>2. state \in {"free", "assigned", "terminating", "gone"} /\ state \in {"terminating", "gone"}
  OBVIOUS
<1> HIDE DEF state
<1>3. Becomes(p, state, pods[p].age, pods[p].uid)
  BY <1>1, <1>2, StateBecomes DEF SetsState
<1> QED
  BY <1>2, <1>3

\* What Tick does to the ages.
LEMMA TickAges ==
    ASSUME TypeOK, Tick, NEW p \in Pods
    PROVE  /\ pods'[p].age = IF pods[p].age < OldAge THEN pods[p].age + 1 ELSE pods[p].age
           /\ cache'[p].age = IF cache[p].age < OldAge THEN cache[p].age + 1 ELSE cache[p].age
           /\ pods'[p].state = pods[p].state /\ cache'[p].state = cache[p].state
           /\ pods'[p].uid = pods[p].uid /\ cache'[p].uid = cache[p].uid
           /\ pods[p].age \in Nat /\ pods[p].age <= OldAge
           /\ cache[p].age \in Nat /\ cache[p].age <= OldAge
<1>1. pods[p] \in PodRec /\ cache[p] \in PodRec
  BY DEF TypeOK
<1>2. pods'[p] = Older(pods[p]) /\ cache'[p] = Older(cache[p])
  BY DEF Tick
<1> QED
  BY <1>1, <1>2, OlderRecord

-----------------------------------------------------------------------------
(* The invariant.                                                          *)

\* At the start the operator is about to see new, unassigned pods.
LEMMA InitInv == Init => IInv
<1> SUFFICES ASSUME Init PROVE IInv
  OBVIOUS
<1>1. TypeOK
  <2>1. [state |-> "free", age |-> 0, uid |-> 0] \in PodRec
    BY Durations DEF PodRec
  <2>2. Timeout + MinRequeue \in Nat /\ MaxFaults \in Nat /\ Timeout \in Nat
    BY IdleAssumption
  <2> QED
    BY <2>1, <2>2 DEF Init, TypeOK, Idle
<1>2. \A p \in Pods : pods[p].age = 0 /\ cache[p].age = 0 /\ cache[p].state = "free"
                       /\ pods[p].state = "free"
  BY DEF Init
<1>3. op.todo = {} /\ timer = NoTimer
  BY DEF Init, Idle
<1>4. BehindInv
  BY <1>1, <1>2, <1>3 DEF BehindInv, IdleHasNothingToDo, UnseenIsRecent, TodoIsIdleOrRecent
<1>5. PromptInv
  BY <1>2, <1>3 DEF PromptInv, CacheIsOlder, EndIsFinal, TimerIsPositive,
                    KnownIsLookedAt, Known, CollectedOnTime
<1> QED
  BY <1>4, <1>5 DEF IInv

\* Each step keeps what the operator may get wrong within the time it is behind.
LEMMA BehindNext == BehindInv /\ [Next]_vars => BehindInv'
<1> SUFFICES ASSUME BehindInv, [Next]_vars
             PROVE  (IdleHasNothingToDo /\ UnseenIsRecent /\ TodoIsIdleOrRecent)'
  BY TypeNext DEF BehindInv
<1>a. TypeOK /\ op.todo \subseteq Pods /\ behind \in Nat /\ behind <= Timeout
  BY Durations DEF BehindInv, TypeOK
<1> USE DEF BehindInv, IdleHasNothingToDo, UnseenIsRecent, TodoIsIdleOrRecent
<1>1. ASSUME NEW p \in Pods, CallStep(p) \/ PodRemoved(p)
      PROVE  (IdleHasNothingToDo /\ UnseenIsRecent /\ TodoIsIdleOrRecent)'
  <2>1. UNCHANGED <<cache, op, behind>>
    BY <1>1, <1>a, CallFrame
  <2>2. \A q \in Pods : pods'[q].age = pods[q].age \/ pods'[q].age = 0
    BY <1>1, <1>a, CallMoves, MovesBound
  <2> QED
    BY <2>1, <2>2, <1>a
<1>2. ASSUME NEW p \in Pods, Deliver(p)
      PROVE  (IdleHasNothingToDo /\ UnseenIsRecent /\ TodoIsIdleOrRecent)'
  <2>1. UNCHANGED <<pods, op, behind>>
    BY <1>2 DEF Deliver
  <2>2. \A q \in Pods : cache'[q] = cache[q] \/ cache'[q] = pods[q]
    BY <1>2, <1>a DEF Deliver, TypeOK
  <2> QED
    BY <2>1, <2>2
<1>3. CASE OtherEvent
  BY <1>3 DEF OtherEvent
<1>4. CASE ListAssigned
  <2>1. op'.pc = "delete" /\ \A p \in op'.todo : p \in Pods /\ cache[p].age >= Timeout
    BY <1>4 DEF ListAssigned, idleExpired
  <2>2. UNCHANGED <<pods, cache, behind>>
    BY <1>4 DEF ListAssigned
  <2> QED
    BY <2>1, <2>2
<1>5. ASSUME NEW p \in Pods, DeleteIdle(p)
      PROVE  (IdleHasNothingToDo /\ UnseenIsRecent /\ TodoIsIdleOrRecent)'
  <2>1. \A q \in Pods : pods'[q].age = pods[q].age
    BY <1>5, <1>a, DeleteEnds DEF Becomes
  <2>2. UNCHANGED <<cache, behind>> /\ op'.pc = op.pc /\ op'.todo = op.todo \ {p}
    BY <1>5 DEF DeleteIdle, TypeOK
  <2>3. op.pc = "delete"
    BY <1>5 DEF DeleteIdle
  <2> QED
    BY <2>1, <2>2, <2>3, <1>a
<1>6. CASE Fails \/ EndPass
  <2>1. UNCHANGED <<pods, cache, behind>> /\ op' = Idle
    BY <1>6 DEF Fails, EndPass
  <2> QED
    BY <2>1 DEF Idle
<1>7. CASE Tick
  <2>1. UNCHANGED op
    BY <1>7 DEF Tick
  <2>2. CASE UpToDate
    <3>1. cache = pods /\ op.todo = {}
      BY <2>2 DEF UpToDate
    <3>2. \A p \in Pods : cache'[p].age = pods'[p].age
      BY <3>1, <1>7, <1>a, TickAges
    <3> QED
      BY <2>1, <3>1, <3>2
  <2>3. CASE ~UpToDate
    <3>1. behind' = Min({behind + 1, Timeout})
      BY <1>7, <2>3 DEF Tick
    <3>2. behind' = IF behind < Timeout THEN behind + 1 ELSE Timeout
      <4>1. Min({behind + 1, Timeout}) \in {behind + 1, Timeout}
            /\ Min({behind + 1, Timeout}) <= behind + 1
            /\ Min({behind + 1, Timeout}) <= Timeout
        BY <1>a, Durations, MinOfTwo
      <4> QED
        BY <3>1, <4>1, <1>a, Durations
    <3>3. ASSUME NEW p \in Pods, pods[p].age <= behind \/ pods[p].age >= Timeout
          PROVE  pods'[p].age <= behind' \/ pods'[p].age >= Timeout
      BY <3>2, <3>3, <1>7, <1>a, TickAges, Durations
    <3>4. ASSUME NEW p \in Pods, cache[p].age = pods[p].age
          PROVE  cache'[p].age = pods'[p].age
      BY <3>4, <1>7, <1>a, TickAges
    <3> QED
      BY <2>1, <3>3, <3>4, <1>a
  <2> QED
    BY <2>2, <2>3
<1>8. CASE UNCHANGED vars
  BY <1>8 DEF vars
<1> QED
  BY <1>1, <1>2, <1>3, <1>4, <1>5, <1>6, <1>7, <1>8 DEF Next, OperatorStep

\* The watch is late and never wrong, and a timer never stands at zero.
LEMMA WatchNext ==
    ASSUME TypeOK, CacheIsOlder, EndIsFinal, TimerIsPositive, [Next]_vars
    PROVE  (CacheIsOlder /\ EndIsFinal /\ TimerIsPositive)'
<1>a. \A p \in Pods : pods[p].age \in Nat /\ cache[p].age \in Nat
  BY Durations DEF TypeOK, PodRec
<1> USE DEF CacheIsOlder, EndIsFinal, TimerIsPositive
<1>1. ASSUME NEW p \in Pods, CallStep(p) \/ PodRemoved(p)
      PROVE  (CacheIsOlder /\ EndIsFinal /\ TimerIsPositive)'
  <2>1. UNCHANGED <<cache, timer>>
    BY <1>1, CallFrame
  <2>2. ASSUME NEW q \in Pods
        PROVE  /\ pods'[q].age <= cache[q].age
               /\ cache[q].uid = pods'[q].uid /\ cache[q].state \in {"terminating", "gone"}
                    => pods'[q].state \in {"terminating", "gone"}
    <3>1. PodMoves(p)
      BY <1>1, CallMoves
    <3>2. pods'[q].age = pods[q].age \/ pods'[q].age = 0
      BY <3>1, MovesBound
    <3>3. \/ pods'[q].uid # cache[q].uid
          \/ /\ pods'[q].uid = pods[q].uid
             /\ \/ pods'[q].state = pods[q].state
                \/ pods'[q].state = "gone"
                \/ pods'[q].state \in {"free", "assigned"} /\ pods[q].state \in {"free", "assigned"}
      BY <3>1, MovesBound
    <3> QED
      BY <3>2, <3>3, <1>a
  <2> QED
    BY <2>1, <2>2
<1>2. ASSUME NEW p \in Pods, Deliver(p)
      PROVE  (CacheIsOlder /\ EndIsFinal /\ TimerIsPositive)'
  <2>1. UNCHANGED <<pods, timer>>
    BY <1>2 DEF Deliver
  <2>2. \A q \in Pods : cache'[q] = cache[q] \/ cache'[q] = pods[q]
    BY <1>2 DEF Deliver, TypeOK
  <2> QED
    BY <2>1, <2>2, <1>a
<1>3. CASE OtherEvent \/ ListAssigned \/ Fails
  BY <1>3 DEF OtherEvent, ListAssigned, Fails
<1>4. ASSUME NEW p \in Pods, DeleteIdle(p)
      PROVE  (CacheIsOlder /\ EndIsFinal /\ TimerIsPositive)'
  <2>1. UNCHANGED <<cache, timer>>
    BY <1>4 DEF DeleteIdle
  <2>2. \A q \in Pods : /\ pods'[q].age = pods[q].age /\ pods'[q].uid = pods[q].uid
                        /\ \/ pods'[q].state = pods[q].state
                           \/ pods'[q].state \in {"terminating", "gone"}
    BY <1>4, DeleteEnds DEF Becomes
  <2> QED
    BY <2>1, <2>2
<1>5. CASE EndPass
  <2>1. UNCHANGED <<pods, cache>>
    BY <1>5 DEF EndPass
  <2>2. PICK pool \in PoolDelays : AddAfter(scheduledRequeueAfter(op.delay, pool))
    BY <1>5 DEF EndPass
  <2>3. pool \in Nat /\ op.delay \in Nat
    BY IdleAssumption DEF TypeOK
  <2>4. scheduledRequeueAfter(op.delay, pool) \in Nat
        /\ scheduledRequeueAfter(op.delay, pool) >= 1
    BY <2>3, ScheduleIsSoon
  <2>5. timer' # NoTimer => timer' >= 1
    BY <2>2, <2>4, MinOfTwo DEF AddAfter, TypeOK
  <2> QED
    BY <2>1, <2>5
<1>6. CASE Tick
  <2>1. \A p \in Pods : pods'[p].age <= cache'[p].age
    BY <1>6, TickAges, Durations
  <2>2. \A p \in Pods : /\ pods'[p].state = pods[p].state /\ cache'[p].state = cache[p].state
                        /\ pods'[p].uid = pods[p].uid /\ cache'[p].uid = cache[p].uid
    BY <1>6, TickAges
  <2>3. timer' # NoTimer => timer' >= 1
    BY <1>6 DEF Tick, TypeOK
  <2> QED
    BY <2>1, <2>2, <2>3
<1>7. CASE UNCHANGED vars
  BY <1>7 DEF vars
<1> QED
  BY <1>1, <1>2, <1>3, <1>4, <1>5, <1>6, <1>7 DEF Next, OperatorStep

\* A prompt operator that knows of an assigned pod keeps an eye on it.
LEMMA LookedNext ==
    ASSUME TypeOK, IdleHasNothingToDo, CacheIsOlder, EndIsFinal, TimerIsPositive,
           KnownIsLookedAt, [Next]_vars
    PROVE  KnownIsLookedAt'
<1> SUFFICES ASSUME prompt', NEW p \in Pods, Known(p)' PROVE LookedAt(p)'
  BY DEF KnownIsLookedAt
<1>a. prompt /\ prompt' = prompt
  BY DEF Next, OperatorStep, CallStep, Claim, ClaimEnds, Create, StartCall, EndCall,
         updateLastActivity, Deliver, PodRemoved, OtherEvent, ListAssigned, DeleteIdle,
         Fails, EndPass, Tick, vars
<1>b. pods[p].age \in Nat /\ cache[p].age \in Nat /\ pods[p].age <= cache[p].age
  BY Durations DEF TypeOK, PodRec, CacheIsOlder
<1>c. Known(p) => LookedAt(p)
  BY <1>a DEF KnownIsLookedAt
<1>d. op.delay \in Nat /\ op.todo \subseteq Pods /\ timer \in Nat \cup {NoTimer}
  BY IdleAssumption DEF TypeOK
<1>1. ASSUME NEW q \in Pods, CallStep(q) \/ PodRemoved(q) PROVE LookedAt(p)'
  <2>1. UNCHANGED <<cache, due, timer, op>>
    BY <1>1, CallFrame
  <2>2. PodMoves(q)
    BY <1>1, CallMoves
  <2>3. pods'[p].age = pods[p].age \/ pods'[p].age = 0
    BY <2>2, MovesBound
  <2>4. Known(p)
    <3>1. \/ pods'[p].uid # cache[p].uid
          \/ /\ pods'[p].uid = pods[p].uid
             /\ \/ pods'[p].state = pods[p].state
                \/ pods'[p].state = "gone"
                \/ pods'[p].state \in {"free", "assigned"} /\ pods[p].state \in {"free", "assigned"}
      BY <2>2, MovesBound
    <3> QED
      BY <2>1, <3>1 DEF Known
  <2> QED
    BY <2>1, <2>3, <2>4, <1>b, <1>c, <1>d, Durations DEF LookedAt
<1>2. ASSUME NEW q \in Pods, Deliver(q) PROVE LookedAt(p)'
  <2>1. UNCHANGED <<pods, op, timer>> /\ due' = (due \/ Enqueues(cache[q], pods[q]))
    BY <1>2 DEF Deliver
  <2>2. CASE Known(p)
    BY <2>1, <2>2, <1>c DEF LookedAt
  <2>3. CASE ~Known(p)
    <3>1. q = p /\ cache'[p] = pods[p]
      BY <1>2, <2>1, <2>3 DEF Deliver, Known, TypeOK
    <3>2. pods[p].state = "assigned"
      BY <2>1, <3>1 DEF Known
    <3>3. cache[p].state \in {"free", "assigned", "terminating", "gone"}
      BY DEF TypeOK, PodRec
    <3>4. cache[p].uid # pods[p].uid \/ cache[p].state = "free"
      BY <2>3, <3>2, <3>3 DEF Known, EndIsFinal
    <3>5. Enqueues(cache[q], pods[q])
      BY <3>1, <3>2, <3>4 DEF Enqueues
    <3> QED
      BY <2>1, <3>5 DEF LookedAt
  <2> QED
    BY <2>2, <2>3
<1>3. CASE OtherEvent \/ Fails
  BY <1>3 DEF OtherEvent, Fails, LookedAt
<1>4. CASE ListAssigned
  <2> DEFINE listed == {cache[r] : r \in Pods}
             delay == soonestIdleRequeue(listed)
  <2>1. /\ op'.pc = "delete" /\ op'.delay = delay
        /\ op'.todo = {r \in Pods : idleExpired(cache[r])}
    BY <1>4 DEF ListAssigned
  <2>2. UNCHANGED <<pods, cache>> /\ cache[p].state = "assigned"
    BY <1>4 DEF ListAssigned, Known
  <2>3. listed \subseteq PodRec /\ cache[p] \in listed
    BY DEF TypeOK
  <2>4. CASE cache[p].age >= Timeout
    BY <2>1, <2>2, <2>4 DEF idleExpired, LookedAt
  <2>5. CASE cache[p].age < Timeout
    <3>1. delay \in Nat /\ delay > 0 /\ cache[p].age + delay <= Latest
      BY <2>2, <2>3, <2>5, SoonestIsSoon, Durations
    <3>2. pods[p].age + delay <= Latest
      BY <3>1, <1>b, Durations
    <3> HIDE DEF delay
    <3> QED
      BY <2>1, <2>2, <3>1, <3>2 DEF LookedAt
  <2> QED
    BY <2>4, <2>5, <1>b, Durations
<1>5. ASSUME NEW q \in Pods, DeleteIdle(q) PROVE LookedAt(p)'
  <2>1. UNCHANGED <<cache, due, timer>>
    BY <1>5 DEF DeleteIdle
  <2>2. op'.pc = op.pc /\ op'.todo = op.todo \ {q} /\ op'.delay = op.delay
    BY <1>5 DEF DeleteIdle, TypeOK
  <2>3. p # q /\ pods'[p] = pods[p]
    BY <1>5, DeleteEnds DEF Becomes, Known
  <2> QED
    BY <2>1, <2>2, <2>3, <1>c DEF LookedAt, Known
<1>6. CASE EndPass
  <2>1. UNCHANGED <<pods, cache, due>> /\ op.todo = {} /\ op.pc = "delete"
    BY <1>6 DEF EndPass
  <2>2. PICK pool \in PoolDelays : AddAfter(scheduledRequeueAfter(op.delay, pool))
    BY <1>6 DEF EndPass
  <2>3. pool \in Nat
    BY IdleAssumption
  <2> DEFINE d == scheduledRequeueAfter(op.delay, pool)
  <2>4. d \in Nat /\ (op.delay > 0 => d <= op.delay)
    BY <2>3, <1>d, ScheduleIsSoon
  <2> HIDE DEF d
  <2>5. timer' = IF timer = NoTimer THEN d ELSE Min({d, timer})
    BY <2>2 DEF AddAfter, d
  <2>6. timer' \in Nat /\ timer' <= d /\ (timer # NoTimer => timer' <= timer)
    BY <2>4, <2>5, <1>d, MinOfTwo
  <2>7. timer' # NoTimer
    BY <2>6, IdleAssumption
  <2>8. \/ due
        \/ op.delay > 0 /\ pods[p].age + op.delay <= Latest
        \/ timer # NoTimer /\ pods[p].age + timer <= Latest
    <3>1. Known(p)
      BY <2>1 DEF Known
    <3> QED
      BY <3>1, <2>1, <1>c DEF LookedAt
  <2>9. due \/ pods[p].age + timer' <= Latest
    BY <2>4, <2>6, <2>8, <1>b, <1>d, Durations
  <2> QED
    BY <2>1, <2>7, <2>9 DEF LookedAt
<1>7. CASE Tick
  <2>1. ~due /\ op.pc = "idle"
    BY <1>7, <1>a DEF Tick, UpToDate
  <2>2. Known(p)
    <3>1. /\ pods'[p].state = pods[p].state /\ cache'[p].state = cache[p].state
          /\ pods'[p].uid = pods[p].uid /\ cache'[p].uid = cache[p].uid
      BY <1>7, TickAges
    <3> QED
      BY <3>1 DEF Known
  <2>3. timer # NoTimer /\ pods[p].age + timer <= Latest
    BY <2>1, <2>2, <1>c DEF LookedAt
  <2>4. pods'[p].age <= pods[p].age + 1 /\ pods'[p].age \in Nat
    <3>1. pods'[p].age = IF pods[p].age < OldAge THEN pods[p].age + 1 ELSE pods[p].age
      BY <1>7, TickAges
    <3> QED
      BY <3>1, <1>b
  <2>5. CASE timer <= 1
    BY <1>7, <2>3, <2>5 DEF Tick, LookedAt
  <2>6. CASE ~(timer <= 1)
    <3>1. timer' = timer - 1
      BY <1>7, <2>3, <2>6 DEF Tick
    <3>2. timer' \in Nat /\ pods'[p].age + timer' <= Latest
      BY <3>1, <2>3, <2>4, <2>6, <1>b, <1>d, Durations
    <3>3. timer' # NoTimer
      BY <3>2, IdleAssumption
    <3> QED
      BY <3>2, <3>3 DEF LookedAt
  <2> QED
    BY <2>5, <2>6
<1>8. CASE UNCHANGED vars
  BY <1>8, <1>c DEF vars, Known, LookedAt
<1> QED
  BY <1>1, <1>2, <1>3, <1>4, <1>5, <1>6, <1>7, <1>8 DEF Next, OperatorStep

\* The age of an assigned session is bounded: time passes for a prompt operator only
\* while a timer runs for it.
LEMMA OnTimeNext ==
    ASSUME TypeOK, CollectedOnTime, KnownIsLookedAt, TimerIsPositive, [Next]_vars
    PROVE  CollectedOnTime'
<1> SUFFICES ASSUME prompt', NEW p \in Pods, pods'[p].state = "assigned"
             PROVE  pods'[p].age <= Latest
  BY DEF CollectedOnTime, Latest
<1>a. prompt
  BY DEF Next, OperatorStep, CallStep, Claim, ClaimEnds, Create, StartCall, EndCall,
         updateLastActivity, Deliver, PodRemoved, OtherEvent, ListAssigned, DeleteIdle,
         Fails, EndPass, Tick, vars
<1>b. pods[p].age \in Nat /\ (pods[p].state = "assigned" => pods[p].age <= Latest)
  BY <1>a, Durations DEF TypeOK, PodRec, CollectedOnTime, Latest
<1>1. ASSUME NEW q \in Pods, CallStep(q) \/ PodRemoved(q) PROVE pods'[p].age <= Latest
  <2>1. PodMoves(q)
    BY <1>1, CallMoves
  <2>2. CASE pods'[p].age = 0
    BY <2>2, Durations
  <2>3. CASE pods'[p].age # 0
    <3>1. pods[p].state = "assigned" /\ pods'[p].age = pods[p].age
      BY <2>1, <2>3 DEF PodMoves, Becomes
    <3> QED
      BY <3>1, <1>b
  <2> QED
    BY <2>2, <2>3
<1>2. ASSUME NEW q \in Pods, Deliver(q) PROVE pods'[p].age <= Latest
  BY <1>2, <1>b DEF Deliver
<1>3. CASE OtherEvent \/ ListAssigned \/ Fails \/ EndPass \/ UNCHANGED vars
  BY <1>3, <1>b DEF OtherEvent, ListAssigned, Fails, EndPass, vars
<1>4. ASSUME NEW q \in Pods, DeleteIdle(q) PROVE pods'[p].age <= Latest
  <2>1. pods'[p] = pods[p]
    BY <1>4, DeleteEnds DEF Becomes
  <2> QED
    BY <2>1, <1>b
<1>5. CASE Tick
  <2>1. ~due /\ op.pc = "idle" /\ cache = pods
    BY <1>5, <1>a DEF Tick, UpToDate
  <2>2. pods[p].state = "assigned"
        /\ pods'[p].age = IF pods[p].age < OldAge THEN pods[p].age + 1 ELSE pods[p].age
    BY <1>5, TickAges
  <2>3. Known(p)
    BY <2>1, <2>2 DEF Known
  <2>4. timer # NoTimer /\ pods[p].age + timer <= Latest
    BY <2>1, <2>3, <1>a DEF KnownIsLookedAt, LookedAt
  <2>5. timer \in Nat /\ timer >= 1
    BY <2>4 DEF TypeOK, TimerIsPositive
  <2> QED
    BY <2>2, <2>4, <2>5, <1>b, Durations
<1> QED
  BY <1>1, <1>2, <1>3, <1>4, <1>5 DEF Next, OperatorStep

\* IInv is inductive.
LEMMA NextInv == IInv /\ [Next]_vars => IInv'
BY BehindNext, WatchNext, LookedNext, OnTimeNext DEF IInv, BehindInv, PromptInv

\* IInv holds in every state.
LEMMA Invariant == Spec => []IInv
BY InitInv, NextInv, PTL DEF Spec

-----------------------------------------------------------------------------

\* For any number of sessions, timeout, minimal requeue delay, resync interval and
\* pool delays: an operator and a watch that take no time collect every session at
\* most minIdleRequeue after its timeout, though stamps enqueue nothing.
THEOREM CollectionIsOnTime == Spec => []CollectedOnTime
BY Invariant, PTL DEF IInv, PromptInv

\* A pod that the operator deletes is idle, or was stamped or created since it was
\* last up to date, however late its watch is and whatever requests fail.
THEOREM CollectionErrsOnlyWhileBehind == Spec => ErrsOnlyWhileBehind
<1>1. ASSUME IInv, [Next]_vars, NEW p \in Pods,
             pods[p].state # "terminating", pods'[p].state = "terminating"
      PROVE  pods[p].age >= Timeout \/ pods[p].age <= behind
  <2>a. TypeOK /\ TodoIsIdleOrRecent
    BY <1>1 DEF IInv, BehindInv
  <2>1. ASSUME NEW q \in Pods, CallStep(q) \/ PodRemoved(q) PROVE FALSE
    <3>1. PodMoves(q)
      BY <2>1, <2>a, CallMoves
    <3> QED
      BY <3>1, <1>1 DEF PodMoves, Becomes
  <2>2. CASE Tick
    BY <2>2, <2>a, <1>1, TickAges
  <2>3. ASSUME NEW q \in Pods, DeleteIdle(q)
        PROVE  pods[p].age >= Timeout \/ pods[p].age <= behind
    <3>1. p = q
      BY <2>3, <2>a, <1>1, DeleteEnds DEF Becomes
    <3> QED
      BY <3>1, <2>3, <2>a DEF DeleteIdle, TodoIsIdleOrRecent
  <2> QED
    BY <2>1, <2>2, <2>3, <1>1
       DEF Next, OperatorStep, Deliver, OtherEvent, ListAssigned, Fails, EndPass, vars
<1>2. IInv /\ [Next]_vars =>
        [\A p \in Pods : pods[p].state # "terminating" /\ pods'[p].state = "terminating"
                          => pods[p].age >= Timeout \/ pods[p].age <= behind]_vars
  BY <1>1
<1> QED
  BY <1>2, Invariant, PTL DEF Spec, ErrsOnlyWhileBehind

=============================================================================
