---------------------- MODULE InstanceLifecycleProofs ----------------------
(***************************************************************************)
(* The life of any number of instances, with any watches that lag and any  *)
(* number of failing requests: what finalize leaves behind, what it does   *)
(* to the shared binding before it lets go, and the HMAC key.              *)
(***************************************************************************)
EXTENDS InstanceLifecycle, TLAPS

New == [state |-> "live", fin |-> FALSE]
Final == [state |-> "live", fin |-> TRUE]
Going == [state |-> "deleting", fin |-> TRUE]

OpType ==
    /\ op = [pc |-> op.pc, i |-> op.i, fin |-> op.fin, subjects |-> op.subjects,
             seen |-> op.seen, err |-> op.err]
    /\ op.pc \in Steps /\ op.fin \in BOOLEAN
    /\ op.pc # "idle" => op.i \in Instances

Typed == api \in Objects /\ cache \in Objects /\ OpType

\* The cache shows an earlier state of an instance, and a name is not used again
\* before it shows the old one gone.
CacheIsPast ==
    \A i \in Instances :
       /\ api.inst[i] \in {NoInst, New, Final, Going}
       /\ cache.inst[i] \in {NoInst, New, Final, Going}
       /\ cache.inst[i] = Final => api.inst[i] \in {Final, Going}
       /\ cache.inst[i] = Going => api.inst[i] \in {Going, NoInst}
       /\ "inst" \notin setting.lag => cache.inst[i] = NoInst

Finalizing == {"scale", "servers", "pods", "secrets", "recheck", "remove"}

\* A pass that makes children has its finalizer on the instance; a pass that
\* finalizes is for an instance that is not live, nor looks it.
PassIsApt ==
    /\ op.pc \in {"hmac", "getHMAC", "children"} => api.inst[op.i] \in {Final, Going}
    /\ op.pc \in Finalizing => op.fin
    /\ op.pc # "idle" /\ op.fin => /\ api.inst[op.i] \in {Going, NoInst}
                                   /\ cache.inst[op.i] \in {Going, NoInst}

\* Only the worker writes the binding, others delete it at most.
BindingIsRead ==
    /\ op.pc = "crbWrite" => crb = op.seen \/ crb = NoBinding
    /\ op.pc = "crbWrite" /\ op.fin => op.i \notin op.subjects
    /\ op.pc \in Finalizing => crb = NoBinding \/ op.i \notin crb

LInv == Typed /\ CacheIsPast /\ PassIsApt /\ BindingIsRead

-----------------------------------------------------------------------------
(* One write, one step.                                                    *)

\* A write changes one object.
LEMMA PutOne ==
    ASSUME api \in Objects, NEW k \in Kinds, NEW i \in Instances, NEW v, Put(k, i, v)
    PROVE  /\ api'[k] = [api[k] EXCEPT ![i] = v]
           /\ \A l \in Kinds \ {k} : api'[l] = api[l]
BY DEF Put, Objects, Kinds

\* Objects keep their types.
LEMMA PutTyped ==
    ASSUME api \in Objects, NEW i \in Instances
    PROVE  /\ \A v \in {NoInst, New, Final, Going} : Put("inst", i, v) => api' \in Objects
           /\ \A v \in {"none", "up", "zero"} : Put("deploy", i, v) => api' \in Objects
           /\ \A v \in {"none", "running", "stopping"} : Put("server", i, v) => api' \in Objects
           /\ \A v \in {"none", "live", "terminating"} : Put("sandbox", i, v) => api' \in Objects
           /\ \A v \in BOOLEAN : Put("secret", i, v) => api' \in Objects
           /\ \A v \in {0, 1} : Put("hmac", i, v) => api' \in Objects
<1> DEFINE Inst == [state: {"absent", "live", "deleting"}, fin: BOOLEAN]
<1>a. NoInst \in Inst
  BY DEF NoInst
<1>b. New \in Inst
  BY DEF New
<1>c. Final \in Inst
  BY DEF Final
<1>d. Going \in Inst
  BY DEF Going
<1>1. \A v \in {NoInst, New, Final, Going} : v \in Inst
  BY <1>a, <1>b, <1>c, <1>d
<1>2. ASSUME NEW v \in {NoInst, New, Final, Going}, Put("inst", i, v) PROVE api' \in Objects
  BY <1>1, <1>2 DEF Put, Objects
<1>3. ASSUME NEW v \in {"none", "up", "zero"}, Put("deploy", i, v) PROVE api' \in Objects
  BY <1>3 DEF Put, Objects
<1>4. ASSUME NEW v \in {"none", "running", "stopping"}, Put("server", i, v) PROVE api' \in Objects
  BY <1>4 DEF Put, Objects
<1>5. ASSUME NEW v \in {"none", "live", "terminating"}, Put("sandbox", i, v) PROVE api' \in Objects
  BY <1>5 DEF Put, Objects
<1>6. ASSUME NEW v \in BOOLEAN, Put("secret", i, v) PROVE api' \in Objects
  BY <1>6 DEF Put, Objects
<1>7. ASSUME NEW v \in {0, 1}, Put("hmac", i, v) PROVE api' \in Objects
  <2>1. v \in Keys
    BY DEF Keys
  <2> QED
    BY <1>7, <2>1 DEF Put, Objects
<1> QED
  BY <1>2, <1>3, <1>4, <1>5, <1>6, <1>7

\* The worker goes on with what it has read.
OpGoes(pc) ==
    /\ OpType' /\ op'.pc = pc /\ op'.i = op.i /\ op'.fin = op.fin
    /\ op'.subjects = op.subjects /\ op'.seen = op.seen

\* Goto keeps what was read.
LEMMA GotoGoes ==
    ASSUME OpType, op.pc # "idle", NEW pc \in Steps, Goto(pc)
    PROVE  OpGoes(pc)
BY DEF OpType, Goto, OpGoes

\* So does a step that notes an error.
LEMMA ErrGoes ==
    ASSUME OpType, op.pc # "idle", NEW pc \in Steps, op' = [op EXCEPT !.pc = pc, !.err = TRUE]
    PROVE  OpGoes(pc)
BY DEF OpType, OpGoes

\* A worker that stops has no pass.
LEMMA IdleGoes ==
    ASSUME op' = Idle
    PROVE  OpType' /\ op'.pc = "idle" /\ op'.fin = FALSE
BY DEF OpType, Idle, Steps

-----------------------------------------------------------------------------
(* Instances, passes and the binding.                                      *)

\* The values that an instance goes through are four.
LEMMA FourStates ==
    /\ NoInst # New /\ NoInst # Final /\ NoInst # Going
    /\ New # Final /\ New # Going /\ Final # Going
    /\ NoInst.state = "absent" /\ New.state = "live" /\ Final.state = "live"
    /\ Going.state = "deleting"
    /\ ~NoInst.fin /\ ~New.fin /\ Final.fin /\ Going.fin
BY DEF NoInst, New, Final, Going

\* Nothing is there, and the worker is idle.
LEMMA LInit == Init => LInv
<1> SUFFICES ASSUME Init PROVE LInv
  OBVIOUS
<1>1. NoInst \in [state: {"absent", "live", "deleting"}, fin: BOOLEAN] /\ 0 \in Keys
  BY DEF NoInst, Keys
<1>2. api \in Objects /\ cache \in Objects
  BY <1>1 DEF Init, Objects
<1>3. OpType /\ op.pc = "idle"
  BY DEF Init, Idle, OpType, Steps
<1>4. CacheIsPast
  BY FourStates DEF Init, CacheIsPast
<1> QED
  BY <1>2, <1>3, <1>4 DEF LInv, Typed, PassIsApt, BindingIsRead, Finalizing

\* What is left to show of a step that leaves instances, worker and binding.
LEMMA LFrame ==
    ASSUME LInv, api' \in Objects, api'.inst = api.inst, UNCHANGED <<cache, op, crb, setting>>
    PROVE  LInv'
BY DEF LInv, Typed, OpType, CacheIsPast, PassIsApt, BindingIsRead

\* Writes to other objects than instances.
LEMMA OtherWrites ==
    ASSUME LInv, NEW i \in Instances,
           \/ OwnerGC(i) \/ ServerStep(i) \/ SessionSecret(i) \/ SessionPod(i)
           \/ SandboxRemoved(i)
    PROVE  LInv'
<1>a. api \in Objects
  BY DEF LInv, Typed
<1>1. UNCHANGED <<cache, op, crb, setting>>
  BY DEF OwnerGC, ServerStep, SessionSecret, SessionPod, SandboxRemoved, others
<1>2. api.sandbox[i] \in {"none", "live", "terminating"}
  BY <1>a DEF Objects
<1>3. \/ \E v \in {"none", "up", "zero"} : Put("deploy", i, v)
      \/ \E v \in {"none", "running", "stopping"} : Put("server", i, v)
      \/ \E v \in {"none", "live", "terminating"} : Put("sandbox", i, v)
      \/ \E v \in BOOLEAN : Put("secret", i, v)
      \/ \E v \in {0, 1} : Put("hmac", i, v)
  BY <1>2 DEF OwnerGC, ServerStep, SessionSecret, SessionPod, SandboxRemoved
<1>4. api' \in Objects
  BY <1>a, <1>3, PutTyped
<1>5. api'.inst = api.inst
  BY <1>a, <1>3, PutOne DEF Kinds
<1> QED
  BY <1>1, <1>4, <1>5, LFrame

\* Deletion keeps the finalizer.
LEMMA StateField ==
    ASSUME NEW r, r = [state |-> r.state, fin |-> r.fin], NEW x
    PROVE  [r EXCEPT !.state = x] = [state |-> x, fin |-> r.fin]
OBVIOUS

\* A write to an instance.
LEMMA InstWrite ==
    ASSUME api \in Objects, NEW i \in Instances, NEW v \in {NoInst, New, Final, Going},
           Put("inst", i, v)
    PROVE  /\ api' \in Objects
           /\ api'.inst[i] = v /\ \A j \in Instances \ {i} : api'.inst[j] = api.inst[j]
<1>1. api' \in Objects
  BY PutTyped
<1>2. "inst" \in Kinds
  BY DEF Kinds
<1>3. api'["inst"] = [api["inst"] EXCEPT ![i] = v]
  BY <1>2, PutOne
<1> QED
  BY <1>1, <1>3 DEF Objects

\* The writes of users: nobody has a pass for an instance that is to be created.
LEMMA UserWrite ==
    ASSUME LInv, NEW i \in Instances, UNCHANGED <<cache, op, crb, setting>>,
           \/ api.inst[i] = NoInst /\ cache.inst[i] = NoInst /\ op.i # i /\ Put("inst", i, New)
           \/ api.inst[i] = New /\ Put("inst", i, NoInst)
           \/ api.inst[i] = Final /\ Put("inst", i, Going)
    PROVE  LInv'
<1>a. /\ api \in Objects /\ CacheIsPast /\ PassIsApt /\ BindingIsRead /\ OpType
      /\ cache \in Objects
  BY DEF LInv, Typed
<1>1. /\ api' \in Objects
      /\ \A j \in Instances \ {i} : api'.inst[j] = api.inst[j]
      /\ \/ api.inst[i] = NoInst /\ cache.inst[i] = NoInst /\ op.i # i /\ api'.inst[i] = New
         \/ api.inst[i] = New /\ api'.inst[i] = NoInst
         \/ api.inst[i] = Final /\ api'.inst[i] = Going
  BY <1>a, InstWrite
<1>2. CacheIsPast'
  <2> SUFFICES ASSUME NEW j \in Instances
               PROVE  /\ api'.inst[j] \in {NoInst, New, Final, Going}
                      /\ cache.inst[j] = Final => api'.inst[j] \in {Final, Going}
                      /\ cache.inst[j] = Going => api'.inst[j] \in {Going, NoInst}
    BY <1>a DEF CacheIsPast
  <2>1. CASE j # i
    BY <1>a, <1>1, <2>1 DEF CacheIsPast
  <2>2. CASE j = i
    BY <1>a, <1>1, <2>2, FourStates DEF CacheIsPast
  <2> QED
    BY <2>1, <2>2
<1>3. PassIsApt'
  <2>1. CASE op.pc = "idle"
    BY <2>1 DEF PassIsApt, Finalizing
  <2>2. CASE op.pc # "idle" /\ op.i # i
    BY <1>a, <1>1, <2>2 DEF PassIsApt, OpType
  <2>3. CASE op.pc # "idle" /\ op.i = i
    BY <1>a, <1>1, <2>3, FourStates DEF PassIsApt
  <2> QED
    BY <2>1, <2>2, <2>3
<1> QED
  BY <1>a, <1>1, <1>2, <1>3 DEF LInv, Typed, OpType, BindingIsRead

\* Users create and delete instances.
LEMMA UserWrites ==
    ASSUME LInv, NEW i \in Instances, CreateInstance(i) \/ DeleteInstance(i)
    PROVE  LInv'
<1>a. /\ api \in Objects /\ CacheIsPast /\ PassIsApt /\ BindingIsRead /\ OpType
      /\ UNCHANGED <<cache, op, crb, setting>> /\ cache \in Objects
  BY DEF LInv, Typed, CreateInstance, DeleteInstance, others
<1>1. \/ api.inst[i] = NoInst /\ cache.inst[i] = NoInst /\ op.i # i /\ Put("inst", i, New)
      \/ api.inst[i] = New /\ Put("inst", i, NoInst)
      \/ api.inst[i] = Final /\ Put("inst", i, Going)
  <2>1. CASE CreateInstance(i)
    BY <2>1 DEF CreateInstance, New
  <2>2. CASE DeleteInstance(i)
    <3>1. api.inst[i] \in {New, Final}
      BY <2>2, <1>a, FourStates DEF DeleteInstance, CacheIsPast
    <3>2. CASE api.inst[i] = New
      BY <2>2, <3>2, FourStates DEF DeleteInstance
    <3>3. CASE api.inst[i] = Final
      <4>1. Put("inst", i, [api.inst[i] EXCEPT !.state = "deleting"])
        BY <2>2, <3>3, FourStates, Zenon DEF DeleteInstance
      <4>2. Final = [state |-> Final.state, fin |-> Final.fin]
        BY DEF Final
      <4>3. [api.inst[i] EXCEPT !.state = "deleting"] = [state |-> "deleting", fin |-> Final.fin]
        BY <3>3, <4>2, StateField, Zenon
      <4>4. [state |-> "deleting", fin |-> Final.fin] = Going
        BY DEF Final, Going
      <4> QED
        BY <3>3, <4>1, <4>3, <4>4, Zenon
    <3> QED
      BY <3>1, <3>2, <3>3
  <2> QED
    BY <2>1, <2>2
<1>b. UNCHANGED <<cache, op, crb, setting>>
  BY <1>a
<1> QED
  BY <1>1, <1>b, UserWrite

\* A watch delivers.
LEMMA Delivery ==
    ASSUME LInv, NEW kind \in Kinds, Deliver(kind)
    PROVE  LInv'
<1>a. /\ api \in Objects /\ cache \in Objects /\ OpType /\ CacheIsPast /\ PassIsApt
      /\ BindingIsRead
      /\ UNCHANGED <<api, op, crb, setting>> /\ kind \in setting.lag
  BY DEF LInv, Typed, Deliver
<1>1. cache' = [cache EXCEPT ![kind] = api[kind]]
  BY DEF Deliver
<1>2. cache' \in Objects
  BY <1>a, <1>1 DEF Objects, Kinds
<1>3. cache'.inst = cache.inst \/ (cache'.inst = api.inst /\ "inst" \in setting.lag)
  BY <1>a, <1>1 DEF Objects, Kinds
<1>4. CacheIsPast'
  BY <1>a, <1>3, FourStates DEF CacheIsPast
<1>5. PassIsApt'
  BY <1>a, <1>3 DEF PassIsApt
<1> QED
  BY <1>a, <1>2, <1>4, <1>5 DEF LInv, Typed, OpType, BindingIsRead

-----------------------------------------------------------------------------
(* The worker.                                                             *)

\* A pass ends.
LEMMA WorkerStops ==
    ASSUME LInv, op' = Idle, api' \in Objects, api'.inst = api.inst, UNCHANGED <<cache, setting>>
    PROVE  LInv'
<1>1. OpType' /\ op'.pc = "idle"
  BY IdleGoes
<1> QED
  BY <1>1 DEF LInv, Typed, CacheIsPast, PassIsApt, BindingIsRead, Finalizing

\* A pass goes on among the children, to the binding or in finalize.
LEMMA WorkerGoes ==
    ASSUME LInv, op.pc # "idle", api' \in Objects, api'.inst = api.inst,
           UNCHANGED <<cache, crb, setting>>, NEW pc \in Steps, OpGoes(pc),
           \/ pc \in {"getHMAC", "children"} /\ op.pc \in {"hmac", "getHMAC"}
           \/ pc = "crb"
           \/ pc \in Finalizing /\ op.pc \in Finalizing
    PROVE  LInv'
<1>1. PassIsApt'
  BY DEF LInv, PassIsApt, OpGoes, Finalizing
<1>2. BindingIsRead'
  BY DEF LInv, BindingIsRead, OpGoes, Finalizing
<1> QED
  BY <1>1, <1>2 DEF LInv, Typed, CacheIsPast, OpGoes

\* The steps that neither begin or end a pass, nor write an instance or the binding.
LEMMA PlainSteps ==
    ASSUME LInv,
           \/ EnsureHMAC \/ GetHMAC \/ ApplyChildren \/ scaleMCPToZero \/ ListServers
           \/ DeleteSandboxPods \/ DeleteSessionSecrets \/ Recheck \/ RequestFails
    PROVE  LInv'
<1>a. api \in Objects /\ OpType
  BY DEF LInv, Typed
<1>b. op.pc # "idle" /\ UNCHANGED <<cache, crb, setting>>
  BY DEF EnsureHMAC, GetHMAC, ApplyChildren, scaleMCPToZero, ListServers, DeleteSandboxPods,
         DeleteSessionSecrets, Recheck, RequestFails, Retry, env
<1>c. op.i \in Instances
  BY <1>a, <1>b DEF OpType
<1>1. \/ UNCHANGED api
      \/ \E v \in {"none", "up", "zero"} : Put("deploy", op.i, v)
      \/ \E v \in {"none", "live", "terminating"} : Put("sandbox", op.i, v)
      \/ \E v \in BOOLEAN : Put("secret", op.i, v)
      \/ \E v \in {0, 1} : Put("hmac", op.i, v)
  BY DEF EnsureHMAC, GetHMAC, ApplyChildren, scaleMCPToZero, ListServers, DeleteSandboxPods,
         DeleteSessionSecrets, Recheck, RequestFails, Retry
<1>2. api' \in Objects
  BY <1>a, <1>c, <1>1, PutTyped
<1>3. api'.inst = api.inst
  BY <1>a, <1>c, <1>1, PutOne DEF Kinds
<1>4. \/ op' = Idle
      \/ \E pc \in {"getHMAC", "children"} : op.pc \in {"hmac", "getHMAC"} /\ Goto(pc)
      \/ Goto("crb")
      \/ op' = [op EXCEPT !.pc = "crb", !.err = TRUE]
      \/ \E pc \in Finalizing : op.pc \in Finalizing /\ Goto(pc)
  <2>1. CASE EnsureHMAC \/ GetHMAC
    BY <2>1 DEF EnsureHMAC, GetHMAC, Retry
  <2>2. CASE ApplyChildren
    BY <2>2, Zenon DEF ApplyChildren
  <2>3. CASE scaleMCPToZero \/ ListServers \/ DeleteSandboxPods \/ DeleteSessionSecrets \/ Recheck
    BY <2>3 DEF scaleMCPToZero, ListServers, DeleteSandboxPods, DeleteSessionSecrets, Recheck,
                Retry, Wait, Finalizing
  <2>4. CASE RequestFails
    BY <2>4, Zenon DEF RequestFails
  <2> QED
    BY <2>1, <2>2, <2>3, <2>4
<1>5. CASE op' = Idle
  BY <1>5, <1>2, <1>3, <1>b, WorkerStops
<1>6. ASSUME NEW pc \in {"getHMAC", "children"}, op.pc \in {"hmac", "getHMAC"}, Goto(pc)
      PROVE  LInv'
  <2>1. pc \in Steps
    BY DEF Steps
  <2>2. OpGoes(pc)
    BY <1>6, <1>a, <1>b, <2>1, GotoGoes
  <2> QED
    BY <1>6, <2>1, <2>2, <1>2, <1>3, <1>b, WorkerGoes
<1>7. CASE Goto("crb") \/ op' = [op EXCEPT !.pc = "crb", !.err = TRUE]
  <2>1. "crb" \in Steps
    BY DEF Steps
  <2>2. OpGoes("crb")
    BY <1>7, <1>a, <1>b, <2>1, GotoGoes, ErrGoes, Zenon
  <2> QED
    BY <2>1, <2>2, <1>2, <1>3, <1>b, WorkerGoes
<1>8. ASSUME NEW pc \in Finalizing, op.pc \in Finalizing, Goto(pc)
      PROVE  LInv'
  <2>1. pc \in Steps
    BY DEF Steps, Finalizing
  <2>2. OpGoes(pc)
    BY <1>8, <1>a, <1>b, <2>1, GotoGoes
  <2> QED
    BY <1>8, <2>1, <2>2, <1>2, <1>3, <1>b, WorkerGoes
<1> QED
  BY <1>4, <1>5, <1>6, <1>7, <1>8

\* A pass begins with what the cache shows.
LEMMA Beginning ==
    ASSUME LInv, NEW i \in Instances, Reconcile(i)
    PROVE  LInv'
<1>a. api \in Objects /\ OpType /\ CacheIsPast /\ UNCHANGED <<api, cache, crb, setting>>
  BY DEF LInv, Typed, Reconcile, env
<1>1. CASE UNCHANGED op
  BY <1>1, <1>a, LFrame
<1>2. ASSUME NEW pc \in {"crb", "hmac", "finalizer"}, NEW fin \in BOOLEAN,
             op' = [Idle EXCEPT !.pc = pc, !.i = i, !.fin = fin],
             pc = "hmac" => Read("inst", i) = Final,
             fin => Read("inst", i) = Going
      PROVE  LInv'
  <2>1. op' = [pc |-> pc, i |-> i, fin |-> fin, subjects |-> {}, seen |-> NoBinding, err |-> FALSE]
    BY <1>2 DEF Idle
  <2>2. OpType'
    BY <2>1 DEF OpType, Steps
  <2>3. /\ Read("inst", i) = Final => api.inst[i] \in {Final, Going}
        /\ Read("inst", i) = Going => api.inst[i] \in {Going, NoInst} /\ cache.inst[i] \in {Going, NoInst}
    BY <1>a, FourStates DEF Read, CacheIsPast
  <2>4. PassIsApt'
    BY <1>a, <1>2, <2>1, <2>3 DEF PassIsApt, Finalizing
  <2>5. BindingIsRead'
    BY <2>1 DEF BindingIsRead, Finalizing
  <2> QED
    BY <1>a, <2>2, <2>4, <2>5 DEF LInv, Typed, CacheIsPast
<1>3. Read("inst", i) \in {NoInst, New, Final, Going}
  BY <1>a DEF Read, CacheIsPast
<1>4. \/ UNCHANGED op
      \/ Read("inst", i) = Going /\ op' = [Idle EXCEPT !.pc = "crb", !.i = i, !.fin = TRUE]
      \/ Read("inst", i) = Final /\ op' = [Idle EXCEPT !.pc = "hmac", !.i = i, !.fin = FALSE]
      \/ op' = [Idle EXCEPT !.pc = "finalizer", !.i = i, !.fin = FALSE]
  <2>1. Read("inst", i) = NoInst => UNCHANGED op
    BY FourStates, Zenon DEF Reconcile
  <2>2. Read("inst", i) = Going => op' = [Idle EXCEPT !.pc = "crb", !.i = i, !.fin = TRUE]
    BY FourStates, Zenon DEF Reconcile
  <2>3. Read("inst", i) = Final => op' = [Idle EXCEPT !.pc = "hmac", !.i = i, !.fin = FALSE]
    BY FourStates, Zenon DEF Reconcile
  <2>4. Read("inst", i) = New => op' = [Idle EXCEPT !.pc = "finalizer", !.i = i, !.fin = FALSE]
    BY FourStates, Zenon DEF Reconcile
  <2> QED
    BY <1>3, <2>1, <2>2, <2>3, <2>4, Zenon
<1> QED
  BY <1>1, <1>2, <1>4, Zenon

\* The finalizer goes onto the instance the API server has.
LEMMA AddingFinalizer ==
    ASSUME LInv, AddFinalizer
    PROVE  LInv'
<1>a. /\ api \in Objects /\ cache \in Objects /\ OpType /\ CacheIsPast /\ PassIsApt
      /\ op.pc = "finalizer" /\ UNCHANGED <<cache, crb, setting>>
  BY DEF LInv, Typed, AddFinalizer, env
<1>b. op.i \in Instances
  BY <1>a DEF OpType
<1>1. \/ api.inst[op.i] = New /\ Put("inst", op.i, Final) /\ Goto("hmac")
      \/ op' = Idle /\ UNCHANGED api
  BY DEF AddFinalizer, New, Final
<1>2. CASE op' = Idle /\ UNCHANGED api
  BY <1>a, <1>2, WorkerStops
<1>3. CASE api.inst[op.i] = New /\ Put("inst", op.i, Final) /\ Goto("hmac")
  <2>1. "hmac" \in Steps /\ op.pc # "idle"
    BY <1>a DEF Steps
  <2>2. OpGoes("hmac")
    BY <1>3, <1>a, <2>1, GotoGoes
  <2>3. /\ api' \in Objects /\ api'.inst[op.i] = Final
        /\ \A j \in Instances \ {op.i} : api'.inst[j] = api.inst[j]
    BY <1>3, <1>a, <1>b, InstWrite
  <2>4. CacheIsPast'
    BY <1>3, <1>a, <1>b, <2>3, FourStates DEF CacheIsPast
  <2>5. PassIsApt'
    <3>1. ~op.fin
      BY <1>3, <1>a, FourStates DEF PassIsApt
    <3> QED
      BY <1>b, <2>2, <2>3, <3>1 DEF PassIsApt, OpGoes, Finalizing
  <2>6. BindingIsRead'
    BY <2>2 DEF BindingIsRead, OpGoes, Finalizing
  <2> QED
    BY <1>a, <2>2, <2>3, <2>4, <2>5, <2>6 DEF LInv, Typed, OpGoes
<1> QED
  BY <1>1, <1>2, <1>3

\* finalize lets the instance go.
LEMMA Removing ==
    ASSUME LInv, RemoveFinalizer
    PROVE  LInv'
<1>a. /\ api \in Objects /\ cache \in Objects /\ OpType /\ CacheIsPast /\ PassIsApt
      /\ op.pc = "remove" /\ UNCHANGED <<cache, crb, setting>> /\ op' = Idle
      /\ Put("inst", op.i, NoInst)
  BY DEF LInv, Typed, RemoveFinalizer, env
<1>b. op.i \in Instances /\ op.fin
  BY <1>a DEF OpType, PassIsApt, Finalizing
<1>1. /\ api' \in Objects /\ api'.inst[op.i] = NoInst
      /\ \A j \in Instances \ {op.i} : api'.inst[j] = api.inst[j]
  BY <1>a, <1>b, InstWrite
<1>2. cache.inst[op.i] \in {Going, NoInst}
  BY <1>a, <1>b DEF PassIsApt
<1>3. CacheIsPast'
  BY <1>a, <1>b, <1>1, <1>2, FourStates DEF CacheIsPast
<1>4. OpType' /\ op'.pc = "idle"
  BY <1>a, IdleGoes
<1> QED
  BY <1>a, <1>1, <1>3, <1>4 DEF LInv, Typed, PassIsApt, BindingIsRead, Finalizing

\* The subjects a finalizing pass computes are without its instance.
LEMMA ReadingBinding ==
    ASSUME LInv, ReadBinding
    PROVE  LInv'
<1>a. /\ api \in Objects /\ OpType /\ CacheIsPast /\ PassIsApt
      /\ op.pc = "crb" /\ UNCHANGED <<api, cache, crb, setting>>
  BY DEF LInv, Typed, ReadBinding, env
<1>b. op.i \in Instances
  BY <1>a DEF OpType
<1>1. op' = [op EXCEPT !.pc = "crbWrite", !.subjects = desiredAuthDelegatorSubjects, !.seen = crb]
  BY DEF ReadBinding
<1> DEFINE D == desiredAuthDelegatorSubjects
<1>2. op.fin => op.i \notin D
  <2>1. op.fin => Read("inst", op.i) \in {Going, NoInst}
    BY <1>a DEF PassIsApt, Read
  <2> QED
    BY <2>1, FourStates DEF desiredAuthDelegatorSubjects
<1> HIDE DEF D
<1>3. op' = [pc |-> "crbWrite", i |-> op.i, fin |-> op.fin, subjects |-> D, seen |-> crb, err |-> op.err]
  BY <1>a, <1>1 DEF OpType, D
<1>4. OpType'
  BY <1>a, <1>b, <1>3 DEF OpType, Steps
<1>5. PassIsApt'
  BY <1>a, <1>3 DEF PassIsApt, Finalizing
<1>6. BindingIsRead'
  BY <1>a, <1>2, <1>3 DEF BindingIsRead, Finalizing
<1> QED
  BY <1>a, <1>4, <1>5, <1>6 DEF LInv, Typed, CacheIsPast

\* The binding is written, or was as it should be.
LEMMA WritingBinding ==
    ASSUME LInv, applyAuthDelegatorCRB
    PROVE  LInv'
<1>a. /\ api \in Objects /\ OpType /\ CacheIsPast /\ PassIsApt /\ BindingIsRead
      /\ op.pc = "crbWrite" /\ UNCHANGED <<api, cache, setting>>
  BY DEF LInv, Typed, applyAuthDelegatorCRB, Retry
<1>1. CASE op' = Idle
  BY <1>a, <1>1, WorkerStops
<1>2. CASE op' # Idle
  <2>1. op.fin /\ Goto("scale")
    BY <1>2 DEF applyAuthDelegatorCRB, AfterBinding, Retry
  <2>2. crb' = op.subjects \/ (op.seen = op.subjects /\ crb' = crb)
    BY <1>2 DEF applyAuthDelegatorCRB, Retry
  <2>3. crb' = NoBinding \/ op.i \notin crb'
    BY <1>a, <2>1, <2>2 DEF BindingIsRead
  <2>4. "scale" \in Steps /\ op.pc # "idle"
    BY <1>a DEF Steps
  <2>5. OpGoes("scale")
    BY <1>a, <2>1, <2>4, GotoGoes
  <2>6. PassIsApt'
    BY <1>a, <2>1, <2>4, <2>5 DEF PassIsApt, OpGoes, Finalizing
  <2>7. BindingIsRead'
    BY <2>3, <2>5 DEF BindingIsRead, OpGoes, Finalizing
  <2> QED
    BY <1>a, <2>5, <2>6, <2>7 DEF LInv, Typed, CacheIsPast, OpGoes
<1> QED
  BY <1>1, <1>2

\* LInv is inductive.
LEMMA LNext == LInv /\ [Next]_vars => LInv'
<1> SUFFICES ASSUME LInv, [Next]_vars PROVE LInv'
  OBVIOUS
<1>1. ASSUME NEW i \in Instances, TimerFires(i) PROVE LInv'
  BY <1>1, LFrame DEF TimerFires, LInv, Typed
<1>2. CASE AdminDeletesBinding
  BY <1>2 DEF AdminDeletesBinding, LInv, Typed, OpType, CacheIsPast, PassIsApt, BindingIsRead
<1>3. CASE UNCHANGED vars
  BY <1>3, LFrame DEF vars, LInv, Typed
<1>4. CASE PassStep \/ RequestFails
  BY <1>4, PlainSteps, AddingFinalizer, ReadingBinding, WritingBinding, Removing DEF PassStep
<1> QED
  BY <1>1, <1>2, <1>3, <1>4, OtherWrites, UserWrites, Delivery, Beginning DEF Next

\* The HMAC key that ensureHMAC generated stays until the instance is gone, for any
\* number of instances and however stale the operator's cache is.
THEOREM KeyIsKept == Spec => HmacIsKept
<1> DEFINE Kept == \A i \in Instances : api.hmac[i] # 0 /\ api'.hmac[i] # api.hmac[i]
                                          => api.inst[i] = NoInst
<1>1. LInv /\ [Next]_vars => [Kept]_vars
  <2> SUFFICES ASSUME LInv, Next, NEW i \in Instances, api.hmac[i] # 0,
                      api'.hmac[i] # api.hmac[i]
               PROVE  api.inst[i] = NoInst
    OBVIOUS
  <2>a. api \in Objects /\ OpType /\ CacheIsPast
    BY DEF LInv, Typed
  <2>b. ASSUME NEW j \in Instances, NEW k \in Kinds \ {"hmac"}, NEW v, Put(k, j, v)
        PROVE  FALSE
    <3>1. api'["hmac"] = api["hmac"]
      BY <2>a, <2>b, PutOne DEF Kinds
    <3> QED
      BY <3>1
  <2>c. ASSUME NEW j \in Instances, NEW v, Put("hmac", j, v) PROVE j = i
    <3>1. api'["hmac"] = [api["hmac"] EXCEPT ![j] = v]
      BY <2>a, <2>c, PutOne DEF Kinds
    <3> QED
      BY <2>a, <3>1 DEF Objects
  <2>d. ~UNCHANGED api
    OBVIOUS
  <2>e. op.pc # "idle" => op.i \in Instances
    BY <2>a DEF OpType
  <2>1. ASSUME NEW j \in Instances, OwnerGC(j) PROVE api.inst[i] = NoInst
    <3>1. api.inst[j].state = "absent" /\ j = i
      BY <2>1, <2>b, <2>c DEF OwnerGC, Kinds
    <3> QED
      BY <2>a, <3>1, FourStates DEF CacheIsPast
  <2>2. ASSUME NEW j \in Instances,
               \/ CreateInstance(j) \/ DeleteInstance(j) \/ ServerStep(j) \/ SessionSecret(j)
               \/ SessionPod(j) \/ SandboxRemoved(j) \/ TimerFires(j) \/ Reconcile(j)
        PROVE  FALSE
    BY <2>2, <2>b, <2>d DEF CreateInstance, DeleteInstance, ServerStep, SessionSecret, SessionPod,
       SandboxRemoved, TimerFires, Reconcile, Kinds
  <2>3. ~EnsureHMAC
    BY <2>c, <2>d, <2>e DEF EnsureHMAC, Retry
  <2>4. ~(PassStep \/ RequestFails \/ AdminDeletesBinding)
    <3>1. ~(AddFinalizer \/ ApplyChildren \/ scaleMCPToZero \/ DeleteSandboxPods
            \/ DeleteSessionSecrets \/ RemoveFinalizer)
      BY <2>b, <2>d, <2>e DEF AddFinalizer, ApplyChildren, scaleMCPToZero, DeleteSandboxPods,
         DeleteSessionSecrets, RemoveFinalizer, Retry, Kinds
    <3>2. ~(GetHMAC \/ ReadBinding \/ applyAuthDelegatorCRB \/ ListServers \/ Recheck
            \/ RequestFails \/ AdminDeletesBinding)
      BY <2>d DEF GetHMAC, ReadBinding, applyAuthDelegatorCRB, ListServers, Recheck,
         RequestFails, AdminDeletesBinding, Retry
    <3> QED
      BY <3>1, <3>2, <2>3 DEF PassStep
  <2>5. ~(\E kind \in Kinds : Deliver(kind))
    BY <2>d DEF Deliver
  <2> QED
    BY <2>1, <2>2, <2>4, <2>5 DEF Next
<1> QED
  BY <1>1, LInit, LNext, PTL DEF Spec, HmacIsKept

-----------------------------------------------------------------------------
(* What finalize has done before it lets go.                               *)

\* What a write changes of the objects of i.
LEMMA PutAt ==
    ASSUME api \in Objects, NEW k \in Kinds, NEW j \in Instances, NEW v, Put(k, j, v),
           NEW i \in Instances
    PROVE  /\ api'.inst[i] = IF k = "inst" /\ i = j THEN v ELSE api.inst[i]
           /\ api'.deploy[i] = IF k = "deploy" /\ i = j THEN v ELSE api.deploy[i]
           /\ api'.server[i] = IF k = "server" /\ i = j THEN v ELSE api.server[i]
           /\ api'.sandbox[i] = IF k = "sandbox" /\ i = j THEN v ELSE api.sandbox[i]
           /\ api'.secret[i] = IF k = "secret" /\ i = j THEN v ELSE api.secret[i]
<1>1. /\ api'[k] = [api[k] EXCEPT ![j] = v]
      /\ \A l \in Kinds \ {k} : api'[l] = api[l]
  BY PutOne
<1>2. ASSUME NEW l \in Kinds
      PROVE  api'[l][i] = IF l = k /\ i = j THEN v ELSE api[l][i]
  <2>1. api[l] = [x \in Instances |-> api[l][x]]
    BY DEF Objects, Kinds
  <2>2. CASE l = k
    BY <1>1, <2>1, <2>2
  <2>3. CASE l # k
    BY <1>1, <2>3
  <2> QED
    BY <2>2, <2>3
<1> QED
  BY <1>2 DEF Kinds

\* Instances come and go by these steps only.
LEMMA InstChanges ==
    ASSUME LInv, Next, NEW i \in Instances, api'.inst[i] # api.inst[i]
    PROVE  \/ CreateInstance(i) \/ DeleteInstance(i)
           \/ op.i = i /\ (AddFinalizer \/ RemoveFinalizer)
<1>a. api \in Objects /\ OpType
  BY DEF LInv, Typed
<1>b. ASSUME NEW j \in Instances, NEW k \in Kinds \ {"inst"}, NEW v, Put(k, j, v)
      PROVE  FALSE
  BY <1>a, <1>b, PutAt
<1>c. ASSUME NEW j \in Instances, NEW v, Put("inst", j, v) PROVE j = i
  <2>1. "inst" \in Kinds
    BY DEF Kinds
  <2> QED
    BY <1>a, <1>c, <2>1, PutAt
<1>d. ~UNCHANGED api
  OBVIOUS
<1>e. op.pc # "idle" => op.i \in Instances
  BY <1>a DEF OpType
<1>1. ASSUME NEW j \in Instances, CreateInstance(j) \/ DeleteInstance(j) PROVE j = i
  BY <1>1, <1>c DEF CreateInstance, DeleteInstance
<1>2. ASSUME NEW j \in Instances,
             \/ OwnerGC(j) \/ ServerStep(j) \/ SessionSecret(j)
             \/ SessionPod(j) \/ SandboxRemoved(j) \/ TimerFires(j) \/ Reconcile(j)
      PROVE  FALSE
  BY <1>2, <1>b, <1>d DEF OwnerGC, ServerStep, SessionSecret, SessionPod,
     SandboxRemoved, TimerFires, Reconcile, Kinds
<1>3. ~(\E kind \in Kinds : Deliver(kind)) /\ ~AdminDeletesBinding /\ ~RequestFails
  BY <1>d DEF Deliver, AdminDeletesBinding, RequestFails
<1>4. ~(EnsureHMAC \/ ApplyChildren \/ scaleMCPToZero \/ DeleteSandboxPods
        \/ DeleteSessionSecrets)
  BY <1>b, <1>d, <1>e DEF EnsureHMAC, ApplyChildren, scaleMCPToZero, DeleteSandboxPods,
     DeleteSessionSecrets, Retry, Kinds
<1>5. ~(GetHMAC \/ ReadBinding \/ applyAuthDelegatorCRB \/ ListServers \/ Recheck)
  BY <1>d DEF GetHMAC, ReadBinding, applyAuthDelegatorCRB, ListServers, Recheck, Retry
<1>6. AddFinalizer \/ RemoveFinalizer => op.i = i
  BY <1>c, <1>d, <1>e DEF AddFinalizer, RemoveFinalizer
<1> QED
  BY <1>1, <1>2, <1>3, <1>4, <1>5, <1>6 DEF Next, PassStep

\* When finalize lets an instance go, its service account is not in the binding that
\* all instances share, for any number of them, watches that lag and failing requests.
THEOREM SubjectHasGone == Spec => SubjectGoesFirst
<1> DEFINE Gone == \A i \in Instances : api.inst[i].fin /\ api'.inst[i] = NoInst
                                          => crb = NoBinding \/ i \notin crb
<1>1. LInv /\ [Next]_vars => [Gone]_vars
  <2> SUFFICES ASSUME LInv, Next, NEW i \in Instances, api.inst[i].fin, api'.inst[i] = NoInst
               PROVE  crb = NoBinding \/ i \notin crb
    OBVIOUS
  <2>1. api'.inst[i] # api.inst[i]
    BY FourStates
  <2>2. ~CreateInstance(i)
    BY FourStates DEF CreateInstance
  <2>3. ~DeleteInstance(i)
    <3> SUFFICES ASSUME DeleteInstance(i) PROVE FALSE
      OBVIOUS
    <3>1. Put("inst", i, [api.inst[i] EXCEPT !.state = "deleting"])
      BY Zenon DEF DeleteInstance
    <3>2. api.inst[i] = [state |-> api.inst[i].state, fin |-> api.inst[i].fin]
      BY DEF LInv, Typed, Objects
    <3>3. Put("inst", i, [state |-> "deleting", fin |-> api.inst[i].fin])
      BY <3>1, <3>2, StateField, Zenon
    <3>4. api'.inst[i] = [state |-> "deleting", fin |-> api.inst[i].fin]
      BY <3>3, PutAt DEF LInv, Typed, Kinds
    <3> QED
      BY <3>4 DEF NoInst
  <2>4. ~(AddFinalizer /\ op.i = i)
    BY <2>1, FourStates DEF AddFinalizer, New
  <2>5. CASE RemoveFinalizer /\ op.i = i
    BY <2>5 DEF RemoveFinalizer, LInv, BindingIsRead, Finalizing
  <2> QED
    BY <2>1, <2>2, <2>3, <2>4, <2>5, InstChanges
<1> QED
  BY <1>1, LInit, LNext, PTL DEF Spec, SubjectGoesFirst

Fresh == setting.lag \cap {"deploy", "server"} = {}

\* No server is there or comes up, and nothing that one has made stays.
Down(i) ==
    /\ api.deploy[i] # "up" /\ api.server[i] = "none"
    /\ api.sandbox[i] # "live" /\ api.secret[i] = FALSE

\* Only an instance with a finalizer has servers; finalize takes away one thing
\* after the other, and what it has taken away cannot come back.
TakenDown(i) ==
    /\ call[i] \in BOOLEAN
    /\ call[i] => api.server[i] # "none"
    /\ api.inst[i] \in {NoInst, New} => Down(i)
    /\ op.i = i =>
         /\ op.pc \in {"servers", "pods", "secrets", "recheck", "remove"} => api.deploy[i] # "up"
         /\ op.pc \in {"pods", "secrets", "recheck", "remove"} => api.server[i] = "none"
         /\ op.pc \in {"secrets", "recheck", "remove"} => api.sandbox[i] # "live"
         /\ op.pc \in {"recheck", "remove"} => api.secret[i] = FALSE

CallsFn == call = [i \in Instances |-> call[i]]

OInv == CallsFn /\ (Fresh => \A i \in Instances : TakenDown(i))

\* The objects of i stay as they are.
Same(i) ==
    /\ api'.inst[i] = api.inst[i] /\ api'.deploy[i] = api.deploy[i]
    /\ api'.server[i] = api.server[i] /\ api'.sandbox[i] = api.sandbox[i]
    /\ api'.secret[i] = api.secret[i] /\ call'[i] = call[i]

\* Nothing is there.
LEMMA OInit == Init => OInv
BY FourStates DEF Init, OInv, CallsFn, TakenDown, Down, Idle

\* The worker is not, or no longer, past scaling i down.
LEMMA OFrame ==
    ASSUME NEW i \in Instances, TakenDown(i), Same(i),
           \/ UNCHANGED op
           \/ op'.pc \in Steps \ {"servers", "pods", "secrets", "recheck", "remove"}
           \/ op'.i # i
    PROVE  TakenDown(i)'
BY DEF TakenDown, Same, Down

\* A write to the instance.
LEMMA InstAt ==
    ASSUME api \in Objects, NEW i \in Instances, NEW v, Put("inst", i, v)
    PROVE  /\ api'.inst[i] = v
           /\ api'.deploy[i] = api.deploy[i] /\ api'.server[i] = api.server[i]
           /\ api'.sandbox[i] = api.sandbox[i] /\ api'.secret[i] = api.secret[i]
<1>1. "inst" \in Kinds
  BY DEF Kinds
<1> QED
  BY <1>1, PutAt

\* A write to its Deployment.
LEMMA DeployAt ==
    ASSUME api \in Objects, NEW i \in Instances, NEW v, Put("deploy", i, v)
    PROVE  /\ api'.deploy[i] = v
           /\ api'.inst[i] = api.inst[i] /\ api'.server[i] = api.server[i]
           /\ api'.sandbox[i] = api.sandbox[i] /\ api'.secret[i] = api.secret[i]
<1>1. "deploy" \in Kinds
  BY DEF Kinds
<1> QED
  BY <1>1, PutAt

\* A write to its server pod.
LEMMA ServerAt ==
    ASSUME api \in Objects, NEW i \in Instances, NEW v, Put("server", i, v)
    PROVE  /\ api'.server[i] = v
           /\ api'.inst[i] = api.inst[i] /\ api'.deploy[i] = api.deploy[i]
           /\ api'.sandbox[i] = api.sandbox[i] /\ api'.secret[i] = api.secret[i]
<1>1. "server" \in Kinds
  BY DEF Kinds
<1> QED
  BY <1>1, PutAt

\* A write to its sandbox pod.
LEMMA SandboxAt ==
    ASSUME api \in Objects, NEW i \in Instances, NEW v, Put("sandbox", i, v)
    PROVE  /\ api'.sandbox[i] = v
           /\ api'.inst[i] = api.inst[i] /\ api'.deploy[i] = api.deploy[i]
           /\ api'.server[i] = api.server[i] /\ api'.secret[i] = api.secret[i]
<1>1. "sandbox" \in Kinds
  BY DEF Kinds
<1> QED
  BY <1>1, PutAt

\* Users, Kubernetes and MCP servers.
LEMMA OutsideKeeps ==
    ASSUME LInv, OInv, Fresh, NEW i \in Instances, NEW j \in Instances,
           \/ CreateInstance(j) \/ DeleteInstance(j) \/ OwnerGC(j) \/ ServerStep(j)
           \/ SessionSecret(j) \/ SessionPod(j) \/ SandboxRemoved(j)
    PROVE  TakenDown(i)'
<1>a. /\ api \in Objects /\ TakenDown(i) /\ CallsFn /\ CacheIsPast /\ UNCHANGED op
  BY DEF LInv, Typed, OInv, CreateInstance, DeleteInstance, OwnerGC, ServerStep, SessionSecret,
         SessionPod, SandboxRemoved, others
<1>t. TakenDown(i) /\ UNCHANGED op
  BY <1>a
<1>b. "inst" \in Kinds /\ "deploy" \in Kinds /\ "server" \in Kinds /\ "sandbox" \in Kinds
      /\ "secret" \in Kinds /\ "hmac" \in Kinds
  BY DEF Kinds
<1>1. CASE i # j
  <2>1. \E k \in Kinds : \E v : Put(k, j, v)
    BY <1>b, Zenon DEF CreateInstance, DeleteInstance, OwnerGC, ServerStep, SessionSecret,
       SessionPod, SandboxRemoved
  <2>2. call'[i] = call[i]
    BY <1>a, <1>1 DEF CallsFn, CreateInstance, DeleteInstance, OwnerGC, ServerStep, SessionSecret,
       SessionPod, SandboxRemoved
  <2>3. Same(i)
    BY <1>a, <1>1, <2>1, <2>2, PutAt DEF Same
  <2> QED
    BY <1>a, <2>3, OFrame
<1>2. CASE i = j
  <2>1. CASE CreateInstance(i)
    <3>1. api.inst[i] = NoInst /\ Put("inst", i, New) /\ UNCHANGED call
      BY <2>1 DEF CreateInstance, New
    <3> QED
      <4>1. /\ api'.inst[i] = New
            /\ api'.deploy[i] = api.deploy[i] /\ api'.server[i] = api.server[i]
            /\ api'.sandbox[i] = api.sandbox[i] /\ api'.secret[i] = api.secret[i]
        BY <1>a, <3>1, InstAt
      <4> QED
        BY <1>t, <3>1, <4>1 DEF TakenDown, Down
  <2>2. CASE DeleteInstance(i)
    <3>1. UNCHANGED call /\ \E v : Put("inst", i, v) /\ (v \in {NoInst, New} => ~api.inst[i].fin)
      <4>1. api.inst[i] = [state |-> api.inst[i].state, fin |-> api.inst[i].fin]
        BY <1>a DEF Objects
      <4>2. CASE api.inst[i].fin
        <5>1. Put("inst", i, [state |-> "deleting", fin |-> api.inst[i].fin])
          BY <2>2, <4>1, <4>2, StateField, Zenon DEF DeleteInstance
        <5>2. [state |-> "deleting", fin |-> api.inst[i].fin] \notin {NoInst, New}
          BY DEF NoInst, New
        <5> QED
          BY <2>2, <5>1, <5>2, Zenon DEF DeleteInstance
      <4>3. CASE ~api.inst[i].fin
        BY <2>2, <4>3, Zenon DEF DeleteInstance
      <4> QED
        BY <4>2, <4>3
    <3>2. ~api.inst[i].fin => api.inst[i] \in {NoInst, New}
      BY <1>a, FourStates DEF CacheIsPast
    <3>3. PICK v : Put("inst", i, v) /\ (v \in {NoInst, New} => ~api.inst[i].fin)
      BY <3>1, Zenon
    <3>4. /\ api'.inst[i] = v
          /\ api'.deploy[i] = api.deploy[i] /\ api'.server[i] = api.server[i]
          /\ api'.sandbox[i] = api.sandbox[i] /\ api'.secret[i] = api.secret[i]
      BY <1>a, <3>3, InstAt
    <3>5. UNCHANGED call /\ (v \in {NoInst, New} => api.inst[i] \in {NoInst, New})
      BY <3>1, <3>2, <3>3, Zenon
    <3> QED
      BY <1>t, <3>4, <3>5 DEF TakenDown, Down
  <2>3. CASE OwnerGC(i)
    <3>1. CASE Put("deploy", i, "none") /\ UNCHANGED call
      <4>1. /\ api'.deploy[i] = "none"
            /\ api'.inst[i] = api.inst[i] /\ api'.server[i] = api.server[i]
            /\ api'.sandbox[i] = api.sandbox[i] /\ api'.secret[i] = api.secret[i]
        BY <3>1, <1>a, DeployAt
      <4> QED
        BY <3>1, <4>1, <1>t DEF TakenDown, Down
    <3>2. CASE Put("hmac", i, 0) /\ UNCHANGED call
      <4>1. \A l \in Kinds \ {"hmac"} : api'[l] = api[l]
        BY <3>2, <1>a, <1>b, PutOne
      <4>2. Same(i)
        BY <3>2, <4>1, <1>b DEF Same
      <4> QED
        BY <4>2, <1>t, OFrame
    <3> QED
      BY <2>3, <3>1, <3>2 DEF OwnerGC
  <2>4. CASE ServerStep(i)
    <3>1. CASE api.deploy[i] = "up" /\ Put("server", i, "running") /\ UNCHANGED call
      <4>1. /\ api'.server[i] = "running"
            /\ api'.inst[i] = api.inst[i] /\ api'.deploy[i] = api.deploy[i]
            /\ api'.sandbox[i] = api.sandbox[i] /\ api'.secret[i] = api.secret[i]
        BY <3>1, <1>a, ServerAt
      <4> QED
        BY <3>1, <4>1, <1>t DEF TakenDown, Down
    <3>2. CASE api.server[i] = "running" /\ Put("server", i, "stopping") /\ UNCHANGED call
      <4>1. /\ api'.server[i] = "stopping"
            /\ api'.inst[i] = api.inst[i] /\ api'.deploy[i] = api.deploy[i]
            /\ api'.sandbox[i] = api.sandbox[i] /\ api'.secret[i] = api.secret[i]
        BY <3>2, <1>a, ServerAt
      <4> QED
        BY <3>2, <4>1, <1>t DEF TakenDown, Down
    <3>3. CASE Put("server", i, "none") /\ call' = [call EXCEPT ![i] = FALSE]
      <4>1. call'[i] = FALSE
        BY <3>3, <1>a DEF CallsFn
      <4>2. /\ api'.server[i] = "none"
            /\ api'.inst[i] = api.inst[i] /\ api'.deploy[i] = api.deploy[i]
            /\ api'.sandbox[i] = api.sandbox[i] /\ api'.secret[i] = api.secret[i]
        BY <3>3, <1>a, ServerAt
      <4> QED
        BY <3>3, <4>1, <4>2, <1>t DEF TakenDown, Down
    <3> QED
      BY <2>4, <1>2, <3>1, <3>2, <3>3 DEF ServerStep
  <2>5. CASE SessionSecret(i)
    <3>1. /\ api.server[i] # "none" /\ Put("secret", i, TRUE) /\ call' = [call EXCEPT ![i] = TRUE]
      BY <2>5 DEF SessionSecret
    <3>2. /\ api'.inst[i] = api.inst[i] /\ api'.deploy[i] = api.deploy[i]
          /\ api'.server[i] = api.server[i] /\ api'.sandbox[i] = api.sandbox[i]
      BY <1>a, <1>b, <3>1, PutOne DEF Kinds
    <3>3. call'[i] \in BOOLEAN
      BY <1>a, <3>1 DEF CallsFn
    <3> QED
      BY <1>t, <3>1, <3>2, <3>3 DEF TakenDown, Down
  <2>6. CASE SessionPod(i)
    <3>1. /\ call[i] /\ call' = [call EXCEPT ![i] = FALSE]
          /\ \E v : Put("sandbox", i, v)
      BY <2>6, Zenon DEF SessionPod
    <3>2. /\ api'.inst[i] = api.inst[i] /\ api'.deploy[i] = api.deploy[i]
          /\ api'.server[i] = api.server[i] /\ api'.secret[i] = api.secret[i]
      BY <1>a, <3>1, SandboxAt
    <3>3. call'[i] = FALSE
      BY <1>a, <3>1 DEF CallsFn
    <3>4. api.server[i] # "none"
      BY <1>a, <3>1 DEF TakenDown
    <3> QED
      BY <1>t, <3>2, <3>3, <3>4 DEF TakenDown, Down
  <2>7. CASE SandboxRemoved(i)
    <3>1. /\ api'.sandbox[i] = "none" /\ UNCHANGED call
          /\ api'.inst[i] = api.inst[i] /\ api'.deploy[i] = api.deploy[i]
          /\ api'.server[i] = api.server[i] /\ api'.secret[i] = api.secret[i]
      BY <2>7, <1>a, SandboxAt DEF SandboxRemoved
    <3> QED
      BY <3>1, <1>t DEF TakenDown, Down
  <2> QED
    BY <1>2, <2>1, <2>2, <2>3, <2>4, <2>5, <2>6, <2>7
<1> QED
  BY <1>1, <1>2

\* The worker, once it has scaled down what it reads afresh.
LEMMA WorkerKeeps ==
    ASSUME LInv, OInv, Fresh, NEW i \in Instances, PassStep \/ RequestFails
    PROVE  TakenDown(i)'
<1>a. /\ api \in Objects /\ OpType /\ TakenDown(i) /\ PassIsApt /\ UNCHANGED call
  BY DEF LInv, Typed, OInv, PassStep, RequestFails, AddFinalizer, EnsureHMAC, GetHMAC,
         ApplyChildren, ReadBinding, applyAuthDelegatorCRB, scaleMCPToZero, ListServers,
         DeleteSandboxPods, DeleteSessionSecrets, Recheck, RemoveFinalizer, env
<1>b. "inst" \in Kinds /\ "deploy" \in Kinds /\ "server" \in Kinds /\ "sandbox" \in Kinds
      /\ "secret" \in Kinds /\ "hmac" \in Kinds
  BY DEF Kinds
<1>c. op.pc # "idle" /\ op.i \in Instances
  BY <1>a DEF PassStep, RequestFails, AddFinalizer, EnsureHMAC, GetHMAC, ApplyChildren,
     ReadBinding, applyAuthDelegatorCRB, scaleMCPToZero, ListServers, DeleteSandboxPods,
     DeleteSessionSecrets, Recheck, RemoveFinalizer, OpType
<1>d. ASSUME UNCHANGED api PROVE Same(i)
  BY <1>a, <1>d DEF Same
<1>e. ASSUME NEW k \in Kinds, NEW v, Put(k, op.i, v), op.i # i \/ k = "hmac" PROVE Same(i)
  BY <1>a, <1>c, <1>e, PutAt DEF Same
<1>f. ASSUME op' = Idle PROVE op'.pc \in Steps \ {"servers", "pods", "secrets", "recheck", "remove"}
  BY <1>f, IdleGoes DEF Steps
<1>g. ASSUME NEW pc \in Steps, Goto(pc) \/ op' = [op EXCEPT !.pc = pc, !.err = TRUE]
      PROVE  op'.pc = pc /\ op'.i = op.i
  BY <1>a, <1>c, <1>g, GotoGoes, ErrGoes, Zenon DEF OpGoes
<1> DEFINE Early == Steps \ {"servers", "pods", "secrets", "recheck", "remove"}
<1>h. \A pc \in {"hmac", "getHMAC", "children", "crb", "scale"} : pc \in Early /\ pc \in Steps
  BY DEF Steps
<1>i. \A pc \in {"servers", "pods", "secrets", "recheck", "remove"} : pc \in Steps
  BY DEF Steps
<1>j. Read("deploy", op.i) = api.deploy[op.i] /\ Read("server", op.i) = api.server[op.i]
  BY DEF Fresh, Read
<1>1. CASE AddFinalizer
  <2>1. CASE op' = Idle /\ UNCHANGED api
    BY <2>1, <1>a, <1>d, <1>f, OFrame
  <2>2. CASE Put("inst", op.i, Final) /\ Goto("hmac")
    <3>1. op'.pc \in Early
      BY <2>2, <1>g, <1>h
    <3>2. CASE op.i # i
      BY <2>2, <3>1, <3>2, <1>a, <1>b, <1>e, OFrame
    <3>3. CASE op.i = i
      BY <2>2, <3>1, <3>3, <1>a, InstAt, FourStates DEF TakenDown
    <3> QED
      BY <3>2, <3>3
  <2> QED
    BY <1>1, <2>1, <2>2 DEF AddFinalizer, Final
<1>2. CASE EnsureHMAC \/ GetHMAC
  <2>1. op' = Idle \/ Goto("getHMAC") \/ Goto("children")
    BY <1>2 DEF EnsureHMAC, GetHMAC, Retry
  <2>2. op'.pc \in Early
    BY <2>1, <1>f, <1>g, <1>h
  <2>3. UNCHANGED api \/ Put("hmac", op.i, 1)
    BY <1>2 DEF EnsureHMAC, GetHMAC, Retry
  <2> QED
    BY <2>2, <2>3, <1>a, <1>b, <1>d, <1>e, OFrame
<1>3. CASE ApplyChildren
  <2>1. Goto("crb") \/ op' = [op EXCEPT !.pc = "crb", !.err = TRUE]
    BY <1>3, Zenon DEF ApplyChildren
  <2>2. op'.pc \in Early
    BY <2>1, <1>g, <1>h
  <2>3. UNCHANGED api \/ Put("deploy", op.i, "up")
    BY <1>3, Zenon DEF ApplyChildren
  <2>4. CASE UNCHANGED api \/ op.i # i
    BY <2>2, <2>3, <2>4, <1>a, <1>b, <1>d, <1>e, OFrame
  <2>5. CASE Put("deploy", op.i, "up") /\ op.i = i
    <3>1. api.inst[i] \in {Final, Going}
      BY <1>3, <1>a, <2>5 DEF ApplyChildren, PassIsApt
    <3> QED
      BY <2>2, <2>5, <3>1, <1>a, DeployAt, FourStates DEF TakenDown
  <2> QED
    BY <2>3, <2>4, <2>5
<1>4. CASE ReadBinding \/ applyAuthDelegatorCRB \/ RequestFails
  <2>1. UNCHANGED api
    BY <1>4 DEF ReadBinding, applyAuthDelegatorCRB, RequestFails, Retry
  <2>2. op'.pc \in Early
    <3>1. CASE ReadBinding
      <4>1. op'.pc = "crbWrite"
        BY <3>1, <1>a DEF ReadBinding, OpType
      <4> QED
        BY <4>1 DEF Steps
    <3>2. CASE applyAuthDelegatorCRB
      <4>1. op' = Idle \/ Goto("scale")
        BY <3>2 DEF applyAuthDelegatorCRB, AfterBinding, Retry
      <4> QED
        BY <4>1, <1>f, <1>g, <1>h
    <3>3. CASE RequestFails
      <4>1. op' = Idle \/ op' = [op EXCEPT !.pc = "crb", !.err = TRUE]
        BY <3>3, Zenon DEF RequestFails
      <4> QED
        BY <4>1, <1>f, <1>g, <1>h, Zenon
    <3> QED
      BY <1>4, <3>1, <3>2, <3>3
  <2> QED
    BY <2>1, <2>2, <1>a, <1>d, OFrame
<1>5. CASE scaleMCPToZero
  <2>1. CASE op' = Idle /\ UNCHANGED api
    BY <2>1, <1>a, <1>d, <1>f, OFrame
  <2>2. CASE Goto("servers") /\ UNCHANGED api /\ api.deploy[op.i] # "up"
    <3>1. op'.pc = "servers" /\ op'.i = op.i
      BY <2>2, <1>g, <1>i
    <3> QED
      BY <2>2, <3>1, <1>a DEF TakenDown, Down
  <2>3. CASE Goto("servers") /\ Put("deploy", op.i, "zero")
    <3>1. op'.pc = "servers" /\ op'.i = op.i
      BY <2>3, <1>g, <1>i
    <3>2. CASE op.i # i
      BY <2>3, <3>1, <3>2, <1>a, <1>b, <1>e, OFrame
    <3>3. CASE op.i = i
      BY <2>3, <3>1, <3>3, <1>a, DeployAt DEF TakenDown, Down
    <3> QED
      BY <3>2, <3>3
  <2> QED
    BY <1>5, <1>j, <2>1, <2>2, <2>3 DEF scaleMCPToZero, Retry
<1>6. CASE ListServers \/ Recheck
  <2>1. CASE op' = Idle /\ UNCHANGED api
    BY <2>1, <1>a, <1>d, <1>f, OFrame
  <2>2. CASE Goto("pods") /\ UNCHANGED api /\ api.server[op.i] = "none" /\ op.pc = "servers"
    <3>1. op'.pc = "pods" /\ op'.i = op.i
      BY <2>2, <1>g, <1>i
    <3> QED
      BY <2>2, <3>1, <1>a DEF TakenDown, Down
  <2>3. CASE Goto("remove") /\ UNCHANGED api /\ op.pc = "recheck"
    <3>1. op'.pc = "remove" /\ op'.i = op.i
      BY <2>3, <1>g, <1>i
    <3> QED
      BY <2>3, <3>1, <1>a DEF TakenDown, Down
  <2> QED
    BY <1>6, <1>j, <2>1, <2>2, <2>3 DEF ListServers, Recheck, Wait
<1>7. CASE DeleteSandboxPods
  <2>1. op'.pc = "secrets" /\ op'.i = op.i /\ op.pc = "pods"
    BY <1>7, <1>g, <1>i DEF DeleteSandboxPods
  <2>2. PICK v \in {"none", "terminating"} : Put("sandbox", op.i, v)
    BY <1>7 DEF DeleteSandboxPods
  <2>3. CASE op.i # i
    BY <2>1, <2>2, <2>3, <1>a, <1>b, <1>e, OFrame
  <2>4. CASE op.i = i
    BY <2>1, <2>2, <2>4, <1>a, SandboxAt DEF TakenDown, Down
  <2> QED
    BY <2>3, <2>4
<1>8. CASE DeleteSessionSecrets
  <2>1. /\ op'.pc = "recheck" /\ op'.i = op.i /\ op.pc = "secrets"
        /\ Put("secret", op.i, FALSE)
    BY <1>8, <1>g, <1>i DEF DeleteSessionSecrets
  <2>2. CASE op.i # i
    BY <2>1, <2>2, <1>a, <1>b, <1>e, OFrame
  <2>3. CASE op.i = i
    <3>1. /\ api'.inst[i] = api.inst[i] /\ api'.deploy[i] = api.deploy[i]
          /\ api'.server[i] = api.server[i] /\ api'.sandbox[i] = api.sandbox[i]
      BY <1>a, <1>c, <1>b, <2>1, PutOne DEF Kinds
    <3>2. Put("secret", i, FALSE)
      BY <2>1, <2>3, Zenon
    <3>3. api'.secret[i] = FALSE
      BY <1>a, <3>2 DEF Put, Objects
    <3> QED
      BY <1>a, <2>1, <2>3, <3>1, <3>3 DEF TakenDown, Down
  <2> QED
    BY <2>2, <2>3
<1>9. CASE RemoveFinalizer
  <2>1. op' = Idle /\ Put("inst", op.i, NoInst) /\ op.pc = "remove"
    BY <1>9 DEF RemoveFinalizer
  <2>2. op'.pc \in Early
    BY <2>1, <1>f
  <2>3. CASE op.i # i
    BY <2>1, <2>2, <2>3, <1>a, <1>b, <1>e, OFrame
  <2>4. CASE op.i = i
    BY <2>1, <2>2, <2>4, <1>a, InstAt DEF TakenDown, Down
  <2> QED
    BY <2>3, <2>4
<1> QED
  BY <1>1, <1>2, <1>3, <1>4, <1>5, <1>6, <1>7, <1>8, <1>9 DEF PassStep

\* With LInv, OInv is inductive.
LEMMA ONext == LInv /\ OInv /\ [Next]_vars => OInv'
<1> SUFFICES ASSUME LInv, OInv, [Next]_vars PROVE OInv'
  OBVIOUS
<1>1. CallsFn'
  BY DEF OInv, CallsFn, Next, vars, CreateInstance, DeleteInstance, OwnerGC, ServerStep,
     SessionSecret, SessionPod, SandboxRemoved, TimerFires, Reconcile, Deliver,
     AdminDeletesBinding, PassStep, RequestFails, AddFinalizer, EnsureHMAC, GetHMAC,
     ApplyChildren, ReadBinding, applyAuthDelegatorCRB, scaleMCPToZero, ListServers,
     DeleteSandboxPods, DeleteSessionSecrets, Recheck, RemoveFinalizer, env
<1>2. UNCHANGED setting
  BY DEF Next, vars, CreateInstance, DeleteInstance, OwnerGC, ServerStep, others,
     SessionSecret, SessionPod, SandboxRemoved, TimerFires, Reconcile, Deliver,
     AdminDeletesBinding, PassStep, RequestFails, AddFinalizer, EnsureHMAC, GetHMAC,
     ApplyChildren, ReadBinding, applyAuthDelegatorCRB, scaleMCPToZero, ListServers,
     DeleteSandboxPods, DeleteSessionSecrets, Recheck, RemoveFinalizer, env
<1>3. ASSUME Fresh, NEW i \in Instances PROVE TakenDown(i)'
  <2>a. TakenDown(i)
    BY <1>3 DEF OInv
  <2>1. ASSUME UNCHANGED <<api, call, op>> PROVE TakenDown(i)'
    BY <2>1, <2>a, OFrame DEF Same
  <2>2. ASSUME NEW j \in Instances, Reconcile(j) PROVE TakenDown(i)'
    <3>1. UNCHANGED <<api, call>>
      BY <2>2 DEF Reconcile, env
    <3>2. \/ UNCHANGED op
          \/ \E pc \in {"crb", "hmac", "finalizer"}, fin \in BOOLEAN :
                op' = [Idle EXCEPT !.pc = pc, !.i = j, !.fin = fin]
      BY <2>2, Zenon DEF Reconcile
    <3>3. UNCHANGED op \/ op'.pc \in {"crb", "hmac", "finalizer"}
      BY <3>2 DEF Idle
    <3> QED
      BY <3>1, <3>3, <2>a, OFrame DEF Same, Steps
  <2>3. CASE PassStep \/ RequestFails
    BY <1>3, <2>3, WorkerKeeps
  <2>4. ASSUME NEW j \in Instances, TimerFires(j) PROVE TakenDown(i)'
    BY <2>4, <2>1 DEF TimerFires
  <2>5. CASE AdminDeletesBinding \/ (\E kind \in Kinds : Deliver(kind)) \/ UNCHANGED vars
    BY <2>5, <2>1 DEF AdminDeletesBinding, Deliver, vars
  <2> QED
    BY <1>3, <2>2, <2>3, <2>4, <2>5, OutsideKeeps DEF Next
<1> QED
  BY <1>1, <1>2, <1>3 DEF OInv, Fresh

\* finalize leaves no sandbox pod to stay and no session Secret, for any number of
\* instances, of failing requests and of calls that its stopping servers still
\* serve, if its reads of the Deployment and of the server pods are up to date.
THEOREM NothingIsLeft == Spec => []FreshListLeavesNoOrphans
<1>1. OInv => FreshListLeavesNoOrphans
  BY FourStates DEF OInv, Fresh, TakenDown, Down, FreshListLeavesNoOrphans, NoOrphans
<1>2. Init => LInv /\ OInv
  BY LInit, OInit
<1>3. LInv /\ OInv /\ [Next]_vars => (LInv /\ OInv)'
  BY LNext, ONext
<1> QED
  BY <1>1, <1>2, <1>3, PTL DEF Spec

============================================================================
