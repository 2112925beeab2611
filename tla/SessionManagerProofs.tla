------------------------ MODULE SessionManagerProofs ------------------------
(***************************************************************************)
(* Tool calls for any number of calls, sessions, pods and replicas: a      *)
(* command is run at most twice, and a call that claims or creates a pod   *)
(* does so soon after the egress proxy was last seen in order, whatever    *)
(* the TTL of a verdict and the duration of a lookup.                      *)
(***************************************************************************)
EXTENDS SessionManager, TLAPS

-----------------------------------------------------------------------------
(* How a call moves.                                                       *)

Shape(r) == r = [pc |-> r.pc, stage |-> r.stage, pod |-> r.pod, name |-> r.name,
                 replaced |-> r.replaced, reset |-> r.reset]

CallsAre == call = [c \in Claims |-> call[c]] /\ \A c \in Claims : Shape(call[c])

Has(r, pc, replaced) == Shape(r) /\ r.pc = pc /\ r.replaced = replaced

\* c goes to pc, and no other call moves.
Goes(c, pc, replaced) ==
    /\ Has(call'[c], pc, replaced)
    /\ \A d \in Claims \ {c} : call'[d] = call[d]
    /\ call' = [d \in Claims |-> call'[d]]

\* An assignment to a field leaves the other fields.
LEMMA OneField ==
    ASSUME NEW r, Shape(r), NEW x
    PROVE  /\ Has([r EXCEPT !.pc = x], x, r.replaced)
           /\ Has([r EXCEPT !.stage = x], r.pc, r.replaced)
           /\ Has([r EXCEPT !.pod = x], r.pc, r.replaced)
           /\ Has([r EXCEPT !.name = x], r.pc, r.replaced)
           /\ Has([r EXCEPT !.reset = x], r.pc, r.replaced)
           /\ Has([r EXCEPT !.replaced = x], r.pc, x)
BY DEF Shape, Has

\* The same for the two fields that a step assigns to.
LEMMA TwoFields ==
    ASSUME NEW r, Shape(r), NEW x, NEW y
    PROVE  /\ Has([r EXCEPT !.pc = x, !.stage = y], x, r.replaced)
           /\ Has([r EXCEPT !.pc = x, !.pod = y], x, r.replaced)
           /\ Has([r EXCEPT !.pc = x, !.name = y], x, r.replaced)
           /\ Has([r EXCEPT !.pc = x, !.reset = y], x, r.replaced)
           /\ Has([r EXCEPT !.pc = x, !.replaced = y], x, y)
<1> DEFINE q == [r EXCEPT !.pc = x]
<1>1. Has(q, x, r.replaced)
  BY OneField
<1>2. Shape(q) /\ q.pc = x /\ q.replaced = r.replaced
  BY <1>1 DEF Has
<1> HIDE DEF q
<1>3. /\ Has([q EXCEPT !.stage = y], x, r.replaced)
      /\ Has([q EXCEPT !.pod = y], x, r.replaced)
      /\ Has([q EXCEPT !.name = y], x, r.replaced)
      /\ Has([q EXCEPT !.reset = y], x, r.replaced)
      /\ Has([q EXCEPT !.replaced = y], x, y)
  BY <1>2, OneField
<1> QED
  BY <1>3, Zenon DEF q

\* An assignment to one call's record moves that call alone.
LEMMA RecordGoes ==
    ASSUME CallsAre, NEW c \in Claims, NEW r, NEW pc, NEW replaced,
           Has(r, pc, replaced), call' = [call EXCEPT ![c] = r]
    PROVE  Goes(c, pc, replaced)
BY DEF CallsAre, Goes

\* Step keeps everything but the place.
LEMMA StepGoes ==
    ASSUME CallsAre, NEW c \in Claims, NEW pc, Step(c, pc)
    PROVE  Goes(c, pc, call[c].replaced)
<1>1. call' = [call EXCEPT ![c] = [call[c] EXCEPT !.pc = pc]]
  BY DEF Step, CallsAre
<1> QED
  BY <1>1, OneField, RecordGoes DEF CallsAre

\* StepPod assigns the pod too.
LEMMA StepPodGoes ==
    ASSUME CallsAre, NEW c \in Claims, NEW pc, NEW p, StepPod(c, pc, p)
    PROVE  Goes(c, pc, call[c].replaced)
<1>1. call' = [call EXCEPT ![c] = [call[c] EXCEPT !.pc = pc, !.pod = p]]
  BY DEF StepPod, CallsAre
<1>2. Shape(call[c])
  BY DEF CallsAre
<1>3. Has([call[c] EXCEPT !.pc = pc, !.pod = p], pc, call[c].replaced)
  BY <1>2, TwoFields
<1> QED
  BY <1>1, <1>3, RecordGoes

\* StepDiscover assigns the stage.
LEMMA StepDiscoverGoes ==
    ASSUME CallsAre, NEW c \in Claims, NEW stage, StepDiscover(c, stage)
    PROVE  Goes(c, "discover", call[c].replaced)
<1>1. call' = [call EXCEPT ![c] = [call[c] EXCEPT !.pc = "discover", !.stage = stage]]
  BY DEF StepDiscover, CallsAre
<1>2. Shape(call[c])
  BY DEF CallsAre
<1>3. Has([call[c] EXCEPT !.pc = "discover", !.stage = stage], "discover", call[c].replaced)
  BY <1>2, TwoFields
<1> QED
  BY <1>1, <1>3, RecordGoes

\* GetOrCreatePod, without the gate and the pod it settles on
Lookup == {"lookup", "discover", "found", "claim", "waitClaim", "sibling", "cleanup",
           "unsecret", "secret", "create", "waitCreate"}

\* From the first Execute that failed to the second
Recovering == {"assign", "recover", "recoverWait", "reassign"}

\* The ways of a call through PodStep, and whether its command is run.
PodMove(c) ==
    \/ /\ call[c].pc \in Lookup /\ UNCHANGED ran
       /\ \/ UNCHANGED call
          \/ \E pc \in Lookup \cup {"gate", "error"} : Goes(c, pc, call[c].replaced)
          \/ call[c].replaced /\ Goes(c, "reassign", call[c].replaced)
          \/ ~call[c].replaced /\ Goes(c, "capture", call[c].replaced)
    \/ /\ call[c].pc = "capture" /\ UNCHANGED ran
       /\ Goes(c, "exec", call[c].replaced)
    \/ /\ call[c].pc = "exec" /\ (UNCHANGED ran \/ Ran(c))
       /\ \E pc \in {"done", "error", "recover", "assign"} : Goes(c, pc, call[c].replaced)
    \/ /\ call[c].pc \in Recovering /\ UNCHANGED ran
       /\ \/ \E pc \in Recovering \cup {"rexec", "error"} : Goes(c, pc, call[c].replaced)
          \/ Goes(c, "lookup", TRUE)
    \/ /\ call[c].pc = "rexec" /\ (UNCHANGED ran \/ Ran(c))
       /\ \E pc \in {"done", "error"} : Goes(c, pc, call[c].replaced)

\* GetOrCreatePod's result goes to ExecuteCommand or to podForRecovery.
LEMMA ResolvedGoes ==
    ASSUME CallsAre, NEW c \in Claims, NEW p, Resolved(c, p)
    PROVE  \/ call[c].replaced /\ Goes(c, "reassign", call[c].replaced)
           \/ ~call[c].replaced /\ Goes(c, "capture", call[c].replaced)
<1>1. CASE call[c].replaced
  <2>1. StepPod(c, "reassign", p)
    BY <1>1 DEF Resolved
  <2> QED
    BY <1>1, <2>1, StepPodGoes
<1>2. CASE ~call[c].replaced
  <2>1. StepPod(c, "capture", p)
    BY <1>2 DEF Resolved
  <2> QED
    BY <1>2, <2>1, StepPodGoes
<1> QED
  BY <1>1, <1>2

\* The remaining assignments to a call's record.
LEMMA OtherGoes ==
    ASSUME CallsAre, NEW c \in Claims
    PROVE  /\ CaptureName(c) => Goes(c, "exec", call[c].replaced)
           /\ \A p : Answer(c, p) => Goes(c, "done", call[c].replaced)
           /\ \A p : Assigned200(c, p) => Goes(c, "rexec", call[c].replaced)
           /\ Replace(c) => Goes(c, "lookup", TRUE)
<1>a. Shape(call[c])
  BY DEF CallsAre
<1>1. ASSUME CaptureName(c) PROVE Goes(c, "exec", call[c].replaced)
  <2>1. call' = [call EXCEPT ![c] = [call[c] EXCEPT !.pc = "exec", !.name = Cached(c)]]
    BY <1>1 DEF CaptureName, CallsAre
  <2>2. Has([call[c] EXCEPT !.pc = "exec", !.name = Cached(c)], "exec", call[c].replaced)
    BY <1>a, TwoFields
  <2> QED
    BY <2>1, <2>2, RecordGoes
<1>2. ASSUME NEW p, Answer(c, p) PROVE Goes(c, "done", call[c].replaced)
  <2> DEFINE reset == call[c].reset \/ call[c].replaced
  <2>1. call' = [call EXCEPT ![c] = [call[c] EXCEPT !.pc = "done", !.reset = reset]]
    BY <1>2 DEF Answer, CallsAre
  <2> HIDE DEF reset
  <2>2. Has([call[c] EXCEPT !.pc = "done", !.reset = reset], "done", call[c].replaced)
    BY <1>a, TwoFields
  <2> QED
    BY <2>1, <2>2, RecordGoes
<1>3. ASSUME NEW p, Assigned200(c, p) PROVE Goes(c, "rexec", call[c].replaced)
  <2>1. call' = [call EXCEPT ![c] = [call[c] EXCEPT !.pc = "rexec", !.reset = TRUE]]
    BY <1>3 DEF Assigned200, CallsAre
  <2>2. Has([call[c] EXCEPT !.pc = "rexec", !.reset = TRUE], "rexec", call[c].replaced)
    BY <1>a, TwoFields
  <2> QED
    BY <2>1, <2>2, RecordGoes
<1>4. ASSUME Replace(c) PROVE Goes(c, "lookup", TRUE)
  <2>1. call' = [call EXCEPT ![c] = [call[c] EXCEPT !.pc = "lookup", !.replaced = TRUE]]
    BY <1>4 DEF Replace, CallsAre
  <2>2. Has([call[c] EXCEPT !.pc = "lookup", !.replaced = TRUE], "lookup", TRUE)
    BY <1>a, TwoFields
  <2> QED
    BY <2>1, <2>2, RecordGoes
<1> QED
  BY <1>1, <1>2, <1>3, <1>4

\* The handlers of GetOrCreatePod.
LEMMA LookupMoves ==
    ASSUME CallsAre, NEW c \in Claims,
           \/ CacheGet(c) \/ discoverPod(c) \/ WaitDiscovered(c) \/ Claiming(c)
           \/ ClaimReturned(c) \/ WaitClaimed(c) \/ lookupAssignedSibling(c)
           \/ CreateSandboxSecret(c) \/ CreateSandboxPod(c) \/ WaitCreated(c)
           \/ CleanupFailedPod(c) \/ CleanupFailedSecret(c)
    PROVE  PodMove(c)
<1> USE StepGoes, StepPodGoes, StepDiscoverGoes, ResolvedGoes
        DEF PodMove, Lookup, At, Sessionless, historyVars, managerVars, ResolvedAndCached
<1>1. CASE CacheGet(c)
  BY <1>1 DEF CacheGet
<1>2. CASE discoverPod(c)
  <2>1. call[c].pc = "discover" /\ UNCHANGED ran
    BY <1>2 DEF discoverPod
  <2>2. ASSUME NothingFound(c)
        PROVE  Step(c, "gate") \/ Step(c, "claim") \/ Step(c, "secret") \/ Step(c, "error")
    BY <2>2, <1>2 DEF NothingFound, StartClaim
  <2>3. \/ \E p \in Pods : Resolved(c, p) \/ StepPod(c, "found", p)
        \/ Step(c, "gate") \/ Step(c, "claim") \/ Step(c, "secret") \/ Step(c, "error")
    BY <1>2, <2>2 DEF discoverPod, Oldest, Listed
  <2> QED
    BY <2>1, <2>3
<1>3. CASE WaitDiscovered(c)
  BY <1>3 DEF WaitDiscovered
<1>4. CASE Claiming(c)
  BY <1>4 DEF Claiming
<1>5. CASE ClaimReturned(c)
  BY <1>5 DEF ClaimReturned
<1>6. CASE WaitClaimed(c)
  BY <1>6 DEF WaitClaimed
<1>7. CASE lookupAssignedSibling(c)
  BY <1>7 DEF lookupAssignedSibling
<1>8. CASE CreateSandboxSecret(c)
  BY <1>8 DEF CreateSandboxSecret
<1>9. CASE CreateSandboxPod(c)
  BY <1>9 DEF CreateSandboxPod
<1>10. CASE WaitCreated(c)
  BY <1>10 DEF WaitCreated
<1>11. CASE CleanupFailedPod(c) \/ CleanupFailedSecret(c)
  BY <1>11 DEF CleanupFailedPod, CleanupFailedSecret
<1> QED
  BY <1>1, <1>2, <1>3, <1>4, <1>5, <1>6, <1>7, <1>8, <1>9, <1>10, <1>11

\* The handlers of ExecuteCommand.
LEMMA ExecMoves ==
    ASSUME CallsAre, NEW c \in Claims,
           \/ CaptureName(c) \/ executeWhenAssigned(c) \/ recoverSession(c)
           \/ waitRecoveredPod(c) \/ RecoveredPodReady(c) \/ recoverOnNewPod(c)
           \/ ExecuteAgain(c)
    PROVE  PodMove(c)
<1> USE DEF PodMove, Recovering, At, Sessionless, historyVars
<1>1. CASE CaptureName(c)
  <2>1. Goes(c, "exec", call[c].replaced)
    BY <1>1, OtherGoes
  <2> QED
    BY <1>1, <2>1 DEF CaptureName
<1>2. CASE executeWhenAssigned(c)
  <2>1. call[c].pc = "exec"
    BY <1>2 DEF executeWhenAssigned
  <2>2. /\ \/ \E p : Answer(c, p)
           \/ \E pc \in {"assign", "error", "recover"} : Step(c, pc)
        /\ UNCHANGED ran \/ Ran(c)
    BY <1>2 DEF executeWhenAssigned, NoAnswer, Answer
  <2>3. \E pc \in {"done", "error", "recover", "assign"} : Goes(c, pc, call[c].replaced)
    BY <2>2, StepGoes, OtherGoes
  <2> QED
    BY <2>1, <2>2, <2>3
<1>3. CASE recoverSession(c)
  <2>1. call[c].pc = "assign" /\ UNCHANGED ran
    BY <1>3 DEF recoverSession
  <2>2. \/ \E p : Assigned200(c, p)
        \/ \E pc \in {"rexec", "recover", "error"} : Step(c, pc)
    BY <1>3 DEF recoverSession, Assigned409, AssignLost
  <2>3. \E pc \in Recovering \cup {"rexec", "error"} : Goes(c, pc, call[c].replaced)
    BY <2>2, StepGoes, OtherGoes
  <2> QED
    BY <2>1, <2>3
<1>4. CASE waitRecoveredPod(c) \/ RecoveredPodReady(c)
  <2>1. call[c].pc \in {"recover", "recoverWait"} /\ UNCHANGED ran
    BY <1>4 DEF waitRecoveredPod, RecoveredPodReady
  <2>2. \/ Replace(c)
        \/ \E q : StepPod(c, "reassign", q)
        \/ \E pc \in {"recoverWait", "error"} : Step(c, pc)
    BY <1>4 DEF waitRecoveredPod, RecoveredPodReady, Keep
  <2>3. \/ \E pc \in Recovering \cup {"rexec", "error"} : Goes(c, pc, call[c].replaced)
        \/ Goes(c, "lookup", TRUE)
    BY <2>2, StepGoes, StepPodGoes, OtherGoes
  <2> QED
    BY <2>1, <2>3
<1>5. CASE recoverOnNewPod(c)
  <2>1. call[c].pc = "reassign" /\ UNCHANGED ran
    BY <1>5 DEF recoverOnNewPod
  <2>2. \/ \E p : Assigned200(c, p)
        \/ \E pc \in {"rexec", "error"} : Step(c, pc)
    BY <1>5 DEF recoverOnNewPod, Assigned409, AssignLost
  <2>3. \E pc \in Recovering \cup {"rexec", "error"} : Goes(c, pc, call[c].replaced)
    BY <2>2, StepGoes, OtherGoes
  <2> QED
    BY <2>1, <2>3
<1>6. CASE ExecuteAgain(c)
  <2>1. call[c].pc = "rexec"
    BY <1>6 DEF ExecuteAgain
  <2>2. /\ (\E p : Answer(c, p)) \/ Step(c, "error")
        /\ UNCHANGED ran \/ Ran(c)
    BY <1>6 DEF ExecuteAgain, NoAnswer, Answer
  <2>3. \E pc \in {"done", "error"} : Goes(c, pc, call[c].replaced)
    BY <2>2, StepGoes, OtherGoes
  <2> QED
    BY <2>1, <2>2, <2>3
<1> QED
  BY <1>1, <1>2, <1>3, <1>4, <1>5, <1>6

\* Every step of a call's way to and through ExecuteCommand.
LEMMA PodStepMoves ==
    ASSUME CallsAre, NEW c \in Claims, PodStep(c)
    PROVE  PodMove(c)
BY LookupMoves, ExecMoves DEF PodStep

\* The step of a call to or through the gate.
GateMove(c) ==
    \/ /\ call[c].pc = "gate" /\ UNCHANGED gateVars
       /\ \/ /\ cachedProxyGate(ReplicaOf[c]) /\ gate[ReplicaOf[c]].verdict = "open"
             /\ Goes(c, "claim", call[c].replaced)
          \/ Goes(c, "join", call[c].replaced)
          \/ Goes(c, "error", call[c].replaced)
    \/ /\ call[c].pc = "join" /\ Join(ReplicaOf[c], c \in Faulty)
       /\ Goes(c, "gateWait", call[c].replaced)
    \/ /\ call[c].pc = "gateWait" /\ UNCHANGED gateVars
       /\ Goes(c, "error", call[c].replaced)

\* ensureProxyReady and its singleflight, seen from one call.
LEMMA GateMoves ==
    ASSUME CallsAre, NEW c \in Claims, ensureProxyReady(c) \/ JoinLookup(c) \/ LeaveLookup(c)
    PROVE  GateMove(c) /\ UNCHANGED ran
<1>1. CASE ensureProxyReady(c)
  <2>1. call[c].pc = "gate" /\ UNCHANGED <<gateVars, ran>>
    BY <1>1 DEF ensureProxyReady, At, Managed, historyVars
  <2>2. \/ Step(c, "join") \/ Step(c, "error")
        \/ cachedProxyGate(ReplicaOf[c]) /\ gate[ReplicaOf[c]].verdict = "open" /\ Step(c, "claim")
    BY <1>1 DEF ensureProxyReady, StartClaim
  <2> QED
    BY <2>1, <2>2, StepGoes DEF GateMove
<1>2. CASE JoinLookup(c)
  BY <1>2, StepGoes DEF JoinLookup, At, Managed, historyVars, GateMove
<1>3. CASE LeaveLookup(c)
  BY <1>3, StepGoes DEF LeaveLookup, At, Managed, historyVars, GateMove, gateVars
<1> QED
  BY <1>1, <1>2, <1>3

-----------------------------------------------------------------------------
(* A command is run at most twice.                                         *)

\* Before the first Execute nothing has been run; podForRecovery sends a call back
\* to GetOrCreatePod at most once, and then it goes to the one recovery exec.
RanSoFar(c) ==
    LET r == call[c] IN
    /\ ran[c] \in Nat /\ ran[c] <= 2
    /\ r.pc \notin {"done", "error"} => ran[c] <= 1
    /\ r.pc \in {"capture", "exec"} => ~r.replaced
    /\ r.pc \in Lookup \cup {"never", "idle", "gate", "join", "gateWait", "capture", "exec"}
         /\ ~r.replaced => ran[c] = 0
    /\ r.pc \in {"never", "idle"} => ~r.replaced

RanInv == CallsAre /\ ran = [c \in Claims |-> ran[c]] /\ \A c \in Claims : RanSoFar(c)

\* A call that has run its command and is past the first Execute.
LEMMA Outside ==
    ASSUME NEW c \in Claims, ran'[c] \in Nat, ran'[c] <= 2,
           call'[c].pc \in {"done", "error", "recover", "assign"},
           call'[c].pc \notin {"done", "error"} => ran'[c] <= 1
    PROVE  RanSoFar(c)'
<1>1. call'[c].pc \notin Lookup \cup {"never", "idle", "gate", "join", "gateWait",
                                    "capture", "exec"}
  BY DEF Lookup
<1>2. call'[c].pc \notin {"capture", "exec"} /\ call'[c].pc \notin {"never", "idle"}
  BY <1>1
<1> QED
  BY <1>1, <1>2, Zenon DEF RanSoFar

\* No call has been made.
LEMMA RanInit == Init => RanInv
<1> SUFFICES ASSUME Init PROVE RanInv
  OBVIOUS
<1>1. PICK w \in Workloads : call = [c \in Claims |->
                       [NewCall EXCEPT !.pc = IF c \in w.calls THEN "idle" ELSE "never"]]
  BY DEF Init
<1>2. Shape(NewCall) /\ NewCall.replaced = FALSE
  BY DEF Shape, NewCall
<1>3. ASSUME NEW c \in Claims
      PROVE  Has(call[c], "idle", FALSE) \/ Has(call[c], "never", FALSE)
  <2> DEFINE pc == IF c \in w.calls THEN "idle" ELSE "never"
  <2>1. call[c] = [NewCall EXCEPT !.pc = pc]
    BY <1>1, <1>3
  <2>2. pc \in {"idle", "never"}
    OBVIOUS
  <2> HIDE DEF pc
  <2>3. Has([NewCall EXCEPT !.pc = pc], pc, FALSE)
    BY <1>2, OneField
  <2> QED
    BY <2>1, <2>2, <2>3
<1>4. CallsAre
  BY <1>1, <1>3 DEF CallsAre, Has
<1>5. ran = [c \in Claims |-> 0]
  BY DEF Init
<1>6. ASSUME NEW c \in Claims PROVE RanSoFar(c)
  <2>1. call[c].pc \in {"idle", "never"} /\ call[c].replaced = FALSE
    BY <1>3 DEF Has
  <2>2. ran[c] = 0
    BY <1>5
  <2> QED
    BY <2>1, <2>2 DEF RanSoFar
<1> QED
  BY <1>4, <1>5, <1>6 DEF RanInv

\* A call that stays where it is, or moves as one of the ways above.
LEMMA MoveKeepsRan ==
    ASSUME RanInv, NEW c \in Claims,
           \/ PodMove(c)
           \/ GateMove(c) /\ UNCHANGED ran
           \/ call[c].pc = "idle" /\ Goes(c, "lookup", call[c].replaced) /\ UNCHANGED ran
    PROVE  RanInv'
<1>1. CASE UNCHANGED <<call, ran>>
  BY <1>1 DEF RanInv, RanSoFar, CallsAre
<1>2. CASE ~UNCHANGED <<call, ran>>
  <2>1. PICK pc, replaced : Goes(c, pc, replaced)
    BY <1>2 DEF PodMove, GateMove
  <2>2. CallsAre'
    BY <2>1 DEF Goes, Has, RanInv, CallsAre
  <2>3. ran' = [d \in Claims |-> ran'[d]] /\ \A d \in Claims \ {c} : ran'[d] = ran[d]
    BY DEF PodMove, Ran, RanInv
  <2>4. \A d \in Claims \ {c} : RanSoFar(d)'
    BY <2>1, <2>3 DEF Goes, RanInv, RanSoFar
  <2>5. RanSoFar(c)'
    <3>1. ran'[c] = ran[c] \/ ran'[c] = ran[c] + 1
      BY DEF PodMove, Ran, RanInv
    <3>2. RanSoFar(c)
      BY DEF RanInv
    <3>3. CASE call[c].pc \in Lookup
      BY <3>2, <3>3, <1>2 DEF PodMove, GateMove, Goes, Has, RanSoFar, Lookup, Recovering
    <3>4. CASE call[c].pc = "capture"
      BY <3>2, <3>4, <1>2 DEF PodMove, GateMove, Goes, Has, RanSoFar, Lookup, Recovering
    <3>5. CASE call[c].pc = "exec"
      <4>0. ran[c] = 0
        BY <3>2, <3>5, Zenon DEF RanSoFar
      <4>1. ran'[c] \in Nat /\ ran'[c] <= 1 /\ ran'[c] <= 2
        BY <3>1, <4>0
      <4>2. call'[c].pc \in {"done", "error", "recover", "assign"}
        BY <3>5, <1>2 DEF PodMove, GateMove, Goes, Has, Lookup, Recovering
      <4> QED
        BY <4>1, <4>2, Outside
    <3>6. CASE call[c].pc \in Recovering
      BY <3>2, <3>6, <1>2 DEF PodMove, GateMove, Goes, Has, RanSoFar, Lookup, Recovering
    <3>7. CASE call[c].pc = "rexec"
      <4>0. ran[c] \in Nat /\ ran[c] <= 1
        BY <3>2, <3>7, Zenon DEF RanSoFar
      <4>1. ran'[c] \in Nat /\ ran'[c] <= 2
        BY <3>1, <4>0
      <4>2. call'[c].pc \in {"done", "error"}
        BY <3>7, <1>2 DEF PodMove, GateMove, Goes, Has, Lookup, Recovering
      <4> QED
        BY <4>1, <4>2, Outside
    <3>8. CASE call[c].pc \in {"idle", "gate", "join", "gateWait"}
      BY <3>2, <3>8, <1>2 DEF PodMove, GateMove, Goes, Has, RanSoFar, Lookup, Recovering
    <3> QED
      BY <3>3, <3>4, <3>5, <3>6, <3>7, <3>8 DEF PodMove, GateMove
  <2> QED
    BY <2>2, <2>3, <2>4, <2>5 DEF RanInv
<1> QED
  BY <1>1, <1>2

\* What everybody else does leaves the calls alone.
LEMMA SurroundingsFrame ==
    ASSUME (Surroundings /\ UNCHANGED gateVars) \/ ProxyStep,
           \A c \in Claims : ~StartCall(c)
    PROVE  UNCHANGED <<call, ran>>
BY DEF Surroundings, ProxyStep, ExpireEntry, CleanupStep, CleanupSession, CleanupList,
       gcIdleAssigned, CleanupPod, CleanupSecret, KubeletStep, historyVars, managerVars

\* A finished lookup moves all the calls that wait for it.
LEMMA LookupKeepsRan ==
    ASSUME RanInv, NEW r \in Replicas, lookupProxyReady(r)
    PROVE  RanInv'
<1>a. UNCHANGED ran
  BY DEF lookupProxyReady, Managed, historyVars
<1>1. CASE UNCHANGED call
  BY <1>a, <1>1 DEF RanInv, RanSoFar, CallsAre
<1>2. CASE ~UNCHANGED call
  <2> DEFINE waiting == {c \in Claims : ReplicaOf[c] = r /\ At(c, "gateWait")}
  <2>1. PICK pc \in {"claim", "error"} :
           call' = [c \in Claims |-> IF c \notin waiting THEN call[c]
                                     ELSE [call[c] EXCEPT !.pc = pc]]
    <3>1. PICK verdict \in {"open", "shut"} :
             call' = [c \in Claims |-> IF c \notin waiting THEN call[c]
                       ELSE [call[c] EXCEPT !.pc = IF verdict = "open" THEN "claim" ELSE "error"]]
      BY <1>2 DEF lookupProxyReady
    <3>2. CASE verdict = "open"
      BY <3>1, <3>2
    <3>3. CASE verdict # "open"
      BY <3>1, <3>3
    <3> QED
      BY <3>2, <3>3
  <2>2. ASSUME NEW c \in Claims
        PROVE  \/ call'[c] = call[c]
               \/ call[c].pc = "gateWait" /\ Has(call'[c], pc, call[c].replaced)
    <3>1. Shape(call[c])
      BY DEF RanInv, CallsAre
    <3>2. Has([call[c] EXCEPT !.pc = pc], pc, call[c].replaced)
      BY <3>1, OneField
    <3> QED
      BY <2>1, <3>2 DEF At
  <2>3. CallsAre'
    BY <2>1, <2>2 DEF CallsAre, Has, RanInv
  <2>4. ASSUME NEW c \in Claims PROVE RanSoFar(c)'
    <3>1. RanSoFar(c)
      BY DEF RanInv
    <3>2. CASE call'[c] = call[c]
      BY <3>1, <3>2, <1>a DEF RanSoFar
    <3>3. CASE call[c].pc = "gateWait" /\ Has(call'[c], pc, call[c].replaced)
      BY <3>1, <3>3, <1>a DEF RanSoFar, Has, Lookup
    <3> QED
      BY <2>2, <3>2, <3>3
  <2> QED
    BY <2>3, <2>4, <1>a DEF RanInv
<1> QED
  BY <1>1, <1>2

\* RanInv is inductive.
LEMMA RanNext == RanInv /\ [Next]_vars => RanInv'
<1> SUFFICES ASSUME RanInv, [Next]_vars PROVE RanInv'
  OBVIOUS
<1>a. CallsAre
  BY DEF RanInv
<1>1. ASSUME NEW c \in Claims, CallStep(c) PROVE RanInv'
  BY <1>1, <1>a, PodStepMoves, GateMoves, MoveKeepsRan DEF CallStep
<1>2. ASSUME NEW r \in Replicas, lookupProxyReady(r) PROVE RanInv'
  BY <1>2, LookupKeepsRan
<1>3. ASSUME NEW c \in Claims, StartCall(c) PROVE RanInv'
  <2>1. call[c].pc = "idle" /\ Step(c, "lookup") /\ UNCHANGED ran
    BY <1>3 DEF StartCall, At, Sessionless, historyVars
  <2> QED
    BY <2>1, <1>a, StepGoes, MoveKeepsRan
<1>4. CASE UNCHANGED <<call, ran>>
  BY <1>4 DEF RanInv, RanSoFar, CallsAre
<1>5. UNCHANGED vars => UNCHANGED <<call, ran>>
  BY DEF vars, managerVars, historyVars
<1> QED
  BY <1>1, <1>2, <1>3, <1>4, <1>5, SurroundingsFrame DEF Next, Progress

\* However many answers are lost, pods replaced and calls concurrent, ExecuteCommand
\* runs a command once, and once more in its one recovery.
THEOREM CommandRunsAtMostTwice == Spec => []OneRecoveryExec
<1>1. RanInv => OneRecoveryExec
  BY DEF RanInv, RanSoFar, OneRecoveryExec
<1> QED
  BY <1>1, RanInit, RanNext, PTL DEF Spec

-----------------------------------------------------------------------------
(* Admission by the proxy gate.                                            *)

UpIsNotDown == \A x \in Parts : x \in proxy.up => proxy.down[x] = 0

\* A verdict that may still be used was true no longer ago than its age and the
\* duration of the lookup that brought it.
OpenIsRecent ==
    \A r \in Replicas : gate[r].verdict = "open" /\ gate[r].age < ProxyGateTTL =>
       \A x \in Parts : proxy.down[x] <= LookupTicks + gate[r].age

\* A lookup that has seen the endpoints has seen them since it began.
SeenIsRecent ==
    \A r \in Replicas : flight[r].pc = "get" => proxy.down["endpoints"] <= flight[r].age

GateInv == GateTypeOK /\ UpIsNotDown /\ OpenIsRecent /\ SeenIsRecent

\* The TTL and the bound on a lookup are numbers.
LEMMA GateNumbers ==
    /\ ProxyGateTTL \in Nat /\ ProxyGateTTL > 0 /\ LookupTicks \in Nat
    /\ MaxDown \in Nat /\ MaxDown = ProxyGateTTL + LookupTicks
BY GateAssumption DEF MaxDown

\* At the start nothing is down and no verdict is kept.
LEMMA GateInitInv == Init => GateInv
<1> SUFFICES ASSUME Init PROVE GateInv
  OBVIOUS
<1>1. PICK w \in Workloads : GateInit(w.gated)
  BY DEF Init
<1>2. w.gated \in BOOLEAN
  BY ManagerAssumption
<1> QED
  BY <1>1, <1>2, GateNumbers
     DEF GateInit, NoFlight, GateInv, GateTypeOK, UpIsNotDown, OpenIsRecent, SeenIsRecent

\* A caller joins the lookup of its replica.
LEMMA JoinKeeps ==
    ASSUME GateInv, NEW r \in Replicas, NEW faulty \in BOOLEAN, Join(r, faulty)
    PROVE  GateInv'
<1>1. UNCHANGED <<gate, proxy>>
  BY DEF Join
<1>2. flight' = flight \/ flight' = [flight EXCEPT ![r] = [pc |-> "check", faulty |-> faulty, age |-> 0]]
  BY DEF Join, NoFlight
<1>3. GateTypeOK'
  <2>1. [pc |-> "check", faulty |-> faulty, age |-> 0]
          \in [pc: {"none", "check", "list", "get"}, faulty: BOOLEAN, age: 0..LookupTicks]
    BY GateNumbers
  <2>2. flight' \in [Replicas -> [pc: {"none", "check", "list", "get"}, faulty: BOOLEAN,
                                  age: 0..LookupTicks]]
    BY <1>2, <2>1 DEF GateInv, GateTypeOK
  <2> QED
    BY <1>1, <2>2 DEF GateInv, GateTypeOK
<1>4. UpIsNotDown' /\ OpenIsRecent'
  BY <1>1 DEF GateInv, UpIsNotDown, OpenIsRecent
<1>5. SeenIsRecent'
  <2>1. \A q \in Replicas : flight'[q] = flight[q] \/ flight'[q].pc = "check"
    BY <1>2 DEF GateInv, GateTypeOK
  <2> QED
    BY <1>1, <2>1 DEF GateInv, SeenIsRecent
<1> QED
  BY <1>3, <1>4, <1>5 DEF GateInv

\* The lookup reads the endpoints.
LEMMA GoesOnKeeps ==
    ASSUME GateInv, NEW r \in Replicas, LookupGoesOn(r)
    PROVE  GateInv'
<1>1. UNCHANGED <<gate, proxy>>
  BY DEF LookupGoesOn
<1>2. flight[r] \in [pc: {"none", "check", "list", "get"}, faulty: BOOLEAN, age: 0..LookupTicks]
  BY DEF GateInv, GateTypeOK
<1>3. ASSUME NEW pc \in {"list", "get"}, flight' = [flight EXCEPT ![r].pc = pc],
             pc = "get" => "endpoints" \in proxy.up
      PROVE  GateInv'
  <2>1. flight'[r] = [pc |-> pc, faulty |-> flight[r].faulty, age |-> flight[r].age]
    BY <1>2, <1>3 DEF GateInv, GateTypeOK
  <2>2. flight' = [flight EXCEPT ![r] = flight'[r]]
    BY <1>3 DEF GateInv, GateTypeOK
  <2>3. GateTypeOK'
    BY <1>1, <1>2, <2>1, <2>2 DEF GateInv, GateTypeOK
  <2>4. UpIsNotDown' /\ OpenIsRecent'
    BY <1>1 DEF GateInv, UpIsNotDown, OpenIsRecent
  <2>5. pc = "get" => proxy.down["endpoints"] = 0
    BY <1>3 DEF GateInv, UpIsNotDown, Parts
  <2>6. flight[r].age >= 0
    BY <1>2, GateNumbers
  <2>7. SeenIsRecent'
    <3> SUFFICES ASSUME NEW q \in Replicas, flight'[q].pc = "get"
                 PROVE  proxy.down["endpoints"] <= flight'[q].age
      BY <1>1 DEF SeenIsRecent
    <3>1. CASE q = r
      BY <3>1, <2>1, <2>5, <2>6
    <3>2. CASE q # r
      BY <3>2, <2>2 DEF GateInv, GateTypeOK, SeenIsRecent
    <3> QED
      BY <3>1, <3>2
  <2> QED
    BY <2>3, <2>4, <2>7 DEF GateInv
<1> QED
  BY <1>3 DEF LookupGoesOn

\* It stores a verdict, or not, and is over.
LEMMA EndKeeps ==
    ASSUME GateInv, NEW r \in Replicas, NEW verdict \in {"open", "shut"}, LookupEnds(r, verdict)
    PROVE  GateInv'
<1>1. UNCHANGED proxy /\ flight' = [flight EXCEPT ![r] = NoFlight]
  BY DEF LookupEnds
<1>2. \/ UNCHANGED gate
      \/ /\ gate' = [gate EXCEPT ![r] = [verdict |-> verdict, age |-> 0]]
         /\ verdict = "open" => flight[r].pc = "get" /\ "policy" \in proxy.up
  BY DEF LookupEnds, storeProxyGate
<1>3. ASSUME flight[r].pc = "get", "policy" \in proxy.up
      PROVE  \A x \in Parts : proxy.down[x] <= LookupTicks
  <2>1. proxy.down["policy"] = 0 /\ proxy.down["endpoints"] <= flight[r].age
    BY <1>3 DEF GateInv, UpIsNotDown, SeenIsRecent, Parts
  <2>2. flight[r].age \in Nat /\ flight[r].age <= LookupTicks
        /\ proxy.down["endpoints"] \in Nat
    BY GateNumbers DEF GateInv, GateTypeOK, Parts
  <2> QED
    BY <2>1, <2>2, GateNumbers DEF Parts
<1>4. GateTypeOK' /\ UpIsNotDown' /\ SeenIsRecent'
  BY <1>1, <1>2, GateNumbers DEF GateInv, GateTypeOK, UpIsNotDown, SeenIsRecent, NoFlight
<1>5. OpenIsRecent'
  BY <1>1, <1>2, <1>3, GateNumbers DEF GateInv, GateTypeOK, OpenIsRecent
<1> QED
  BY <1>4, <1>5 DEF GateInv

\* The endpoints or the NetworkPolicy come or go.
LEMMA ChangeKeeps ==
    ASSUME GateInv, NEW x \in Parts, ProxyChanges(x)
    PROVE  GateInv'
<1>1. UNCHANGED <<gate, flight>>
  BY DEF ProxyChanges
<1>2. proxy \in [on: BOOLEAN, up: SUBSET Parts, down: [Parts -> 0..MaxDown]]
  BY DEF GateInv, GateTypeOK
<1>3. \/ proxy' = [on |-> proxy.on, up |-> proxy.up \ {x}, down |-> proxy.down]
      \/ proxy' = [on |-> proxy.on, up |-> proxy.up \cup {x}, down |-> [proxy.down EXCEPT ![x] = 0]]
  BY <1>2 DEF ProxyChanges
<1>4. /\ proxy'.up \subseteq Parts /\ proxy'.down \in [Parts -> 0..MaxDown]
      /\ \A y \in Parts : proxy'.down[y] = proxy.down[y] \/ proxy'.down[y] = 0
      /\ \A y \in Parts : y \in proxy'.up => y \in proxy.up \/ proxy'.down[y] = 0
      /\ proxy' \in [on: BOOLEAN, up: SUBSET Parts, down: [Parts -> 0..MaxDown]]
  BY <1>2, <1>3, GateNumbers
<1>5. GateTypeOK' /\ UpIsNotDown'
  BY <1>1, <1>4 DEF GateInv, GateTypeOK, UpIsNotDown
<1>6. OpenIsRecent' /\ SeenIsRecent'
  BY <1>1, <1>4, GateNumbers DEF GateInv, GateTypeOK, OpenIsRecent, SeenIsRecent, Parts
<1> QED
  BY <1>5, <1>6 DEF GateInv

\* Time passes: verdicts and lookups age as fast as what they saw.
LEMMA TickKeeps ==
    ASSUME GateInv, Tick
    PROVE  GateInv'
<1>1. proxy \in [on: BOOLEAN, up: SUBSET Parts, down: [Parts -> 0..MaxDown]]
  BY DEF GateInv, GateTypeOK
<1>2. proxy' = [on |-> proxy.on, up |-> proxy.up,
                down |-> [x \in Parts |-> IF x \in proxy.up THEN 0
                                         ELSE Older(proxy.down[x], MaxDown)]]
  BY <1>1 DEF Tick
<1>a. \A x \in Parts : x \in proxy.up => proxy'.down[x] = 0
  BY <1>2
<1>b. ASSUME NEW x \in Parts
      PROVE  proxy'.down[x] <= proxy.down[x] + 1
  <2>1. proxy.down[x] \in Nat
    BY <1>1, GateNumbers
  <2>2. proxy'.down[x] = IF x \in proxy.up THEN 0 ELSE Older(proxy.down[x], MaxDown)
    BY <1>2
  <2> QED
    BY <2>1, <2>2, GateNumbers DEF Older
<1>3. /\ proxy'.up = proxy.up
      /\ proxy'.down \in [Parts -> 0..MaxDown]
      /\ proxy' \in [on: BOOLEAN, up: SUBSET Parts, down: [Parts -> 0..MaxDown]]
  BY <1>1, <1>2, GateNumbers DEF Older
<1>4. ASSUME NEW r \in Replicas
      PROVE  /\ gate'[r] \in [verdict: {"none", "open", "shut"}, age: 0..ProxyGateTTL]
             /\ gate'[r].verdict = gate[r].verdict
             /\ gate'[r].verdict = "open" /\ gate'[r].age < ProxyGateTTL
                  => gate'[r].age = gate[r].age + 1
  <2>1. gate[r] \in [verdict: {"none", "open", "shut"}, age: 0..ProxyGateTTL]
    BY DEF GateInv, GateTypeOK
  <2>2. gate'[r] = IF gate[r].verdict = "none" THEN gate[r]
                   ELSE [verdict |-> gate[r].verdict, age |-> Older(gate[r].age, ProxyGateTTL)]
    BY <2>1 DEF Tick
  <2> QED
    BY <2>1, <2>2, GateNumbers DEF Older
<1>5. ASSUME NEW r \in Replicas
      PROVE  /\ flight'[r] \in [pc: {"none", "check", "list", "get"}, faulty: BOOLEAN,
                                age: 0..LookupTicks]
             /\ flight'[r].pc = flight[r].pc
             /\ flight'[r].pc = "get" => flight'[r].age = flight[r].age + 1
  <2>1. flight[r] \in [pc: {"none", "check", "list", "get"}, faulty: BOOLEAN, age: 0..LookupTicks]
    BY DEF GateInv, GateTypeOK
  <2>2. flight'[r] = IF flight[r].pc = "none" THEN flight[r]
                     ELSE [pc |-> flight[r].pc, faulty |-> flight[r].faulty,
                           age |-> flight[r].age + 1]
    BY <2>1 DEF Tick
  <2>3. flight[r].pc # "none" => flight[r].age < LookupTicks
    BY DEF Tick
  <2> QED
    BY <2>1, <2>2, <2>3, GateNumbers
<1>6. GateTypeOK'
  BY <1>3, <1>4, <1>5 DEF GateTypeOK, Tick
<1>7. UpIsNotDown'
  <2>1. proxy'.up = proxy.up
    BY <1>3
  <2> QED
    BY <1>a, <2>1 DEF UpIsNotDown
<1>8. OpenIsRecent'
  <2> SUFFICES ASSUME NEW r \in Replicas, gate'[r].verdict = "open",
                      gate'[r].age < ProxyGateTTL, NEW x \in Parts
               PROVE  proxy'.down[x] <= LookupTicks + gate'[r].age
    BY DEF OpenIsRecent
  <2>1. gate'[r].age = gate[r].age + 1 /\ gate[r].verdict = "open"
    BY <1>4
  <2>2. gate[r].age \in Nat /\ proxy.down[x] \in Nat /\ proxy'.down[x] \in Nat
    BY <1>3, GateNumbers DEF GateInv, GateTypeOK
  <2>3. proxy.down[x] <= LookupTicks + gate[r].age
    BY <2>1, <2>2, GateNumbers DEF GateInv, OpenIsRecent
  <2>4. proxy'.down[x] <= proxy.down[x] + 1
    BY <1>b
  <2> QED
    BY <2>1, <2>2, <2>3, <2>4, GateNumbers
<1>9. SeenIsRecent'
  <2> SUFFICES ASSUME NEW r \in Replicas, flight'[r].pc = "get"
               PROVE  proxy'.down["endpoints"] <= flight'[r].age
    BY DEF SeenIsRecent
  <2>1. flight'[r].age = flight[r].age + 1 /\ flight[r].pc = "get"
    BY <1>5
  <2>2. flight[r].age \in Nat /\ proxy.down["endpoints"] \in Nat /\ proxy'.down["endpoints"] \in Nat
    BY <1>3, GateNumbers DEF GateInv, GateTypeOK, Parts
  <2>3. proxy.down["endpoints"] <= flight[r].age
    BY <2>1 DEF GateInv, SeenIsRecent
  <2>4. proxy'.down["endpoints"] <= proxy.down["endpoints"] + 1
    BY <1>b DEF Parts
  <2>5. flight[r].age + 1 = flight'[r].age /\ flight[r].age \in Nat
    BY <2>1, <2>2
  <2> QED
    BY <2>2, <2>3, <2>4, <2>5
<1> QED
  BY <1>6, <1>7, <1>8, <1>9 DEF GateInv

\* A verdict of "open" that a call may go by is recent.
LEMMA CachedIsRecent ==
    ASSUME GateInv, NEW r \in Replicas, cachedProxyGate(r), gate[r].verdict = "open",
           NEW x \in Parts
    PROVE  proxy.down[x] < ProxyGateTTL + LookupTicks
<1>1. gate[r].age \in Nat /\ proxy.down[x] \in Nat
  BY GateNumbers DEF GateInv, GateTypeOK
<1>2. gate[r].age < ProxyGateTTL
  BY DEF cachedProxyGate
<1>3. proxy.down[x] <= LookupTicks + gate[r].age
  BY <1>2 DEF GateInv, OpenIsRecent
<1> QED
  BY <1>1, <1>2, <1>3, GateNumbers

\* And so is the verdict of the lookup that a call has waited for.
LEMMA AnswerIsRecent ==
    ASSUME GateInv, NEW r \in Replicas, LookupEnds(r, "open"), NEW x \in Parts
    PROVE  proxy.down[x] < ProxyGateTTL + LookupTicks
<1>1. \/ cachedProxyGate(r) /\ gate[r].verdict = "open"
      \/ flight[r].pc = "get" /\ "policy" \in proxy.up
  BY DEF LookupEnds
<1>2. CASE cachedProxyGate(r) /\ gate[r].verdict = "open"
  BY <1>2, CachedIsRecent
<1>3. CASE flight[r].pc = "get" /\ "policy" \in proxy.up
  <2>1. proxy.down["policy"] = 0 /\ proxy.down["endpoints"] <= flight[r].age
    BY <1>3 DEF GateInv, UpIsNotDown, SeenIsRecent, Parts
  <2>2. flight[r].age \in Nat /\ flight[r].age <= LookupTicks /\ proxy.down["endpoints"] \in Nat
    BY GateNumbers DEF GateInv, GateTypeOK, Parts
  <2>3. proxy.down["endpoints"] < ProxyGateTTL + LookupTicks
    BY <2>1, <2>2, GateNumbers
  <2>4. proxy.down["policy"] < ProxyGateTTL + LookupTicks
    BY <2>1, GateNumbers
  <2> QED
    BY <2>3, <2>4 DEF Parts
<1> QED
  BY <1>1, <1>2, <1>3

\* What a step does to the gate.
LEMMA GateNext == RanInv /\ GateInv /\ [Next]_vars => GateInv'
<1> SUFFICES ASSUME RanInv, GateInv, [Next]_vars PROVE GateInv'
  OBVIOUS
<1>a. CallsAre
  BY DEF RanInv
<1>b. ASSUME UNCHANGED gateVars PROVE GateInv'
  BY <1>b DEF gateVars, GateInv, GateTypeOK, UpIsNotDown, OpenIsRecent, SeenIsRecent
<1>1. ASSUME NEW c \in Claims, CallStep(c) PROVE GateInv'
  <2>1. CASE UNCHANGED gateVars
    BY <2>1, <1>b
  <2>2. CASE Join(ReplicaOf[c], c \in Faulty)
    <3>1. ReplicaOf[c] \in Replicas /\ (c \in Faulty) \in BOOLEAN
      BY ManagerAssumption
    <3> QED
      BY <3>1, <2>2, JoinKeeps
  <2> QED
    BY <1>1, <1>a, <2>1, <2>2, GateMoves DEF CallStep, GateMove
<1>2. ASSUME NEW r \in Replicas, lookupProxyReady(r) PROVE GateInv'
  BY <1>2, GoesOnKeeps, EndKeeps DEF lookupProxyReady
<1>3. CASE Surroundings /\ UNCHANGED gateVars
  BY <1>3, <1>b
<1>4. CASE ProxyStep
  BY <1>4, TickKeeps, ChangeKeeps DEF ProxyStep
<1>5. CASE UNCHANGED vars
  BY <1>5, <1>b DEF vars
<1> QED
  BY <1>1, <1>2, <1>3, <1>4, <1>5 DEF Next, Progress

\* A call passes the gate by a verdict that is recent.
LEMMA AdmissionStep ==
    ASSUME RanInv, GateInv, [Next]_vars, NEW c \in Claims,
           call[c].pc \in {"gate", "gateWait"}, call'[c].pc = "claim", NEW x \in Parts
    PROVE  proxy.down[x] < ProxyGateTTL + LookupTicks
<1>a. CallsAre
  BY DEF RanInv
<1>b. call'[c] # call[c]
  OBVIOUS
<1>1. ASSUME NEW d \in Claims, CallStep(d)
      PROVE  proxy.down[x] < ProxyGateTTL + LookupTicks
  <2>1. PodMove(d) \/ GateMove(d)
    BY <1>1, <1>a, PodStepMoves, GateMoves DEF CallStep
  <2>2. d = c
    BY <2>1, <1>b DEF PodMove, GateMove, Goes
  <2>3. ~PodMove(c)
    BY DEF PodMove, Lookup, Recovering
  <2>4. cachedProxyGate(ReplicaOf[c]) /\ gate[ReplicaOf[c]].verdict = "open"
    BY <2>1, <2>2, <2>3 DEF GateMove, Goes, Has
  <2>5. ReplicaOf[c] \in Replicas
    BY ManagerAssumption
  <2> QED
    BY <2>4, <2>5, CachedIsRecent
<1>2. ASSUME NEW r \in Replicas, lookupProxyReady(r)
      PROVE  proxy.down[x] < ProxyGateTTL + LookupTicks
  <2> DEFINE waiting == {d \in Claims : ReplicaOf[d] = r /\ At(d, "gateWait")}
  <2>1. PICK verdict \in {"open", "shut"} :
           /\ LookupEnds(r, verdict)
           /\ call' = [d \in Claims |-> IF d \notin waiting THEN call[d]
                 ELSE [call[d] EXCEPT !.pc = IF verdict = "open" THEN "claim" ELSE "error"]]
    BY <1>2, <1>b DEF lookupProxyReady
  <2>2. verdict = "open"
    <3> SUFFICES ASSUME verdict # "open" PROVE FALSE
      OBVIOUS
    <3>1. call'[c] = [call[c] EXCEPT !.pc = "error"]
      BY <2>1, <1>b
    <3>2. Has([call[c] EXCEPT !.pc = "error"], "error", call[c].replaced)
      BY <1>a, OneField DEF CallsAre
    <3> QED
      BY <3>1, <3>2 DEF Has
  <2> QED
    BY <2>1, <2>2, AnswerIsRecent
<1>3. CASE (Surroundings /\ UNCHANGED gateVars) \/ ProxyStep
  <2>1. ASSUME NEW d \in Claims, StartCall(d)
        PROVE  call'[c] = call[c]
    <3>1. Goes(d, "lookup", call[d].replaced) /\ call[d].pc = "idle"
      BY <2>1, <1>a, StepGoes DEF StartCall, At
    <3> QED
      BY <3>1 DEF Goes
  <2> QED
    BY <1>3, <1>b, <2>1, SurroundingsFrame
<1>4. CASE UNCHANGED vars
  BY <1>4, <1>b DEF vars, managerVars
<1> QED
  BY <1>1, <1>2, <1>3, <1>4 DEF Next, Progress

\* A call that claims or creates a pod does so while the egress proxy's endpoints and
\* the NetworkPolicy are there, or were less than the TTL and a lookup ago, for any
\* TTL, duration of a lookup and number of calls that share one: ensureProxyReady
\* never admits by an expired verdict, its own or a shared one.
THEOREM AdmissionByRecentVerdict == Spec => AdmissionIsRecent
<1>1. Init => RanInv /\ GateInv
  BY RanInit, GateInitInv
<1>2. RanInv /\ GateInv /\ [Next]_vars => (RanInv /\ GateInv)'
  BY RanNext, GateNext
<1>3. RanInv /\ GateInv /\ [Next]_vars =>
        [ \A c \in Claims :
            call[c].pc \in {"gate", "gateWait"} /\ call'[c].pc = "claim" =>
               \A x \in Parts : proxy.down[x] < ProxyGateTTL + LookupTicks ]_vars
  BY AdmissionStep
<1> QED
  BY <1>1, <1>2, <1>3, PTL DEF Spec, AdmissionIsRecent

=============================================================================
