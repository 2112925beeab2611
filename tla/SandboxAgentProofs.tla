------------------------ MODULE SandboxAgentProofs ------------------------
(***************************************************************************)
(* The shell of a sandbox agent for any number of clients: no command is   *)
(* answered from a new shell without the notice that state was lost.       *)
(***************************************************************************)
EXTENDS SandboxAgent, TLAPS

Executing(x) == exec[x].pc \in {"write", "rewrite", "read"}

\* Execute runs from Lock to Unlock with mu held.
HolderExecutes == \A x \in Execs : Executing(x) <=> mu = x

\* dead is set with mu held, just before Execute returns; the next one to lock
\* clears it.
HeldIsNotDead == mu # Nobody => ~dead

\* A shell that nobody has been told of yet is one that will not answer (it is
\* dead, or bash has exited, so that the next command gets another shell), or
\* the Execute under way carries stateReset.
FreshIsAccountedFor ==
    fresh => dead \/ proc = "exited" \/ (mu \in Execs /\ exec[mu].reset = TRUE)

IInv == TypeOK /\ HolderExecutes /\ HeldIsNotDead /\ FreshIsAccountedFor

-----------------------------------------------------------------------------

Pc == {"idle", "check", "auth", "lock", "write", "rewrite", "read"}

\* A request moves on and the others stay where they are.
Moved(x, pc, reset) ==
    /\ exec' \in [Execs -> ExecRec]
    /\ exec'[x].pc = pc /\ exec'[x].reset = reset
    /\ \A y \in Execs \ {x} : exec'[y] = exec[y]

\* Goto keeps the request's stateReset.
LEMMA GotoMoves ==
    ASSUME TypeOK, NEW x \in Execs, NEW pc \in Pc, Goto(x, pc)
    PROVE  Moved(x, pc, exec[x].reset) /\ exec'[x].out = exec[x].out
<1>1. exec[x] \in ExecRec
  BY DEF TypeOK
<1>2. exec'[x] = [pc |-> pc, reset |-> exec[x].reset, out |-> exec[x].out]
  BY <1>1 DEF TypeOK, Goto, ExecRec, Pc
<1>3. exec' = [exec EXCEPT ![x] = exec'[x]]
  BY DEF TypeOK, Goto
<1>4. exec'[x] \in ExecRec
  BY <1>1, <1>2 DEF ExecRec, Pc
<1> QED
  BY <1>2, <1>3, <1>4 DEF TypeOK, Moved

\* A respawn sets it.
LEMMA RespawnMoves ==
    ASSUME TypeOK, NEW x \in Execs, NEW pc \in Pc,
           GotoReset(x, pc)
    PROVE  Moved(x, pc, TRUE) /\ exec'[x].out = exec[x].out
<1>1. exec[x] \in ExecRec
  BY DEF TypeOK
<1>2. exec'[x] = [pc |-> pc, reset |-> TRUE, out |-> exec[x].out]
  BY <1>1 DEF TypeOK, GotoReset, ExecRec, Pc
<1>3. exec' = [exec EXCEPT ![x] = exec'[x]]
  BY DEF TypeOK, GotoReset
<1>4. exec'[x] \in ExecRec
  BY <1>1, <1>2 DEF ExecRec, Pc
<1>5. exec'[x].pc = pc /\ exec'[x].reset = TRUE /\ exec'[x].out = exec[x].out
  BY <1>2
<1>6. exec' \in [Execs -> ExecRec] /\ \A y \in Execs \ {x} : exec'[y] = exec[y]
  BY <1>3, <1>4 DEF TypeOK
<1> QED
  BY <1>5, <1>6 DEF Moved

\* An answered request leaves nothing behind but its outcome.
LEMMA FinishMoves ==
    ASSUME TypeOK, NEW x \in Execs, NEW out \in Outcome, Finish(x, out)
    PROVE  Moved(x, "idle", FALSE) /\ exec'[x].out = out
BY DEF TypeOK, ExecRec, Finish, Moved

\* A new agent has an idle shell.
LEMMA InitInv == Init => IInv
<1> SUFFICES ASSUME Init PROVE IInv
  OBVIOUS
<1>1. TypeOK
  BY DEF Init, TypeOK, ExecRec, Outcome
<1>2. HolderExecutes
  BY AgentAssumption DEF Init, HolderExecutes, Executing
<1>3. HeldIsNotDead /\ FreshIsAccountedFor
  BY DEF Init, HeldIsNotDead, FreshIsAccountedFor
<1> QED
  BY <1>1, <1>2, <1>3 DEF IInv

\* Every handler, the probe, the exit of bash and a container restart keep it.
LEMMA NextInv == IInv /\ [Next]_vars => IInv'
<1> SUFFICES ASSUME IInv, [Next]_vars PROVE IInv'
  OBVIOUS
<1>a. TypeOK
  BY DEF IInv
<1>b. Pc = {"idle", "check", "auth", "lock", "write", "rewrite", "read"}
  BY DEF Pc
<1>c. {"unready", "503", "401", "500", "timeout", "ok", "noticed"} \subseteq Outcome
  BY DEF Outcome
<1>1. ASSUME NEW x \in Execs, SendExec(x) PROVE IInv'
  <2>1. Moved(x, "check", exec[x].reset) \/ Moved(x, "idle", FALSE)
    BY <1>1, <1>a, <1>b, <1>c, GotoMoves, FinishMoves DEF SendExec
  <2> QED
    BY <1>1, <2>1, AgentAssumption
     DEF IInv, TypeOK, HolderExecutes, Executing, HeldIsNotDead,
         FreshIsAccountedFor, Moved, At, shellVars, podVars, SendExec
<1>2. ASSUME NEW x \in Execs, HandleExecAssigned(x) PROVE IInv'
  <2>1. Moved(x, "auth", exec[x].reset) \/ Moved(x, "idle", FALSE)
    BY <1>2, <1>a, <1>b, <1>c, GotoMoves, FinishMoves DEF HandleExecAssigned
  <2> QED
    BY <1>2, <2>1, AgentAssumption
     DEF IInv, TypeOK, HolderExecutes, Executing, HeldIsNotDead,
         FreshIsAccountedFor, Moved, At, shellVars, podVars, HandleExecAssigned
<1>3. ASSUME NEW x \in Execs, HandleExecToken(x) PROVE IInv'
  <2>1. Moved(x, "lock", exec[x].reset) \/ Moved(x, "idle", FALSE)
    BY <1>3, <1>a, <1>b, <1>c, GotoMoves, FinishMoves DEF HandleExecToken
  <2> QED
    BY <1>3, <2>1, AgentAssumption
     DEF IInv, TypeOK, HolderExecutes, Executing, HeldIsNotDead,
         FreshIsAccountedFor, Moved, At, shellVars, podVars, HandleExecToken
<1>4. ASSUME NEW x \in Execs, LockAndRespawn(x) PROVE IInv'
  <2>1. \/ Moved(x, "write", exec[x].reset) /\ ~dead /\ mu' = x /\ UNCHANGED <<proc, dead, fresh>>
        \/ Moved(x, "write", TRUE) /\ mu' = x /\ dead' = FALSE /\ proc' = "alive" /\ fresh' = TRUE
        \/ Moved(x, "idle", FALSE) /\ dead /\ proc' = "exited" /\ UNCHANGED <<dead, mu, fresh>>
    BY <1>4, <1>a, <1>b, <1>c, GotoMoves, RespawnMoves, FinishMoves DEF LockAndRespawn
  <2>2. At(x, "lock") /\ mu = Nobody /\ UNCHANGED podVars
    BY <1>4 DEF LockAndRespawn
  <2>3. TypeOK'
    BY <2>1, <2>2 DEF IInv, TypeOK, Moved, shellVars, podVars
  <2>4. HolderExecutes'
    BY <2>1, <2>2, AgentAssumption
       DEF IInv, TypeOK, HolderExecutes, Executing, Moved, At, shellVars
  <2>5. HeldIsNotDead'
    BY <2>1, <2>2, AgentAssumption
       DEF IInv, TypeOK, HolderExecutes, Executing, HeldIsNotDead, At, shellVars
  <2>6. FreshIsAccountedFor'
    BY <2>1, <2>2, AgentAssumption
       DEF IInv, TypeOK, HolderExecutes, Executing, FreshIsAccountedFor, Moved, At,
           shellVars
  <2> QED
    BY <2>3, <2>4, <2>5, <2>6 DEF IInv
<1>5. ASSUME NEW x \in Execs, WriteCommand(x) PROVE IInv'
  <2>1. \/ Moved(x, "read", exec[x].reset) /\ UNCHANGED shellVars
        \/ /\ Moved(x, "idle", FALSE) /\ mu' = Nobody /\ proc = "exited"
           /\ dead' \in {dead, TRUE} /\ UNCHANGED <<proc, fresh>>
        \/ /\ Moved(x, "rewrite", TRUE) /\ UNCHANGED mu
           /\ dead' = FALSE /\ proc' = "alive" /\ fresh' = TRUE
    BY <1>5, <1>a, <1>b, <1>c, GotoMoves, RespawnMoves, FinishMoves
       DEF WriteCommand, Unlock
  <2>2. At(x, "write") /\ UNCHANGED podVars
    BY <1>5 DEF WriteCommand
  <2>3. TypeOK'
    BY <2>1, <2>2 DEF IInv, TypeOK, Moved, shellVars, podVars
  <2>4. HolderExecutes'
    BY <2>1, <2>2, AgentAssumption
       DEF IInv, TypeOK, HolderExecutes, Executing, Moved, At, shellVars
  <2>5. HeldIsNotDead'
    BY <2>1, <2>2, AgentAssumption
       DEF IInv, TypeOK, HolderExecutes, Executing, HeldIsNotDead, At, shellVars
  <2>6. FreshIsAccountedFor'
    BY <2>1, <2>2, AgentAssumption
       DEF IInv, TypeOK, HolderExecutes, Executing, FreshIsAccountedFor, Moved, At,
           shellVars
  <2> QED
    BY <2>3, <2>4, <2>5, <2>6 DEF IInv
<1>6. ASSUME NEW x \in Execs, WriteAgain(x) PROVE IInv'
  <2>1. \/ Moved(x, "read", exec[x].reset) /\ UNCHANGED shellVars
        \/ /\ Moved(x, "idle", FALSE) /\ mu' = Nobody /\ proc = "exited"
           /\ dead' = TRUE /\ UNCHANGED <<proc, fresh>>
    BY <1>6, <1>a, <1>b, <1>c, GotoMoves, FinishMoves DEF WriteAgain, Unlock
  <2>2. At(x, "rewrite") /\ UNCHANGED podVars
    BY <1>6 DEF WriteAgain
  <2>3. TypeOK'
    BY <2>1, <2>2 DEF IInv, TypeOK, Moved, shellVars, podVars
  <2>4. HolderExecutes'
    BY <2>1, <2>2, AgentAssumption
       DEF IInv, TypeOK, HolderExecutes, Executing, Moved, At, shellVars
  <2>5. HeldIsNotDead'
    BY <2>1, <2>2, AgentAssumption
       DEF IInv, TypeOK, HolderExecutes, Executing, HeldIsNotDead, At, shellVars
  <2>6. FreshIsAccountedFor'
    BY <2>1, <2>2, AgentAssumption
       DEF IInv, TypeOK, HolderExecutes, Executing, FreshIsAccountedFor, Moved, At,
           shellVars
  <2> QED
    BY <2>3, <2>4, <2>5, <2>6 DEF IInv
<1> USE AgentAssumption
        DEF IInv, TypeOK, HolderExecutes, Executing,
            HeldIsNotDead, FreshIsAccountedFor, At, Moved, Unlock,
            shellVars, podVars, Outcome
<1>7. ASSUME NEW x \in Execs, MarkersRead(x) PROVE IInv'
  BY <1>7, FinishMoves DEF MarkersRead
<1>8. ASSUME NEW x \in Execs, ReadFails(x) PROVE IInv'
  BY <1>8, FinishMoves DEF ReadFails
<1>9. ASSUME NEW x \in Execs, TimerFires(x) PROVE IInv'
  BY <1>9, FinishMoves DEF TimerFires
<1>10. ASSUME NEW a \in Assigns, HandleAssign(a) PROVE IInv'
  BY <1>10 DEF HandleAssign
<1>11. CASE HandleHealth
  BY <1>11 DEF HandleHealth
<1>12. CASE CacheExpires
  BY <1>12 DEF CacheExpires
<1>13. CASE BashExits
  BY <1>13 DEF BashExits
<1>14. CASE ContainerRestart
  BY <1>14 DEF ContainerRestart, ExecRec
<1>15. ASSUME NEW x \in Execs, ParseFails(x) PROVE IInv'
  BY <1>15, FinishMoves DEF ParseFails
<1>16. CASE UNCHANGED vars
  BY <1>16 DEF vars
<1> QED
  BY <1>1, <1>2, <1>3, <1>4, <1>5, <1>6, <1>7, <1>8, <1>9, <1>10, <1>11, <1>12,
     <1>13, <1>14, <1>15, <1>16 DEF Next, ExecStep

\* IInv holds in every state of an agent.
LEMMA Invariant == Spec => []IInv
BY InitInv, NextInv, PTL DEF Spec

\* The answer "ok", without the notice, never comes from a shell that replaced
\* the one of the answer before it.
LEMMA StepReports ==
    ASSUME IInv, [Next]_vars,
           NEW x \in Execs, At(x, "read"), exec'[x].out = "ok", exec'[x].pc = "idle"
    PROVE  ~fresh
<1>a. TypeOK /\ exec[x].pc = "read"
  BY DEF IInv, At
<1>b. ASSUME NEW y \in Execs, exec[y].pc # "read" \/ exec'[y].out # "ok",
             \A z \in Execs \ {y} : exec'[z] = exec[z]
      PROVE  FALSE
  BY <1>b, <1>a
<1>1. PICK y \in Execs : MarkersRead(y)
  <2>1. exec' # exec
    BY <1>a
  <2>2. ASSUME NEW y \in Execs, SendExec(y) \/ HandleExecAssigned(y) \/ HandleExecToken(y)
                                 \/ LockAndRespawn(y) \/ WriteCommand(y) \/ WriteAgain(y)
        PROVE  FALSE
    <3>1. exec[y].pc # "read"
      BY <2>2 DEF SendExec, HandleExecAssigned, HandleExecToken, LockAndRespawn,
                  WriteCommand, WriteAgain, At
    <3>2. \A z \in Execs \ {y} : exec'[z] = exec[z]
      BY <2>2, <1>a DEF TypeOK, SendExec, HandleExecAssigned, HandleExecToken,
                  LockAndRespawn, WriteCommand, WriteAgain, Goto, GotoReset, Finish,
                  Unlock
    <3> QED
      BY <3>1, <3>2, <1>b
  <2>3. ASSUME NEW y \in Execs, ReadFails(y) \/ ParseFails(y) \/ TimerFires(y)
        PROVE  FALSE
    <3>1. Finish(y, "500") \/ Finish(y, "timeout")
      BY <2>3 DEF ReadFails, ParseFails, TimerFires, Unlock
    <3>2. exec'[y].out # "ok" /\ \A z \in Execs \ {y} : exec'[z] = exec[z]
      BY <3>1, <1>a, FinishMoves DEF Moved, Outcome
    <3> QED
      BY <3>2, <1>b
  <2>4. ASSUME ContainerRestart PROVE FALSE
    BY <2>4, <1>a DEF ContainerRestart, At, TypeOK
  <2> QED
    BY <2>1, <2>2, <2>3, <2>4
       DEF Next, ExecStep, vars, HandleAssign, HandleHealth, CacheExpires, BashExits
<1>2. y = x
  BY <1>1 DEF MarkersRead, IInv, TypeOK, HolderExecutes, Executing, At
<1> QED
  BY <1>1, <1>2, AgentAssumption
     DEF MarkersRead, Unlock, Finish, At, IInv, TypeOK, ExecRec, HolderExecutes,
         Executing, HeldIsNotDead, FreshIsAccountedFor

\* Execute "reports the reset in stderr", for any number of clients and whatever
\* failed between the loss of the shell and the first answer of the next one.
THEOREM ResetsAreReported == Spec => ResetIsReported
<1>1. IInv /\ [Next]_vars =>
        [\A x \in Execs : At(x, "read") /\ exec'[x].out = "ok" /\ exec'[x].pc = "idle"
                            => ~fresh]_vars
  BY StepReports
<1> QED
  BY <1>1, Invariant, PTL DEF Spec, ResetIsReported

=============================================================================
