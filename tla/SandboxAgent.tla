---------------------------- MODULE SandboxAgent ----------------------------
(***************************************************************************)
(* The agent of one sandbox pod: AgentState and the HTTP handlers          *)
(* (pkg/sandbox/handler.go), the persistent shell (pkg/sandbox/bash.go),   *)
(* and the two things that decide whether a call gets to it: the readiness *)
(* probe on /health and the MCP server's pod cache.                        *)
(***************************************************************************)
EXTENDS Naturals, FiniteSets

CONSTANTS
    Execs,       \* clients: each sends one /exec after another
    Assigns,     \* POST /assign requests
    TokenOf,     \* the token each request carries
    EnvToken,    \* SANDBOX_AUTH_TOKEN of the container
    NoToken,     \* "unassigned"
    Restarts,    \* TRUE: the container may be restarted
    SpawnFails   \* TRUE: a respawn of bash may fail

Nobody == "nobody"

ASSUME AgentAssumption ==
    /\ Nobody \notin Execs
    /\ NoToken \notin {TokenOf[x] : x \in Execs \cup Assigns}
    /\ Restarts \in BOOLEAN /\ SpawnFails \in BOOLEAN

VARIABLES
    token,     \* AgentState: the token, NoToken when not assigned
    proc,      \* the bash process: "alive" or "exited"
    dead,      \* BashSession.dead
    mu,        \* BashSession.mu: who holds it
    exec,      \* per client: its request's place, stateReset, and last outcome
    assign,    \* per assign request: its outcome
    ready,     \* the pod's Ready condition
    cached,    \* the MCP server has the pod in its cache
    fresh      \* history variable: the shell is not the one of the last answer

vars == <<token, proc, dead, mu, exec, assign, ready, cached, fresh>>

Outcome == {"none", "unready", "503", "401", "500", "timeout", "ok", "noticed", "network"}

ExecRec == [pc: {"idle", "check", "auth", "lock", "write", "rewrite", "read"},
            reset: BOOLEAN, out: Outcome]

TypeOK ==
    /\ token \in {TokenOf[x] : x \in Execs \cup Assigns} \cup {NoToken, EnvToken}
    /\ proc \in {"alive", "exited"}
    /\ dead \in BOOLEAN /\ ready \in BOOLEAN /\ cached \in BOOLEAN /\ fresh \in BOOLEAN
    /\ mu \in Execs \cup {Nobody}
    /\ exec \in [Execs -> ExecRec]
    /\ assign \in [Assigns -> {"none", "200", "409"}]

Init ==
    /\ token = EnvToken
    /\ proc = "alive" /\ dead = FALSE
    /\ mu = Nobody
    /\ exec = [x \in Execs |-> [pc |-> "idle", reset |-> FALSE, out |-> "none"]]
    /\ assign = [a \in Assigns |-> "none"]
    /\ ready = FALSE /\ cached = FALSE /\ fresh = FALSE

At(x, pc) == exec[x].pc = pc

Goto(x, pc) == exec' = [exec EXCEPT ![x].pc = pc]

\* The same with stateReset set.
GotoReset(x, pc) == exec' = [exec EXCEPT ![x].pc = pc, ![x].reset = TRUE]

Finish(x, out) == exec' = [exec EXCEPT ![x] = [pc |-> "idle", reset |-> FALSE, out |-> out]]

shellVars == <<proc, dead, mu, fresh>>
podVars == <<token, assign, ready, cached>>

-----------------------------------------------------------------------------
(* The way to the agent.                                                   *)

\* A call goes to a cached pod at once; otherwise discoverPod waits until the
\* pod is Ready and gives up when it is not.
SendExec(x) ==
    /\ At(x, "idle")
    /\ IF cached \/ ready
       THEN Goto(x, "check") /\ cached' = TRUE
       ELSE Finish(x, "unready") /\ UNCHANGED cached
    /\ UNCHANGED <<shellVars, token, assign, ready>>

CacheExpires ==
    /\ cached
    /\ cached' = FALSE
    /\ UNCHANGED <<shellVars, exec, token, assign, ready>>

\* The probe allows /health a second; HandleHealth asks IsAlive, which waits
\* for the lock that Execute holds while a command runs.
HandleHealth ==
    /\ ready' = (mu = Nobody /\ ~dead)
    /\ UNCHANGED <<shellVars, exec, token, assign, cached>>

-----------------------------------------------------------------------------
(* Handlers.                                                               *)

HandleAssign(a) ==
    /\ assign[a] = "none"
    /\ IF token = NoToken
       THEN token' = TokenOf[a] /\ assign' = [assign EXCEPT ![a] = "200"]
       ELSE assign' = [assign EXCEPT ![a] = "409"] /\ UNCHANGED token
    /\ UNCHANGED <<shellVars, exec, ready, cached>>

\* HandleExec reads the state twice: IsAssigned, then GetToken.
HandleExecAssigned(x) ==
    /\ At(x, "check")
    /\ IF token = NoToken THEN Finish(x, "503") ELSE Goto(x, "auth")
    /\ UNCHANGED <<shellVars, podVars>>

HandleExecToken(x) ==
    /\ At(x, "auth")
    /\ IF token = TokenOf[x] THEN Goto(x, "lock") ELSE Finish(x, "401")
    /\ UNCHANGED <<shellVars, podVars>>

-----------------------------------------------------------------------------
(* BashSession.Execute, with mu held from here on.                         *)

Unlock(x, out) == Finish(x, out) /\ mu' = Nobody

\* A dead shell is reaped and replaced first.
LockAndRespawn(x) ==
    /\ At(x, "lock") /\ mu = Nobody
    /\ \/ /\ ~dead
          /\ mu' = x /\ Goto(x, "write")
          /\ UNCHANGED <<proc, dead, fresh>>
       \/ /\ dead
          /\ mu' = x /\ GotoReset(x, "write")
          /\ proc' = "alive" /\ dead' = FALSE /\ fresh' = TRUE
       \/ /\ dead /\ SpawnFails
          /\ Finish(x, "500")
          /\ proc' = "exited"
          /\ UNCHANGED <<dead, mu, fresh>>
    /\ UNCHANGED podVars

\* Variant: the respawn after a failed write forgets stateReset.
WriteCommandSilent(x) ==
    /\ At(x, "write")
    /\ \/ /\ proc = "alive"
          /\ Goto(x, "read")
          /\ UNCHANGED shellVars
       \/ /\ proc = "exited"
          /\ Goto(x, "rewrite")
          /\ proc' = "alive" /\ dead' = FALSE /\ fresh' = TRUE
          /\ UNCHANGED mu
    /\ UNCHANGED podVars

\* The write fails when bash has exited.  After a respawn that is final, before
\* one it leads to the respawn.
WriteCommand(x) ==
    /\ At(x, "write")
    /\ \/ /\ proc = "alive"
          /\ Goto(x, "read")
          /\ UNCHANGED shellVars
       \/ /\ proc = "exited" /\ exec[x].reset
          /\ Unlock(x, "500")
          /\ UNCHANGED <<proc, dead, fresh>>
       \/ /\ proc = "exited" /\ ~exec[x].reset
          /\ GotoReset(x, "rewrite")
          /\ proc' = "alive" /\ dead' = FALSE /\ fresh' = TRUE
          /\ UNCHANGED mu
       \/ /\ proc = "exited" /\ ~exec[x].reset /\ SpawnFails
          /\ Unlock(x, "500")
          /\ dead' = TRUE
          /\ UNCHANGED <<proc, fresh>>
    /\ UNCHANGED podVars

WriteAgain(x) ==
    /\ At(x, "rewrite")
    /\ \/ /\ proc = "alive"
          /\ Goto(x, "read")
          /\ UNCHANGED shellVars
       \/ /\ proc = "exited"
          /\ Unlock(x, "500")
          /\ dead' = TRUE
          /\ UNCHANGED <<proc, fresh>>
    /\ UNCHANGED podVars

\* Both readers saw their markers.
MarkersRead(x) ==
    /\ At(x, "read") /\ proc = "alive"
    /\ Unlock(x, IF exec[x].reset THEN "noticed" ELSE "ok")
    /\ fresh' = FALSE
    /\ UNCHANGED <<proc, dead, podVars>>

\* A reader came to the end of its pipe.
ReadFails(x) ==
    /\ At(x, "read") /\ proc = "exited"
    /\ Unlock(x, "500")
    /\ dead' = TRUE
    /\ UNCHANGED <<proc, fresh, podVars>>

\* The exit marker is there, but what follows it is no exit code (the command
\* made __exit read-only): the shell counts as dead though bash runs on, until
\* the next call reaps it.
ParseFails(x) ==
    /\ At(x, "read") /\ proc = "alive"
    /\ Unlock(x, "500")
    /\ dead' = TRUE
    /\ UNCHANGED <<proc, fresh, podVars>>

\* Variant: the timer is not armed.
TimerFiresNever(x) == FALSE

\* The timer fires, also just before the markers are read: bash is killed.
TimerFires(x) ==
    /\ At(x, "read")
    /\ Unlock(x, "timeout")
    /\ proc' = "exited" /\ dead' = TRUE
    /\ UNCHANGED <<fresh, podVars>>

\* bash exits by itself: the command ended it, or it was killed.
BashExits ==
    /\ proc = "alive"
    /\ proc' = "exited"
    /\ UNCHANGED <<dead, mu, fresh, exec, podVars>>

\* A new container: new agent process, new shell; requests under way are cut.
\* (That the shell is new is for the MCP server to report, when it has to assign
\* the token again.)
ContainerRestart ==
    /\ Restarts
    /\ token' = EnvToken /\ proc' = "alive" /\ dead' = FALSE /\ mu' = Nobody
    /\ exec' = [x \in Execs |-> [pc |-> "idle", reset |-> FALSE,
                                 out |-> IF At(x, "idle") THEN exec[x].out ELSE "network"]]
    /\ assign' = [a \in Assigns |-> "none"]
    /\ ready' = FALSE /\ fresh' = FALSE
    /\ UNCHANGED cached

ExecStep(x) ==
    \/ HandleExecAssigned(x) \/ HandleExecToken(x) \/ LockAndRespawn(x)
    \/ WriteCommand(x) \/ WriteAgain(x)
    \/ MarkersRead(x) \/ ReadFails(x) \/ ParseFails(x) \/ TimerFires(x)

Next ==
    \/ \E x \in Execs : SendExec(x) \/ ExecStep(x)
    \/ \E a \in Assigns : HandleAssign(a)
    \/ HandleHealth
    \/ CacheExpires
    \/ BashExits
    \/ ContainerRestart

Spec == Init /\ [][Next]_vars

\* The agent's goroutines run, its timer fires, and a sync.Mutex passes to a
\* waiter that has waited long enough.
AgentFairness ==
    \A x \in Execs :
       /\ WF_vars(HandleExecAssigned(x) \/ HandleExecToken(x))
       /\ SF_vars(LockAndRespawn(x))
       /\ WF_vars(WriteCommand(x) \/ WriteAgain(x))
       /\ WF_vars(ReadFails(x) \/ TimerFires(x))

\* Clients keep calling, the kubelet keeps probing, and a cache entry has a TTL that
\* a hit does not renew.
FairSpec ==
    /\ Spec
    /\ AgentFairness
    /\ \A x \in Execs : WF_vars(SendExec(x))
    /\ WF_vars(HandleHealth)
    /\ WF_vars(CacheExpires)

-----------------------------------------------------------------------------

\* Execute "reports the reset in stderr": the first command that a shell other
\* than the last one completes carries the notice, whatever failed in between
\* (a respawn whose command timed out or could not be written, a second crash).
\* This is about one agent process: a new one has no shell to compare with.
ResetIsReported ==
    [][ \A x \in Execs : At(x, "read") /\ exec'[x].out = "ok" /\ exec'[x].pc = "idle"
                           => ~fresh ]_vars

\* A request that was let in returns, though commands may never end and every
\* other client keeps the shell busy.
ExecsReturn == \A x \in Execs : At(x, "lock") ~> At(x, "idle")

\* "Recover from bash crashes gracefully (respawn on next call)": with clients
\* that keep calling, and a respawn that works, a dead shell is not dead for
\* ever.  It fails: HandleHealth answers 503 for a dead shell, the pod is no
\* longer Ready, and once the cache entry has expired no call gets to Execute.
DeadShellIsReplaced == dead ~> ~dead

=============================================================================
