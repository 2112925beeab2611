---------------------------- MODULE MitmTracker ----------------------------
(***************************************************************************)
(* Shutdown of the egress proxy, cmd/proxy/main.go: http.Server.Shutdown   *)
(* does not know the connections that CONNECT hijacked, so mitmTracker     *)
(* follows them and drain waits for them on a condition variable, until    *)
(* the shutdown context ends.                                              *)
(***************************************************************************)
EXTENDS Naturals, FiniteSets

CONSTANTS Conns   \* accepted connections

VARIABLES
    conn,      \* per connection, its own goroutine's place
    conns,     \* mitmTracker.conns
    draining,  \* mitmTracker.draining
    mu,        \* mitmTracker.mu: who holds it
    main,      \* serve, from the signal to its return
    waker,     \* the goroutine that drain starts
    asleep,    \* main is in cond.Wait
    ctxDone,   \* the shutdown context has ended
    leftover   \* connections drain closes itself

vars == <<conn, conns, draining, mu, main, waker, asleep, ctxDone, leftover>>

Main == "main"
Nobody == "nobody"

\* "http": served, not hijacked;  "adding": hijacked, in add;  "refused": add
\* found the tracker draining and closes it;  "open": a tracked tunnel;
\* "removing": closed, in remove
ConnPc == {"http", "adding", "refused", "open", "removing", "closed"}

TypeOK ==
    /\ conn \in [Conns -> ConnPc]
    /\ conns \subseteq Conns /\ leftover \subseteq Conns
    /\ draining \in BOOLEAN /\ asleep \in BOOLEAN /\ ctxDone \in BOOLEAN
    /\ mu \in {Nobody, Main}
    /\ main \in {"serving", "shutdown", "lock", "check", "wait", "close", "returned", "failed"}
    /\ waker \in {"none", "waiting", "over"}

Init ==
    /\ conn = [c \in Conns |-> "http"]
    /\ conns = {} /\ leftover = {}
    /\ draining = FALSE /\ asleep = FALSE /\ ctxDone = FALSE
    /\ mu = Nobody /\ main = "serving" /\ waker = "none"

-----------------------------------------------------------------------------
(* Connections.  add, remove and the waker hold mu from beginning to end   *)
(* and wait for nothing meanwhile: each is one step, taken when drain does *)
(* not hold mu.                                                            *)

\* A CONNECT: http.Server calls ConnState with StateHijacked.
Hijack(c) ==
    /\ conn[c] = "http"
    /\ conn' = [conn EXCEPT ![c] = "adding"]
    /\ UNCHANGED <<conns, draining, mu, main, waker, asleep, ctxDone, leftover>>

\* Variant: add does not look at draining.
AddAlways(c) ==
    /\ conn[c] = "adding" /\ mu = Nobody
    /\ conns' = conns \cup {c} /\ conn' = [conn EXCEPT ![c] = "open"]
    /\ UNCHANGED <<draining, mu, main, waker, asleep, ctxDone, leftover>>

add(c) ==
    /\ conn[c] = "adding" /\ mu = Nobody
    /\ IF draining
       THEN conn' = [conn EXCEPT ![c] = "refused"] /\ UNCHANGED conns
       ELSE conns' = conns \cup {c} /\ conn' = [conn EXCEPT ![c] = "open"]
    /\ UNCHANGED <<draining, mu, main, waker, asleep, ctxDone, leftover>>

\* The request was served without being hijacked, the tunnel is finished, or add
\* turned it away: the connection is closed.  onClose runs once, whoever closes
\* it, also for a connection that is not tracked.
CloseConn(c) ==
    /\ conn[c] \in {"http", "open", "refused"}
    /\ conn' = [conn EXCEPT ![c] = "removing"]
    /\ UNCHANGED <<conns, draining, mu, main, waker, asleep, ctxDone, leftover>>

\* Variant: remove looks whether conns is empty before it deletes the tunnel.
RemoveLooksFirst(c) ==
    /\ conn[c] = "removing" /\ mu = Nobody
    /\ conns' = conns \ {c}
    /\ conn' = [conn EXCEPT ![c] = "closed"]
    /\ asleep' = (asleep /\ conns # {})
    /\ UNCHANGED <<draining, mu, main, waker, ctxDone, leftover>>

remove(c) ==
    /\ conn[c] = "removing" /\ mu = Nobody
    /\ conns' = conns \ {c}
    /\ conn' = [conn EXCEPT ![c] = "closed"]
    /\ asleep' = (asleep /\ conns' # {})
    /\ UNCHANGED <<draining, mu, main, waker, ctxDone, leftover>>

-----------------------------------------------------------------------------
(* serve and drain.                                                        *)

Signal ==
    /\ main = "serving"
    /\ main' = "shutdown"
    /\ UNCHANGED <<conn, conns, draining, mu, waker, asleep, ctxDone, leftover>>

\* httpSrv.Serve failed by itself: serve returns the error at once, without
\* drain, and the process exits with the tunnels it has.
ServeFails ==
    /\ main = "serving"
    /\ main' = "failed"
    /\ UNCHANGED <<conn, conns, draining, mu, waker, asleep, ctxDone, leftover>>

\* The deadline of the shutdown context.
CtxEnds ==
    /\ main \notin {"serving", "failed"} /\ ~ctxDone
    /\ ctxDone' = TRUE
    /\ UNCHANGED <<conn, conns, draining, mu, main, waker, asleep, leftover>>

\* httpSrv.Shutdown returns when no connection it knows is active, or with the
\* context; a handler that is still running may hijack after that.  drain then
\* starts the waker.
ShutdownReturns ==
    /\ main = "shutdown"
    /\ ctxDone \/ \A c \in Conns : conn[c] # "http"
    /\ main' = "lock" /\ waker' = "waiting"
    /\ UNCHANGED <<conn, conns, draining, mu, asleep, ctxDone, leftover>>

DrainLock ==
    /\ main = "lock" /\ mu = Nobody
    /\ mu' = Main /\ draining' = TRUE /\ main' = "check"
    /\ UNCHANGED <<conn, conns, waker, asleep, ctxDone, leftover>>

\* The loop condition; past the loop drain copies what is left, unlocks and
\* closes the wakeup channel.
DrainCheck ==
    /\ main = "check"
    /\ IF conns # {} /\ ~ctxDone
       THEN main' = "wait" /\ UNCHANGED <<mu, waker, leftover>>
       ELSE /\ main' = "close" /\ leftover' = conns
            /\ mu' = Nobody
            /\ waker' = IF waker = "waiting" THEN "over" ELSE waker
    /\ UNCHANGED <<conn, conns, draining, asleep, ctxDone>>

\* cond.Wait: queue up and unlock, later lock again.
CondWait ==
    /\ main = "wait" /\ mu = Main
    /\ asleep' = TRUE /\ mu' = Nobody
    /\ UNCHANGED <<conn, conns, draining, main, waker, ctxDone, leftover>>

CondWake ==
    /\ main = "wait" /\ mu = Nobody /\ ~asleep
    /\ mu' = Main /\ main' = "check"
    /\ UNCHANGED <<conn, conns, draining, waker, asleep, ctxDone, leftover>>

\* Variant: the waker broadcasts without the lock.
WakerStepUnlocked ==
    /\ waker = "waiting" /\ ctxDone
    /\ asleep' = FALSE /\ waker' = "over"
    /\ UNCHANGED <<conn, conns, draining, mu, main, ctxDone, leftover>>

\* When the context ends the waker locks, broadcasts and unlocks.
WakerStep ==
    /\ waker = "waiting" /\ ctxDone /\ mu = Nobody
    /\ asleep' = FALSE /\ waker' = "over"
    /\ UNCHANGED <<conn, conns, draining, mu, main, ctxDone, leftover>>

\* drain closes a tunnel; Close calls remove before it returns.
CloseLeftover(c) ==
    /\ main = "close" /\ mu = Nobody
    /\ c \in leftover
    /\ leftover' = leftover \ {c}
    /\ conn' = [conn EXCEPT ![c] = IF @ = "open" THEN "closed" ELSE @]
    /\ conns' = IF conn[c] = "open" THEN conns \ {c} ELSE conns
    /\ UNCHANGED <<draining, mu, main, waker, asleep, ctxDone>>

Return ==
    /\ main = "close" /\ leftover = {}
    /\ main' = "returned"
    /\ UNCHANGED <<conn, conns, draining, mu, waker, asleep, ctxDone, leftover>>

ConnStep(c) == Hijack(c) \/ add(c) \/ CloseConn(c) \/ remove(c)

DrainStep ==
    \/ ShutdownReturns \/ DrainLock \/ DrainCheck \/ CondWait \/ CondWake
    \/ (\E c \in Conns : CloseLeftover(c)) \/ Return

Next ==
    \/ \E c \in Conns : ConnStep(c)
    \/ Signal \/ ServeFails \/ CtxEnds \/ DrainStep \/ WakerStep

Spec == Init /\ [][Next]_vars

\* Goroutines run and the context has a deadline; a tunnel may stay open for
\* ever, and mu is never held by a goroutine that waits.
FairSpec ==
    /\ Spec
    /\ WF_vars(CtxEnds) /\ WF_vars(WakerStep)
    /\ WF_vars(DrainStep)

-----------------------------------------------------------------------------

\* serve returns after a signal, whatever tunnels are open: no wake-up of
\* cond.Wait is lost, neither the last remove's nor the one for the context.
ServeReturns == main = "shutdown" ~> main = "returned"

\* When serve returns after a signal, every tunnel add let in has been closed:
\* none slips in between the copy of the leftovers and the return.
NoTunnelLeft ==
    main = "returned" => \A c \in Conns : conn[c] # "open"

\* No wake-up of cond.Wait is lost: while drain sleeps, a tracked tunnel has still
\* to be removed and the waker has still to broadcast for the context, so that
\* neither has come between drain's look at conns and the context and its sleep.
WakeupIsPending == asleep => conns # {} /\ waker = "waiting"

=============================================================================
