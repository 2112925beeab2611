------------------------- MODULE MitmTrackerProofs -------------------------
(***************************************************************************)
(* The shutdown of the egress proxy for any number of connections: no      *)
(* tunnel survives serve, and a sleeping drain always has somebody who     *)
(* will wake it.                                                           *)
(***************************************************************************)
EXTENDS MitmTracker, TLAPS

\* add tracks a tunnel before it lets it run, remove forgets it once closed.
OpenIsTracked == \A c \in Conns : conn[c] = "open" => c \in conns

\* Past the loop a tunnel that is still open is one that drain will close:
\* draining is set before the copy, so add lets none in after it.
OpenIsLeftover ==
    main \in {"close", "returned"} =>
        \A c \in Conns : conn[c] = "open" => c \in leftover

\* Past the close, nothing is left over.
AllClosed == main = "returned" => leftover = {}

\* drain holds mu while it looks at conns and until it sleeps.
LockIsDrains ==
    /\ main = "check" => mu = Main
    /\ mu = Main => main \in {"check", "wait"} /\ ~asleep
    /\ asleep => main = "wait"

DrainingIsSet == main \in {"check", "wait", "close", "returned"} => draining

\* As long as drain may sleep its waker runs, or has seen the context's end.
WakerIsThere ==
    main \in {"lock", "check", "wait"} =>
        waker = "waiting" \/ (waker = "over" /\ ctxDone)

\* WakeupIsPending already between the decision to sleep and cond.Wait, where
\* drain holds mu and nobody can take either wake-up away.
SleepIsSafe == main = "wait" /\ mu = Main => conns # {} /\ waker = "waiting"

IInv ==
    /\ TypeOK /\ OpenIsTracked /\ OpenIsLeftover /\ AllClosed
    /\ LockIsDrains /\ DrainingIsSet /\ WakerIsThere
    /\ WakeupIsPending /\ SleepIsSafe

-----------------------------------------------------------------------------

\* Init establishes the invariant: nothing is tracked and nobody drains.
LEMMA InitInv == Init => IInv
BY DEF Init, IInv, TypeOK, ConnPc, OpenIsTracked, OpenIsLeftover, AllClosed,
       LockIsDrains, DrainingIsSet, WakerIsThere, WakeupIsPending, SleepIsSafe,
       Main, Nobody

\* Every step of a connection, of serve, of drain and of its waker keeps it.
LEMMA NextInv == IInv /\ [Next]_vars => IInv'
<1> SUFFICES ASSUME IInv, [Next]_vars PROVE IInv'
  OBVIOUS
<1> USE DEF IInv, TypeOK, ConnPc, OpenIsTracked, OpenIsLeftover, AllClosed,
            LockIsDrains, DrainingIsSet, WakerIsThere, WakeupIsPending,
            SleepIsSafe, Main, Nobody
<1>1. ASSUME NEW c \in Conns, Hijack(c) PROVE IInv'
  BY <1>1 DEF Hijack
<1>2. CASE ServeFails
  BY <1>2 DEF ServeFails
<1>3. ASSUME NEW c \in Conns, add(c) PROVE IInv'
  BY <1>3 DEF add
<1>4. ASSUME NEW c \in Conns, CloseConn(c) PROVE IInv'
  BY <1>4 DEF CloseConn
<1>5. ASSUME NEW c \in Conns, remove(c) PROVE IInv'
  BY <1>5 DEF remove
<1>6. CASE Signal
  BY <1>6 DEF Signal
<1>7. CASE CtxEnds
  BY <1>7 DEF CtxEnds
<1>8. CASE ShutdownReturns
  BY <1>8 DEF ShutdownReturns
<1>9. CASE DrainLock
  BY <1>9 DEF DrainLock
<1>10. CASE DrainCheck
  BY <1>10 DEF DrainCheck
<1>11. CASE CondWait
  BY <1>11 DEF CondWait
<1>12. CASE CondWake
  BY <1>12 DEF CondWake
<1>13. CASE WakerStep
  BY <1>13 DEF WakerStep
<1>14. ASSUME NEW c \in Conns, CloseLeftover(c) PROVE IInv'
  BY <1>14 DEF CloseLeftover
<1>15. CASE Return
  BY <1>15 DEF Return
<1>16. CASE UNCHANGED vars
  BY <1>16 DEF vars
<1> QED
  BY <1>1, <1>2, <1>3, <1>4, <1>5, <1>6, <1>7, <1>8, <1>9, <1>10, <1>11, <1>12,
     <1>13, <1>14, <1>15, <1>16 DEF Next, ConnStep, DrainStep

\* IInv holds in every state serve can reach.
LEMMA Invariant == Spec => []IInv
BY InitInv, NextInv, PTL DEF Spec

-----------------------------------------------------------------------------

\* When serve returns, no tunnel that add let in is open, however many
\* connections race with the shutdown.
THEOREM ServeLeavesNoTunnel == Spec => []NoTunnelLeft
<1>1. IInv => NoTunnelLeft
  BY DEF IInv, OpenIsLeftover, AllClosed, NoTunnelLeft
<1> QED
  BY <1>1, Invariant, PTL

\* No wake-up of cond.Wait is lost: while drain sleeps, both the removal of a
\* tracked tunnel and the waker's broadcast are still to come.
THEOREM NoLostWakeup == Spec => []WakeupIsPending
BY Invariant, PTL DEF IInv

=============================================================================
