---------------------------- MODULE PodOwnership ----------------------------
(***************************************************************************)
(* What the warm pool promises, without saying how: a pod belongs to       *)
(* nobody or to one session, goes from one session to another only by way  *)
(* of nobody, and once it is settled with a session it stays with it as    *)
(* long as it exists.  Nobody but its session ends a settled pod.          *)
(***************************************************************************)
CONSTANTS Pods, Sessions, NoSession

VARIABLES
    place,     \* per pod: "none", "live", "terminating" or "gone"
    owner,     \* per pod: the session it is claimed for, or NoSession
    settled    \* the pods a claim was returned for

vars == <<place, owner, settled>>

\* A pool, filled or not, that nobody has claimed from
Init ==
    /\ place \in [Pods -> {"none", "live", "gone"}]
    /\ owner = [p \in Pods |-> NoSession]
    /\ settled = {}

Exists(p) == place[p] \in {"live", "terminating"}

Create(p) ==
    /\ place[p] = "none"
    /\ place' = [place EXCEPT ![p] = "live"]
    /\ UNCHANGED <<owner, settled>>

Take(p) ==
    /\ Exists(p) /\ owner[p] = NoSession
    /\ \E s \in Sessions : owner' = [owner EXCEPT ![p] = s]
    /\ UNCHANGED <<place, settled>>

GiveBack(p) ==
    /\ Exists(p) /\ owner[p] # NoSession
    /\ owner' = [owner EXCEPT ![p] = NoSession]
    /\ p \notin settled
    /\ UNCHANGED <<place, settled>>

Settle(p) ==
    /\ Exists(p) /\ owner[p] # NoSession
    /\ settled' = settled \cup {p}
    /\ UNCHANGED <<place, owner>>

\* The pool retires a pod it has no use for, or one too many of a session.
Retire(p) ==
    /\ place[p] = "live"
    /\ place' = [place EXCEPT ![p] = "terminating"]
    /\ p \notin settled
    /\ UNCHANGED <<owner, settled>>

Remove(p) ==
    /\ place[p] = "terminating"
    /\ place' = [place EXCEPT ![p] = "gone"]
    /\ owner' = [owner EXCEPT ![p] = NoSession]
    /\ settled' = settled \ {p}

Next ==
    \E p \in Pods :
       Create(p) \/ Take(p) \/ GiveBack(p) \/ Settle(p) \/ Retire(p) \/ Remove(p)

Spec == Init /\ [][Next]_vars

=============================================================================
