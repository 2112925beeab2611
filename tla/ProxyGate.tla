----------------------------- MODULE ProxyGate -----------------------------
(***************************************************************************)
(* ensureProxyReady of pkg/session/manager.go: before a replica claims or  *)
(* creates a pod it asks whether the egress proxy has a ready endpoint and *)
(* the sandbox NetworkPolicy is there.  The verdict is kept for a while,   *)
(* and calls that ask at the same time share one lookup.                   *)
(***************************************************************************)
EXTENDS Naturals

CONSTANTS
    Replicas,        \* MCP server processes, each with a gate of its own
    ProxyGateTTL,    \* how long a verdict is used, in ticks
    LookupTicks      \* bound: ticks that may pass during a lookup

ASSUME GateAssumption == ProxyGateTTL \in Nat \ {0} /\ LookupTicks \in Nat

VARIABLES
    gate,     \* per replica: the verdict kept and its age (ProxyGateTTL: expired)
    flight,   \* per replica: the shared lookup and its age
    proxy     \* what the lookup reads

gateVars == <<gate, flight, proxy>>

\* The Service's EndpointSlices and the NetworkPolicy
Parts == {"endpoints", "policy"}

MaxDown == ProxyGateTTL + LookupTicks

\* faulty: the lookup uses the context of a call whose requests may fail;
\* up: the parts that are as they should be;  down: history variable, for how long
\* a part has not been;  on: the replicas are configured with a ProxyService
GateTypeOK ==
    /\ gate \in [Replicas -> [verdict: {"none", "open", "shut"}, age: 0..ProxyGateTTL]]
    /\ flight \in [Replicas -> [pc: {"none", "check", "list", "get"},
                                faulty: BOOLEAN, age: 0..LookupTicks]]
    /\ proxy \in [on: BOOLEAN, up: SUBSET Parts, down: [Parts -> 0..MaxDown]]

NoFlight == [pc |-> "none", faulty |-> FALSE, age |-> 0]

GateInit(on) ==
    /\ gate = [r \in Replicas |-> [verdict |-> "none", age |-> 0]]
    /\ flight = [r \in Replicas |-> NoFlight]
    /\ proxy = [on |-> on, up |-> Parts, down |-> [x \in Parts |-> 0]]

\* Variant: a verdict is used for as long as its age is no more than the TTL.
cachedProxyGateLonger(r) == gate[r].verdict # "none" /\ gate[r].age <= ProxyGateTTL

cachedProxyGate(r) == gate[r].verdict # "none" /\ gate[r].age < ProxyGateTTL

storeProxyGate(r, v) == gate' = [gate EXCEPT ![r] = [verdict |-> v, age |-> 0]]

\* DoChan: the first caller's function runs, with that caller's context.
Join(r, faulty) ==
    /\ IF flight[r].pc = "none"
       THEN flight' = [flight EXCEPT ![r] = [NoFlight EXCEPT !.pc = "check", !.faulty = faulty]]
       ELSE UNCHANGED flight
    /\ UNCHANGED <<gate, proxy>>

\* The lookup goes on; nobody has an answer yet.
LookupGoesOn(r) ==
    /\ \/ flight[r].pc = "check" /\ ~cachedProxyGate(r) /\ flight' = [flight EXCEPT ![r].pc = "list"]
       \/ /\ flight[r].pc = "list" /\ "endpoints" \in proxy.up
          /\ flight' = [flight EXCEPT ![r].pc = "get"]
    /\ UNCHANGED <<gate, proxy>>

\* lookupProxyReady finds a part missing, or one of its requests fails.
LookupRefuses(r) ==
    \/ flight[r].pc = "list" /\ ("endpoints" \notin proxy.up \/ flight[r].faulty)
    \/ flight[r].pc = "get" /\ ("policy" \notin proxy.up \/ flight[r].faulty)

\* The lookup is over and its callers are answered.  A verdict that is the
\* leader's own cancellation is not kept.
LookupEnds(r, verdict) ==
    /\ \/ /\ flight[r].pc = "check" /\ cachedProxyGate(r)
          /\ verdict = gate[r].verdict /\ UNCHANGED gate
       \/ /\ flight[r].pc = "get" /\ "policy" \in proxy.up
          /\ verdict = "open" /\ storeProxyGate(r, verdict)
       \/ /\ LookupRefuses(r)
          /\ verdict = "shut" /\ storeProxyGate(r, verdict)
       \/ /\ flight[r].pc \in {"list", "get"} /\ flight[r].faulty
          /\ verdict = "shut" /\ UNCHANGED gate
    /\ flight' = [flight EXCEPT ![r] = NoFlight]
    /\ UNCHANGED proxy

-----------------------------------------------------------------------------
(* The environment: time, and the operator's rollouts of the proxy.        *)

Older(n, max) == IF n < max THEN n + 1 ELSE n

Tick ==
    /\ proxy.on
    /\ \A r \in Replicas : flight[r].pc # "none" => flight[r].age < LookupTicks
    /\ gate' = [r \in Replicas |->
                  IF gate[r].verdict = "none" THEN gate[r]
                  ELSE [gate[r] EXCEPT !.age = Older(@, ProxyGateTTL)]]
    /\ flight' = [r \in Replicas |->
                    IF flight[r].pc = "none" THEN flight[r] ELSE [flight[r] EXCEPT !.age = @ + 1]]
    /\ proxy' = [proxy EXCEPT !.down = [x \in Parts |->
                    IF x \in proxy.up THEN 0 ELSE Older(@[x], MaxDown)]]

ProxyChanges(x) ==
    /\ proxy.on
    /\ proxy' = IF x \in proxy.up THEN [proxy EXCEPT !.up = @ \ {x}]
                ELSE [proxy EXCEPT !.up = @ \cup {x}, !.down[x] = 0]
    /\ UNCHANGED <<gate, flight>>

=============================================================================
