---------------------------- MODULE ProxyRollout ----------------------------
(***************************************************************************)
(* How the egress proxy follows its inputs: applyProxy publishes routes    *)
(* and the dummy kubeconfig in a ConfigMap, stamps the resourceVersions of *)
(* its inputs on the pod template of the proxy Deployment, and stops the   *)
(* proxy when it has no routes; a proxy pod reads its inputs once, when it *)
(* starts.  proxyPoolOpen decides whether pool pods may be created.        *)
(***************************************************************************)
EXTENDS Naturals, FiniteSets

CONSTANTS
    Kubes,      \* valid kubeconfigs, as functions from servers to tokens
    Invalid,    \* what the Secret holds is rejected by Validate, or by caUsable
    Absent,     \* "no such object", "no such key"
    Hosts,      \* hosts that an allowlist target may have
    PodSlots,   \* room for proxy pods
    MaxEdits,   \* bound: edits of the two Secrets, failed passes
    Settings    \* the circumstances to look at

Kinds == {"kube", "ca", "cm", "deploy"}

\* What the objects, and a proxy that runs, hold.
Servers == UNION {DOMAIN k : k \in Kubes}
Tokens == UNION {{k[s] : s \in DOMAIN k} : k \in Kubes}
Routes == [kube: SUBSET Servers, list: SUBSET Hosts]
Dummy == [servers: SUBSET Servers, ca: Nat]
ConfigMap == [routes: Routes, dummy: Dummy \cup {Absent}]
Template == [cm: Nat, ca: Nat, kube: Nat \cup {Absent}]
Deployment == [replicas: {0, 1}, tmpl: Template]
Config == [routes: Routes, ca: Nat, tokens: UNION {[S -> Tokens] : S \in SUBSET Servers}]

\* list: the hosts of the allowlist target;  lag: the kinds of objects whose watch
\* may be late.  Validate wants a cluster in a kubeconfig.
ASSUME RolloutAssumption ==
    /\ Cardinality(PodSlots) = 2 /\ MaxEdits \in Nat
    /\ Settings \subseteq [list: SUBSET Hosts, lag: SUBSET Kinds]
    /\ \A k \in Kubes : k = [s \in DOMAIN k |-> k[s]] /\ DOMAIN k # {}
    /\ Invalid # Absent /\ \A x \in {Invalid, Absent} : x \notin Nat /\ x \notin Kubes
    /\ Absent \notin [rv: Nat, val: Nat \cup {Invalid, Absent}] /\ Absent \notin Routes
    /\ Absent \notin ConfigMap /\ Absent \notin Deployment /\ Absent \notin Config

VARIABLES
    api,      \* API server: the kubeconfig Secret, CA Secret, ConfigMap and Deployment
    cache,    \* the operator's copies
    pods,     \* proxy pods: the template they were made from, what they loaded
    op,       \* the pass
    due,      \* a pass is queued
    open,     \* what proxyPoolOpen last answered
    edits,
    setting,  \* chosen once
    steady    \* history variable: "broken" if the Secret was ever invalid, else
              \* whether a proxy has "served" or they are "waiting" for one

vars == <<api, cache, pods, op, due, open, edits, setting, steady>>

\* Objects carry a resourceVersion; 0 stands for "not there".
None == [rv |-> 0, val |-> Absent]

NoPod == [tmpl |-> Absent, loaded |-> Absent]

Idle == [pc |-> "idle", routes |-> Absent, dummy |-> Absent, kube |-> Absent, ca |-> Absent,
         cm |-> Absent]

Values ==
    [kube |-> Kubes \cup {Invalid, Absent}, ca |-> Nat \cup {Invalid, Absent},
     cm |-> ConfigMap \cup {Absent}, deploy |-> Deployment \cup {Absent}]

ObjectsOK(objs) ==
    /\ objs = [k \in Kinds |-> objs[k]]
    /\ \A k \in Kinds : objs[k] \in [rv: Nat, val: Values[k]]

caUsable(ca) == ca.val \notin {Absent, Invalid}

\* What a pass has read and made so far.
PassOK ==
    /\ op \in [pc: {"idle", "load", "cm", "deploy", "drop", "scale", "gate"},
              routes: Routes \cup {Absent}, dummy: Dummy \cup {Absent},
              kube: Nat \cup {Absent}, ca: [rv: Nat, val: Values.ca] \cup {Absent},
              cm: Nat \cup {Absent}]
    /\ op.pc \in {"load", "cm", "deploy"} => op.ca # Absent
    /\ op.pc \in {"cm", "deploy"} => op.routes # Absent /\ caUsable(op.ca)
    /\ op.pc = "deploy" => op.cm # Absent

TypeOK ==
    /\ ObjectsOK(api) /\ ObjectsOK(cache) /\ PassOK
    /\ pods \in [PodSlots -> [tmpl: Template \cup {Absent}, loaded: Config \cup {Absent}]]
    /\ due \in BOOLEAN /\ open \in BOOLEAN /\ steady \in {"broken", "waiting", "served"}
    /\ edits \in 0..MaxEdits /\ setting \in Settings

Init ==
    /\ \E k \in Kubes \cup {Invalid, Absent} :
          api = [x \in Kinds |-> IF x = "kube" THEN [rv |-> 1, val |-> k] ELSE None]
    /\ cache = api
    /\ pods = [p \in PodSlots |-> NoPod]
    /\ op = Idle /\ due = TRUE /\ open = FALSE
    /\ setting \in Settings
    /\ edits = 0 /\ steady = IF api["kube"].val \in Kubes THEN "waiting" ELSE "broken"

-----------------------------------------------------------------------------
(* The API server and its clients.                                         *)

Put(k, val) == [api EXCEPT ![k] = [rv |-> @.rv + 1, val |-> val]]

\* A kind whose watch is not late is seen at once.
Seen(k) == IF k \in setting.lag THEN cache[k] ELSE api[k]

Running == {p \in PodSlots : pods[p].loaded # Absent}

EditSecret(k) ==
    /\ edits < MaxEdits /\ edits' = edits + 1
    /\ k # api["kube"].val
    /\ api' = Put("kube", k) /\ due' = (due \/ "kube" \notin setting.lag)
    /\ steady' = IF k \in Kubes THEN steady ELSE "broken"
    /\ UNCHANGED <<cache, pods, op, open, setting>>

\* The CA Secret is deleted, or loses a key.
EditCA(val) ==
    /\ edits < MaxEdits /\ edits' = edits + 1
    /\ api["ca"].val \notin {Absent, val}
    /\ api' = Put("ca", val) /\ due' = (due \/ "ca" \notin setting.lag)
    /\ steady' = IF val = Invalid THEN "broken" ELSE steady
    /\ UNCHANGED <<cache, pods, op, open, setting>>

\* Secrets reach the instance by mapSecret, children by their owner.
Deliver(k) ==
    /\ k \in setting.lag /\ cache[k] # api[k]
    /\ cache' = [cache EXCEPT ![k] = api[k]]
    /\ due' = TRUE
    /\ UNCHANGED <<api, pods, op, open, edits, setting, steady>>

\* proxyGateRetry, the resync, and the Deployment's status events.
Requeue ==
    /\ ~due
    /\ due' = TRUE
    /\ UNCHANGED <<api, cache, pods, op, open, edits, setting, steady>>

-----------------------------------------------------------------------------
(* A pass of the operator.                                                 *)

passVars == <<pods, edits, setting, steady>>

\* An error ends the pass; the work queue retries.
Fails == op' = Idle /\ due' = TRUE /\ UNCHANGED <<api, open>>

\* CreateOrUpdate, and Get with Update: nothing is written when the cached object
\* is as it should be, be it stale; otherwise a stale copy is a conflict.
Update(k, val, then) ==
    IF Seen(k).val = val THEN op' = then /\ UNCHANGED <<api, due, open>>
    ELSE IF Seen(k).rv # api[k].rv THEN Fails
    ELSE api' = Put(k, val) /\ op' = then /\ UNCHANGED <<due, open>>

\* Variant: that the CA could not be read back is not an error.
EnsureProxyCAUnread ==
    /\ op.pc = "idle" /\ due
    /\ IF Seen("ca").val # Absent
       THEN op' = [Idle EXCEPT !.pc = "load", !.ca = Seen("ca")] /\ UNCHANGED api
       ELSE IF api["ca"].val # Absent
       THEN op' = [Idle EXCEPT !.pc = "load", !.ca = Seen("ca")] /\ UNCHANGED api
       ELSE /\ api' = Put("ca", api["ca"].rv + 1)
            /\ op' = [Idle EXCEPT !.pc = "load", !.ca = Seen("ca")]
    /\ due' = FALSE /\ UNCHANGED <<open, cache, passVars>>

\* The CA is generated once.  Created, it is read back through the cache, which
\* may not show it yet.
ensureProxyCA ==
    /\ op.pc = "idle" /\ due
    /\ IF Seen("ca").val # Absent
       THEN /\ op' = [Idle EXCEPT !.pc = "load", !.ca = Seen("ca")]
            /\ due' = FALSE /\ UNCHANGED <<api, open>>
       ELSE IF api["ca"].val # Absent
       THEN Fails
       ELSE /\ api' = Put("ca", api["ca"].rv + 1)
            /\ \/ "ca" \notin setting.lag /\ due' = FALSE
                  /\ op' = [Idle EXCEPT !.pc = "load", !.ca = api'["ca"]]
               \/ "ca" \in setting.lag /\ due' = TRUE /\ op' = Idle
            /\ UNCHANGED open
    /\ UNCHANGED <<cache, passVars>>

\* loadProxyBuild: an invalid kubeconfig has no routes, no dummy and no volume.
\* Without routes, or without a CA, the proxy is stopped.  (No host is both in
\* the kubeconfig and in the allowlist; ProxyRoutes has that conflict.)
loadProxyBuild ==
    LET kube == Seen("kube")
        valid == kube.val \in Kubes /\ caUsable(op.ca)
        servers == IF valid THEN DOMAIN kube.val ELSE {}
    IN  /\ op.pc = "load"
        /\ op' = [op EXCEPT !.pc = IF caUsable(op.ca) /\ servers \cup setting.list # {}
                                   THEN "cm" ELSE "drop",
                            !.routes = [kube |-> servers, list |-> setting.list],
                            !.dummy = IF valid THEN [servers |-> servers, ca |-> op.ca.val]
                                      ELSE Absent,
                            !.kube = IF valid THEN kube.rv ELSE Absent]
        /\ UNCHANGED <<api, cache, due, open, passVars>>

applyProxyConfigMap ==
    LET val == [routes |-> op.routes, dummy |-> op.dummy]
        rv == IF Seen("cm").val = val THEN Seen("cm").rv ELSE api["cm"].rv + 1
    IN  /\ op.pc = "cm"
        /\ Update("cm", val, [op EXCEPT !.pc = "deploy", !.cm = rv])
        /\ UNCHANGED <<cache, passVars>>

\* Variant: the kubeconfig's resourceVersion is not stamped.
ProxyPodTemplateUnstamped(o) ==
    [cm |-> o.cm, ca |-> o.ca.rv, kube |-> IF o.kube = Absent THEN Absent ELSE 0]

proxyPodTemplate(o) == [cm |-> o.cm, ca |-> o.ca.rv, kube |-> o.kube]

applyProxyDeployment ==
    /\ op.pc = "deploy"
    /\ Update("deploy", [replicas |-> 1, tmpl |-> proxyPodTemplate(op)], [op EXCEPT !.pc = "gate"])
    /\ UNCHANGED <<cache, passVars>>

\* quiesceUnroutedProxy: the ConfigMap keeps no routes and no dummy, the
\* Deployment no replicas and no kubeconfig volume.
dropPublishedKubeconfig ==
    /\ op.pc = "drop"
    /\ IF Seen("cm").val = Absent
       THEN op' = [op EXCEPT !.pc = "scale"] /\ UNCHANGED <<api, due, open>>
       ELSE Update("cm", [routes |-> [kube |-> {}, list |-> {}], dummy |-> Absent],
                   [op EXCEPT !.pc = "scale"])
    /\ UNCHANGED <<cache, passVars>>

scaleProxyToZero ==
    /\ op.pc = "scale"
    /\ IF Seen("deploy").val = Absent
       THEN op' = [op EXCEPT !.pc = "gate"] /\ UNCHANGED <<api, due, open>>
       ELSE Update("deploy", [replicas |-> 0, tmpl |-> [Seen("deploy").val.tmpl EXCEPT !.kube = Absent]],
                   [op EXCEPT !.pc = "gate"])
    /\ UNCHANGED <<cache, passVars>>

\* The ConfigMap with its dummy, and a ready address of the proxy Service.  The
\* instance names a kubeconfig Secret, and the two NetworkPolicies, which every pass
\* has applied by now and nobody deletes here, are there.
proxyPoolOpen ==
    /\ op.pc = "gate"
    /\ open' = (Seen("cm").val # Absent /\ Seen("cm").val.dummy # Absent /\ Running # {})
    /\ op' = Idle
    /\ UNCHANGED <<api, cache, due, passVars>>

\* Any request of the pass may fail.
PassFails ==
    /\ op.pc # "idle" /\ edits < MaxEdits /\ edits' = edits + 1
    /\ Fails
    /\ UNCHANGED <<cache, pods, setting, steady>>

-----------------------------------------------------------------------------
(* The Deployment controller and the kubelet (external).                   *)

Deploy == IF api["deploy"].val = Absent THEN [replicas |-> 0, tmpl |-> Absent] ELSE api["deploy"].val

Of(tmpl) == {p \in PodSlots : pods[p].tmpl = tmpl}

clusterVars == <<api, cache, op, due, open, edits, setting>>

\* maxSurge 1
CreateProxyPod(p) ==
    /\ Deploy.replicas = 1 /\ Of(Deploy.tmpl) = {} /\ pods[p] = NoPod
    /\ pods' = [pods EXCEPT ![p].tmpl = Deploy.tmpl]
    /\ UNCHANGED <<clusterVars, steady>>

\* maxUnavailable 0: the last pod that serves stays until one of the new template
\* does.
RemoveProxyPod(p) ==
    /\ pods[p] # NoPod
    /\ \/ Deploy.replicas = 0
       \/ pods[p].tmpl # Deploy.tmpl /\ Running \ {p} # {}
       \/ pods[p].tmpl # Deploy.tmpl /\ p \notin Running
    /\ pods' = [pods EXCEPT ![p] = NoPod]
    /\ UNCHANGED <<clusterVars, steady>>

\* A container starts on what is mounted now, and fails (and is restarted)
\* unless every kubernetes route finds a token.
StartProxy(p) ==
    LET cm == api["cm"].val
        kube == api["kube"].val
    IN  /\ pods[p] # NoPod /\ p \notin Running
        /\ caUsable(api["ca"]) /\ cm # Absent
        /\ pods[p].tmpl.kube # Absent => kube # Absent
        /\ cm.routes.kube \cup cm.routes.list # {}
        /\ cm.routes.kube # {} => pods[p].tmpl.kube # Absent /\ kube \in Kubes
                                    /\ cm.routes.kube \subseteq DOMAIN kube
        /\ pods' = [pods EXCEPT ![p].loaded =
                      [routes |-> cm.routes, ca |-> api["ca"].val,
                       tokens |-> [s \in cm.routes.kube |-> kube[s]]]]
        /\ steady' = IF steady = "broken" THEN "broken" ELSE "served"
        /\ UNCHANGED clusterVars

OperatorStep ==
    \/ ensureProxyCA \/ loadProxyBuild \/ applyProxyConfigMap \/ applyProxyDeployment
    \/ dropPublishedKubeconfig \/ scaleProxyToZero \/ proxyPoolOpen

Next ==
    \/ \E k \in Kubes \cup {Invalid, Absent} : EditSecret(k)
    \/ EditCA(Absent) \/ EditCA(Invalid)
    \/ \E k \in Kinds : Deliver(k)
    \/ Requeue \/ OperatorStep \/ PassFails
    \/ \E p \in PodSlots : CreateProxyPod(p) \/ RemoveProxyPod(p) \/ StartProxy(p)

Spec == Init /\ [][Next]_vars

\* The operator, the watches, the Deployment controller and the kubelet go on.
FairSpec ==
    /\ Spec
    /\ WF_vars(OperatorStep) /\ WF_vars(Requeue)
    /\ WF_vars(\E k \in Kinds : Deliver(k))
    /\ WF_vars(\E p \in PodSlots : CreateProxyPod(p))
    /\ WF_vars(\E p \in PodSlots : RemoveProxyPod(p))
    /\ WF_vars(\E p \in PodSlots : StartProxy(p))

-----------------------------------------------------------------------------

\* What the inputs ask for.
Wanted ==
    LET kube == api["kube"].val
        servers == IF kube \in Kubes THEN DOMAIN kube ELSE {}
    IN  [routes |-> [kube |-> servers, list |-> setting.list], ca |-> api["ca"].val,
         tokens |-> [s \in servers |-> kube[s]]]

Settled ==
    /\ \A p \in Running : pods[p].loaded = Wanted
    /\ (Running # {}) = (caUsable(api["ca"]) /\ Wanted.routes.kube \cup Wanted.routes.list # {})
    /\ open = (caUsable(api["ca"]) /\ Wanted.routes.kube # {})

\* "The proxy rolls and injects the new token" (ADR 0002), and a kubeconfig that
\* is gone or invalid is no longer served: once the edits end, the running proxy,
\* and no other, has loaded the routes, tokens and CA that the inputs now say, and
\* the pool gate is open just if there is a kubernetes route to serve.
ProxyFollowsInputs == <>[]Settled

\* Compatible updates do not interrupt the proxy (ADR 0002): from the moment one
\* serves, some proxy pod serves if the Secrets are never invalid, whatever tokens
\* and servers they are changed to and though the CA is deleted and passes fail.
ServiceIsKept == steady = "served" => Running # {}

=============================================================================
