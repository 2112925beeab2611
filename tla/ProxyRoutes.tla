---------------------------- MODULE ProxyRoutes ----------------------------
(***************************************************************************)
(* From the admin's kubeconfig and the instance's allowlist to the answer  *)
(* of the egress proxy: kubeconfig.Validate in the operator, the routes it *)
(* publishes, kubeconfig.LoadTokens and the route table in the proxy, and  *)
(* a request.  Validate ranges over Go maps, whose order is arbitrary: one *)
(* step per entry, any entry next.                                         *)
(***************************************************************************)
EXTENDS Naturals, FiniteSets

CONSTANTS
    ClusterNames, UserNames, ContextNames,
    ClusterSpecs,  \* [server, ca, plain]: plain is FALSE for a CA file path or skip-verify
    UserSpecs,     \* [token, plain]: plain is FALSE for any other kind of credential
    NoToken, NoCA, NoAnswer,
    Reject,        \* an error value; also the proxy's 403
    Lower,         \* strings.ToLower on the spellings of hosts
    DnsNames,      \* the lower-case hosts that are a DNS name or an IP
    PemCAs,        \* certificate-authority-data that is a PEM certificate
    Domains,       \* allowlist entries: [host, port]
    MaxDomains,
    Requests       \* requests to the proxy: [host, port, https]

NoPort == 0
MaxPort == 65535
Bare == "none"         \* an answer without a credential

\* A partial map from names to specifications.
Maps(names, specs) == UNION {[S -> specs] : S \in SUBSET names}

ContextSpecs == [cluster: ClusterNames, user: UserNames]

VARIABLES
    cfg,       \* the kubeconfig: clusters, users, contexts
    who,       \* who is validating it: "operator" or "proxy"
    stage,     \* the loop Validate is in, its verdict, and what comes after
    todo,      \* names the loop has not come to
    hosts,     \* indexClusters' map: host:port to [ca, token]
    covered,   \* assignContextTokens' set of clusters
    domains,   \* the allowlist
    routes,    \* the published routes
    request, answer

vars == <<cfg, who, stage, todo, hosts, covered, domains, routes, request, answer>>

HostPort == [host: DnsNames, port: 1..MaxPort]

\* The port of a request is explicit.
ASSUME RoutesAssumption ==
    /\ Reject \notin HostPort
    /\ \A req \in Requests : req.port # NoPort

Injectors == {"kubernetes", "none"}

TypeOK ==
    /\ who \in {"operator", "proxy"}
    /\ stage \in {"users", "clusters", "contexts", "covered", "valid", "invalid",
                  "stopped", "load", "crashed", "serving"}
    /\ todo \subseteq UserNames \cup ClusterNames \cup ContextNames
    /\ covered \subseteq ClusterNames
    /\ domains \subseteq Domains
    /\ \A r \in routes : r.domain \in HostPort /\ r.injector \in Injectors

Init ==
    /\ cfg \in [clusters: Maps(ClusterNames, ClusterSpecs), users: Maps(UserNames, UserSpecs),
                contexts: Maps(ContextNames, ContextSpecs)]
    /\ who = "operator" /\ stage = "users" /\ todo = DOMAIN cfg.users
    /\ hosts = <<>> /\ covered = {}
    /\ domains = {} /\ routes = {}
    /\ request = NoAnswer /\ answer = NoAnswer

-----------------------------------------------------------------------------
(* Hosts.                                                                  *)

\* Variant: the spelling of the host is kept.
CanonicalHostPortAsWritten(host, port) ==
    IF port \in 1..MaxPort THEN [host |-> host, port |-> port] ELSE Reject

CanonicalHostPort(host, port) ==
    IF port \in 1..MaxPort THEN [host |-> Lower[host], port |-> port] ELSE Reject

\* A missing port is 443; the host has to be a DNS name or an IP.
ParseAllowlistDomain(d) ==
    LET hp == CanonicalHostPort(d.host, IF d.port = NoPort THEN 443 ELSE d.port)
    IN  IF hp # Reject /\ Lower[d.host] \in DnsNames THEN hp ELSE Reject

HostPortFromServerURL(server) ==
    IF server.https THEN ParseAllowlistDomain(server) ELSE Reject

ServerOf(cluster) == HostPortFromServerURL(cfg.clusters[cluster].server)

-----------------------------------------------------------------------------
(* Validate.                                                               *)

Goto(s, left) == stage' = s /\ todo' = left

Invalid == Goto("invalid", {}) /\ UNCHANGED <<hosts, covered>>

validationVars == <<cfg, who, domains, routes, request, answer>>

validateAuthInfos(u) ==
    /\ stage = "users" /\ u \in todo
    /\ IF cfg.users[u].plain /\ cfg.users[u].token # NoToken
       THEN Goto("users", todo \ {u}) /\ UNCHANGED <<hosts, covered>>
       ELSE Invalid
    /\ UNCHANGED validationVars

indexClusters(c) ==
    LET spec == cfg.clusters[c]
        host == ServerOf(c)
    IN  /\ stage = "clusters" /\ c \in todo
        /\ IF ~spec.plain \/ host = Reject
              \/ (host \in DOMAIN hosts /\ hosts[host].ca # spec.ca)
           THEN Invalid
           ELSE /\ hosts' = [h \in DOMAIN hosts \cup {host} |->
                               IF h \in DOMAIN hosts THEN hosts[h]
                               ELSE [ca |-> spec.ca, token |-> NoToken]]
                /\ Goto("clusters", todo \ {c})
                /\ UNCHANGED covered
        /\ UNCHANGED validationVars

\* Variant: the last context's token wins.
AssignContextTokensLast(x) ==
    LET ctx == cfg.contexts[x]
        token == cfg.users[ctx.user].token
    IN  /\ stage = "contexts" /\ x \in todo
        /\ IF ctx.cluster \notin DOMAIN cfg.clusters \/ ctx.user \notin DOMAIN cfg.users
           THEN Invalid
           ELSE /\ hosts' = [hosts EXCEPT ![ServerOf(ctx.cluster)].token = token]
                /\ covered' = covered \cup {ctx.cluster}
                /\ Goto("contexts", todo \ {x})
        /\ UNCHANGED validationVars

assignContextTokens(x) ==
    LET ctx == cfg.contexts[x]
        token == cfg.users[ctx.user].token
        host == ServerOf(ctx.cluster)
    IN  /\ stage = "contexts" /\ x \in todo
        /\ IF \/ ctx.cluster \notin DOMAIN cfg.clusters \/ ctx.user \notin DOMAIN cfg.users
              \/ hosts[host].token \notin {NoToken, token}
           THEN Invalid
           ELSE /\ hosts' = [hosts EXCEPT ![host].token = token]
                /\ covered' = covered \cup {ctx.cluster}
                /\ Goto("contexts", todo \ {x})
        /\ UNCHANGED validationVars

\* The loops follow one another; the last two ask for a context per cluster and
\* a token per host.
NextLoop ==
    /\ todo = {}
    /\ \/ /\ stage = "users"
          /\ Goto(IF DOMAIN cfg.clusters = {} THEN "invalid" ELSE "clusters", DOMAIN cfg.clusters)
       \/ stage = "clusters" /\ Goto("contexts", DOMAIN cfg.contexts)
       \/ stage = "contexts" /\ Goto("covered", {})
       \/ /\ stage = "covered"
          /\ Goto(IF covered = DOMAIN cfg.clusters
                     /\ \A h \in DOMAIN hosts : hosts[h].token # NoToken
                  THEN "valid" ELSE "invalid", {})
    /\ UNCHANGED <<hosts, covered, validationVars>>

-----------------------------------------------------------------------------
(* The operator publishes routes.                                          *)

\* BuildProxyRoutes: one route per host, with the host's CA.
BuildProxyRoutes ==
    {[domain |-> h, injector |-> "kubernetes", ca |-> hosts[h].ca] : h \in DOMAIN hosts}

\* Entries that do not parse are skipped.
allowlistRoutes(ds) ==
    {[domain |-> h, injector |-> "none", ca |-> NoCA] :
        h \in {ParseAllowlistDomain(d) : d \in ds} \ {Reject}}

\* Variant: every route stays.
MergeRoutesAll(all) == all

\* A host with two injectors is dropped.
mergeRoutes(all) == {r \in all : \A q \in all : q.domain = r.domain => q.injector = r.injector}

\* loadProxyBuild: an invalid kubeconfig has no routes.  Without routes the proxy
\* is stopped, otherwise it is started on them.
loadProxyBuild(ds) ==
    /\ who = "operator" /\ stage \in {"valid", "invalid"}
    /\ domains' = ds
    /\ routes' = mergeRoutes((IF stage = "valid" THEN BuildProxyRoutes ELSE {})
                               \cup allowlistRoutes(ds))
    /\ IF routes' = {} THEN stage' = "stopped" /\ UNCHANGED who
       ELSE stage' = "load" /\ who' = "proxy"
    /\ UNCHANGED <<cfg, todo, hosts, covered, request, answer>>

-----------------------------------------------------------------------------
(* The proxy starts and serves.                                            *)

\* ParseConfig: hosts are unique and CAs are PEM.  newInjectors then reads the
\* kubeconfig if some route needs it.
ParseConfig ==
    /\ stage = "load"
    /\ hosts' = <<>> /\ covered' = {}
    /\ IF \/ \E r, q \in routes : r # q /\ r.domain = q.domain
          \/ \E r \in routes : r.injector = "kubernetes" /\ r.ca \notin PemCAs \cup {NoCA}
       THEN Goto("crashed", {})
       ELSE IF \E r \in routes : r.injector = "kubernetes"
       THEN Goto("users", DOMAIN cfg.users)
       ELSE Goto("serving", {})
    /\ UNCHANGED validationVars

\* A kubernetes route needs a token.
newInjectors ==
    /\ who = "proxy" /\ stage \in {"valid", "invalid"}
    /\ Goto(IF stage = "valid" /\ \A r \in routes : r.injector = "kubernetes"
                                                      => r.domain \in DOMAIN hosts
            THEN "serving" ELSE "crashed", {})
    /\ UNCHANGED <<hosts, covered, validationVars>>

\* Match, and Inject or a 403; the request's port is explicit.
handle(req) ==
    LET key == CanonicalHostPort(req.host, req.port)
        match == {r \in routes : r.domain = key}
    IN  /\ stage = "serving"
        /\ request' = req
        /\ answer' = IF match = {} THEN Reject
                     ELSE IF \E r \in match : r.injector = "none" THEN Bare
                     ELSE IF req.https THEN hosts[key].token ELSE Reject
        /\ UNCHANGED <<cfg, who, stage, todo, hosts, covered, domains, routes>>

Next ==
    \/ \E u \in UserNames : validateAuthInfos(u)
    \/ \E c \in ClusterNames : indexClusters(c)
    \/ \E x \in ContextNames : assignContextTokens(x)
    \/ NextLoop
    \/ \E ds \in SUBSET Domains : Cardinality(ds) <= MaxDomains /\ loadProxyBuild(ds)
    \/ ParseConfig \/ newInjectors
    \/ \E req \in Requests : handle(req)

Spec == Init /\ [][Next]_vars

-----------------------------------------------------------------------------

\* Where a server, an allowlist entry or a request leads, however it is spelled.
Endpoint(s) == <<Lower[s.host], IF s.port = NoPort THEN 443 ELSE s.port>>

\* A host that is a DNS name or an IP, and a port in range.
Usable(s) == Lower[s.host] \in DnsNames /\ Endpoint(s)[2] \in 1..MaxPort

\* The rule of the comment on Validate, without an order: token-only users,
\* usable clusters, one CA and one token per server, every context resolved, and
\* every cluster in a context.
WellFormed ==
    LET C == DOMAIN cfg.clusters  U == DOMAIN cfg.users  X == DOMAIN cfg.contexts
        server(c) == cfg.clusters[c].server
        tokenOf(x) == cfg.users[cfg.contexts[x].user].token
        endOf(x) == Endpoint(server(cfg.contexts[x].cluster))
    IN  /\ C # {}
        /\ \A u \in U : cfg.users[u].plain /\ cfg.users[u].token # NoToken
        /\ \A c \in C : cfg.clusters[c].plain /\ server(c).https /\ Usable(server(c))
        /\ \A c, d \in C : Endpoint(server(c)) = Endpoint(server(d))
                             => cfg.clusters[c].ca = cfg.clusters[d].ca
        /\ \A x \in X : cfg.contexts[x].cluster \in C /\ cfg.contexts[x].user \in U
        /\ \A x, y \in X : endOf(x) = endOf(y) => tokenOf(x) = tokenOf(y)
        /\ C = {cfg.contexts[x].cluster : x \in X}

\* Validate's verdict, in the operator and again in the proxy, is that of the
\* rule: it does not depend on the order in which Go ranges over the maps.
VerdictIsRight ==
    /\ stage = "valid" => WellFormed
    /\ stage = "invalid" => ~WellFormed

\* What the operator publishes, the proxy can load, if the CA data of the clusters
\* is PEM: ParseConfig and newInjectors accept the routes with the kubeconfig they
\* were built from.  (Validate does not look into CA data.)
PublishedConfigLoads ==
    stage = "crashed" =>
       \E c \in DOMAIN cfg.clusters : cfg.clusters[c].ca \notin PemCAs \cup {NoCA}

\* The same whatever the CA data is.  It fails: BuildProxyRoutes publishes CA data
\* as it is, and one route whose CA is not PEM makes ParseConfig refuse them all.
AnyPublishedConfigLoads == stage # "crashed"

\* What a request is to get, from the kubeconfig and the allowlist as written
\* (docs/architecture.md: "The same host on both a kubernetes target and an
\* allowlist is not routed").
Expected(req) ==
    LET same(s) == Endpoint(s) = Endpoint(req)
        inKube == WellFormed /\ \E c \in DOMAIN cfg.clusters : same(cfg.clusters[c].server)
        inList == \E d \in domains : same(d) /\ Usable(d)
        ctx == CHOOSE x \in DOMAIN cfg.contexts :
                  same(cfg.clusters[cfg.contexts[x].cluster].server)
    IN  CASE inKube /\ ~inList /\ req.https -> cfg.users[cfg.contexts[ctx].user].token
          [] inList /\ ~inKube -> Bare
          [] OTHER -> Reject

\* A request is answered with the token that a context gives its server, without
\* one for an allowlisted host, and refused otherwise, however hosts are spelled
\* in the kubeconfig, the allowlist and the request.
RequestIsRouted == answer # NoAnswer => answer = Expected(request)

=============================================================================
