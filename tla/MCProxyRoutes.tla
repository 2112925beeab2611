---------------------------- MODULE MCProxyRoutes ----------------------------
EXTENDS ProxyRoutes, TLC

MCLower == [h \in {"api", "API", "web", "a_b"} |-> IF h = "API" THEN "api" ELSE h]

Server(host, port) == [https |-> TRUE, host |-> host, port |-> port]

Cluster(server, ca) == [server |-> server, ca |-> ca, plain |-> TRUE]

\* One server in two spellings, another port of the same host, one that is none,
\* a server that is not https, and one whose CA data is not PEM.
MCClusterSpecs ==
    {Cluster(Server("api", 0), "ca1"), Cluster(Server("API", 443), "ca1"),
     Cluster(Server("API", 443), NoCA), Cluster(Server("api", 6443), NoCA),
     Cluster(Server("api", 65536), NoCA),
     Cluster([Server("api", 443) EXCEPT !.https = FALSE], NoCA),
     Cluster(Server("web", 443), "junk")}

MCClusterSpecsJunkCA ==
    {Cluster(Server("api", 0), "ca1"), Cluster(Server("api", 6443), "junk")}

MCUserSpecs ==
    {[token |-> "t1", plain |-> TRUE], [token |-> "t2", plain |-> TRUE],
     [token |-> "t1", plain |-> FALSE]}

MCDomains ==
    {[host |-> "API", port |-> 0], [host |-> "api", port |-> 6443],
     [host |-> "web", port |-> 443], [host |-> "a_b", port |-> 443],
     [host |-> "web", port |-> 65536]}

MCRequests ==
    {[host |-> "api", port |-> 443, https |-> TRUE], [host |-> "API", port |-> 6443, https |-> TRUE],
     [host |-> "web", port |-> 443, https |-> FALSE], [host |-> "web", port |-> 65536, https |-> TRUE],
     [host |-> "api", port |-> 443, https |-> FALSE]}

=============================================================================
