---------------------------- MODULE MCProxyRollout ----------------------------
EXTENDS ProxyRollout

CONSTANTS p1, p2

\* A token rotation, and another set of servers.
MCKubes == {[s \in {"a"} |-> "t1"], [s \in {"a"} |-> "t2"], [s \in {"a", "b"} |-> "t1"]}

\* Without an allowlist every route depends on the kubeconfig; with one, routes
\* remain when the kubeconfig is invalid.
MCSettings ==
    {[list |-> {}, lag |-> {"kube", "cm"}], [list |-> {"w"}, lag |-> {"ca"}]}

MCLateDeployment == {[list |-> {"w"}, lag |-> {"ca", "deploy"}]}

=============================================================================
