SPECIFICATION Spec
CONSTANTS
    c1 = c1  c2 = c2  c3 = c3  c4 = c4  s1 = s1  s2 = s2  r1 = r1  r2 = r2
    NoPod = NoPod
    NoSession = NoSession
    Pods = {1, 2, 3, 4}
    Sessions = {s1, s2}
    Claims = {c1, c2, c3, c4}
    Replicas = {r1, r2}
    SessionOf <- MCSessionOf
    ReplicaOf <- MCReplicaOf
    EnvToken <- MCEnvToken
    Faulty = {c4}
    Serial = FALSE
    Workloads <- MCRace
    MaxVersion = 3
    ProxyGateTTL = 2
    LookupTicks = 1
INVARIANTS OneShellPerSession
CHECK_DEADLOCK FALSE
