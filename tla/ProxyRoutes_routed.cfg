SPECIFICATION Spec
CONSTANTS
    ClusterNames = {c1, c2}
    UserNames = {u1, u2}
    ContextNames = {x1, x2}
    NoToken = NoToken
    NoCA = NoCA
    NoAnswer = NoAnswer
    Reject = Reject
    ClusterSpecs <- MCClusterSpecs
    UserSpecs <- MCUserSpecs
    Lower <- MCLower
    DnsNames = {"api", "web"}
    PemCAs = {"ca1"}
    Domains <- MCDomains
    MaxDomains = 2
    Requests <- MCRequests
CHECK_DEADLOCK FALSE
INVARIANTS VerdictIsRight PublishedConfigLoads RequestIsRouted
