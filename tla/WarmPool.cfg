SPECIFICATION MCSpec
CONSTANTS
    c1 = c1  c2 = c2  c3 = c3  c4 = c4
    s1 = s1  s2 = s2
    NoPod = NoPod
    NoSession = NoSession
    Pods = {1, 2, 3}
    Sessions = {s1, s2}
    Claims = {c1, c2, c3, c4}
    SessionOf <- MCSessionOf
    EnvToken <- MCNoEnvToken
    Faulty = {c4}
    WriteFaults = TRUE
    Sizes = {0, 1}
    Hashes = {0, 1}
    MaxEdits = 1
    MaxLag = 1
    MaxVersion = 2
INVARIANTS TypeOK ClaimIsExclusive SessionHasOneClaimant
PROPERTIES PodsAreOwned LabelOnlyClearedByItsClaim PoolDeleteSparesSessions SyncedPassNeverOvershoots PoolConverges
CHECK_DEADLOCK FALSE
