SPECIFICATION Spec
CONSTANTS
    c1 = c1  c2 = c2  c3 = c3  c4 = c4
    s1 = s1  s2 = s2
    NoPod = NoPod
    NoSession = NoSession
    Pods = {1, 2}
    Sessions = {s1, s2}
    Claims = {c1}
    SessionOf <- MCSessionOf
    EnvToken <- MCNoEnvToken
    Faulty = {}
    WriteFaults = TRUE
    Sizes = {0, 1}
    Hashes = {0, 1}
    MaxEdits = 1
    MaxLag = 1
    MaxVersion = 2
PROPERTIES PoolDeleteSparesSessions SyncedPassNeverOvershoots
INVARIANTS TypeOK
CHECK_DEADLOCK FALSE
