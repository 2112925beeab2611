SPECIFICATION Spec
CONSTANTS
    c1 = c1  c2 = c2  c3 = c3  s1 = s1  s2 = s2
    NoPod = NoPod
    NoSession = NoSession
    Pods = {1, 2}
    Sessions = {s1, s2}
    Claims = {c1}
    SessionOf <- MCSessionOf
    EnvToken <- MCNoEnvToken
    Faulty = {c1}
    MaxVersion = 1
INVARIANT RollbackRestoresPod
CHECK_DEADLOCK FALSE
