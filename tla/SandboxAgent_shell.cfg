SPECIFICATION FairSpec
CONSTANTS
    x1 = x1  x2 = x2  a1 = a1  a2 = a2  t1 = t1  t2 = t2
    NoToken = NoToken
    Execs = {x1, x2}
    Assigns = {a1, a2}
    TokenOf <- MCTokenOf
    EnvToken = NoToken
    Restarts = TRUE
    SpawnFails = TRUE
PROPERTIES ResetIsReported ExecsReturn
