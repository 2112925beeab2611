SPECIFICATION FairSpec
CONSTANTS
    k1 = k1  k2 = k2  k3 = k3
    Conns = {k1, k2, k3}
INVARIANTS NoTunnelLeft WakeupIsPending
PROPERTIES ServeReturns
CHECK_DEADLOCK FALSE
