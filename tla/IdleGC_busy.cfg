SPECIFICATION Spec
CONSTANTS
    p1 = p1
    Pods = {p1}
    Timeout = 3
    MinRequeue = 2
    Resync = 6
    PoolDelays <- MCPoolDelays
    NoTimer = NoTimer
    MaxFaults = 0
PROPERTIES BusySessionIsSpared
