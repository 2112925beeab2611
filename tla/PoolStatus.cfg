SPECIFICATION Spec
CONSTANTS
    s1 = s1  s2 = s2  s3 = s3
    Slots = {s1, s2}
    Sizes = {0, 2}
    Deadline = 2
    Retry = 2
    Resync = 3
    NoTimer = NoTimer
INVARIANTS ShortfallIsReported
PROPERTIES RebuildWaits ClaimKeepsReady
SYMMETRY Symmetry
