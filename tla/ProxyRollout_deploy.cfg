SPECIFICATION FairSpec
CONSTANTS
    p1 = p1  p2 = p2
    PodSlots = {p1, p2}
    Hosts = {"w"}
    Kubes <- MCKubes
    Invalid = Invalid
    Absent = Absent
    MaxEdits = 2
    Settings <- MCLateDeployment
INVARIANTS ServiceIsKept
PROPERTIES ProxyFollowsInputs
