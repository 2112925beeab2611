SPECIFICATION Spec
CONSTANTS
    i1 = i1  i2 = i2
    Instances = {i1}
    NoBinding = NoBinding
    Settings <- MCLateServers
INVARIANTS NoOrphans
