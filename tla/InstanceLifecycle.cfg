SPECIFICATION FairSpec
CONSTANTS
    i1 = i1  i2 = i2
    Instances = {i1, i2}
    NoBinding = NoBinding
    Settings <- MCSettings
INVARIANTS FreshListLeavesNoOrphans
PROPERTIES HmacIsKept DeletionFinishes SubjectGoesFirst BindingConverges
