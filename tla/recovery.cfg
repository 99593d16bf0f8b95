CONSTANTS
    s1 = s1  s2 = s2  s3 = s3
    v1 = v1  v2 = v2  w1 = w1
    Absent = Absent
    Deleted = Deleted
    Untouched = Untouched
    Session <- Sessions2
    Key <- Keys2
    Value <- Values1
    TypeOf <- Types
    Rom <- Rom2
    BackupKey = {1}
    Denied <- NoPairs
    Filter = {}
    KeyRange <- Ranges2
    Moves <- Moves12
    BurState <- Normal
    FaultKind = {"persist", "load", "read", "memory"}
    MaxFaults = 1
SYMMETRY Symmetry2
SPECIFICATION SharedInfoSpec
INVARIANTS CacheCoherent
PROPERTY LossyRefinement
