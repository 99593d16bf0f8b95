CONSTANTS
    s1 = s1  s2 = s2  s3 = s3
    v1 = v1  v2 = v2  w1 = w1
    Absent = Absent
    Deleted = Deleted
    Untouched = Untouched
    Session <- Sessions3
    Key <- Keys1
    Value <- Values2
    TypeOf <- Types
    Rom <- Rom1
    BackupKey = {}
    Denied <- NoPairs
    Filter = {}
    KeyRange = {}
    Moves = {}
    BurState <- Restoring
    FaultKind = {"persist", "memory"}
    MaxFaults = 1
SYMMETRY Symmetry3
SPECIFICATION Spec
INVARIANTS TypeOK ExclusiveMeansAlone LockInv NoStaleSettings
PROPERTIES CommitsExclude RepeatableReads StoreRefinement
