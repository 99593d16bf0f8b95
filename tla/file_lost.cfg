CONSTANTS
    s1 = s1  s2 = s2  s3 = s3
    v1 = v1  v2 = v2  w1 = w1
    Absent = Absent
    Deleted = Deleted
    Untouched = Untouched
    Session <- Sessions1
    Key <- Keys2
    Value <- Values2
    TypeOf <- Types
    Rom <- Rom2
    BackupKey = {1}
    Denied <- NoPairs
    Filter = {}
    KeyRange = {}
    Moves = {}
    BurState <- Normal
    FaultKind = {"persist"}
    MaxFaults = 1
SPECIFICATION Spec
PROPERTIES FileNeverLost
