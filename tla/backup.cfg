CONSTANTS
    s1 = s1  s2 = s2  s3 = s3
    v1 = v1  v2 = v2  w1 = w1
    Absent = Absent
    Deleted = Deleted
    Untouched = Untouched
    Session <- Sessions2
    Key <- Keys2
    Value <- ValuesVW
    TypeOf <- Types
    Rom <- Rom2
    BackupKey = {1}
    Denied <- Denied21
    Filter = {{1, 2}}
    KeyRange = {}
    Moves = {}
    BurState <- AllBur
    FaultKind = {}
    MaxFaults = 0
SPECIFICATION Spec
INVARIANTS DeletionsRecorded DeletedAreAbsent MemoryIsFile
PROPERTIES ChangesNotified NotifiedMeansChanged
