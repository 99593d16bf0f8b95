CONSTANTS
    s1 = s1  s2 = s2  p1 = p1  p2 = p2
    Absent = Absent
    NoData = NoData  NoFile = NoFile  Torn = Torn  Idle = Idle
    Feature = {1, 2, 3}
    Data = {0}
    KDefaultData = 0
    Session = {s1, s2}
    Rom <- Rom3
    MAXSWIOPS = 2
    Plugin <- OnePlugin
    PluginKind <- Enhanced
    PluginInfo <- Persisted3
    Requests <- SlowRequests
    LockFlags <- BackupFlags
    Restored <- Restored12
    Outcomes = {"done", "fails", "torn"}
    Installs = FALSE
    MaxChanges = 3
    MaxFaults = 0
    MaxBur = 0
    Careless = {}
SPECIFICATION Spec
PROPERTIES FileKept
