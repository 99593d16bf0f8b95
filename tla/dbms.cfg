SPECIFICATION Spec
CONSTANTS
    c1 = c1
    c2 = c2
    c3 = c3
    k1 = k1
    Clients = {c1, c2, c3}
    Cursors = {k1}
    Owner <- OwnerOf
    ELockListGranularity = 1
    EMaxLock = 2
    MaxReads = 2
    MaxOps = 2
    NotifyTypes <- JustChange
    Careless = {}
INVARIANTS
    LockInvariant
    LocksAreObjects
    CommittedWhole
    UnsavedIsLocked
    BusyIsConnected
    ChangesAreTold
PROPERTIES
    Isolation
SYMMETRY Handles
