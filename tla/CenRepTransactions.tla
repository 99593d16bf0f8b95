-------------------------- MODULE CenRepTransactions --------------------------
(***************************************************************************)
(* One repository (keyspace) of the Central Repository server: the          *)
(* sessions connected to it, their transactions, the settings in memory,    *)
(* the persists file, and the notification requests waiting on keys.        *)
(*                                                                          *)
(* The server runs one active scheduler, so a request handler runs to       *)
(* completion: every action below is one whole request, with the            *)
(* CObservable::AccessL that precedes it and the commit, the failing of     *)
(* other transactions and the notifications that end it.                    *)
(*                                                                          *)
(* Modelled build: neither SYMBIAN_CENTREP_SUPPORT_MULTIROFS nor            *)
(* SYMBIAN_INCLUDE_APP_CENTRIC.  The keyspace has a ROM file and no file    *)
(* in the install directory.                                                *)
(***************************************************************************)
EXTENDS Integers, FiniteSets

CONSTANTS
    Session,     \* client subsessions (CServerSubSession and its CServerRepository)
    Key,         \* setting keys, 32-bit numbers; arrays are sorted by them
    Value,       \* setting values
    TypeOf,      \* TypeOf[v]: int, real or string
    Rom,         \* Rom[k]: the value in the ROM file, or Absent
    BackupKey,   \* keys whose single, range or default metadata has KMetaBackup
    Denied,      \* pairs <<s, k>>: s fails the write policy of k
    Filter,      \* what can be watched: the key sets of partial key and mask
    KeyRange,    \* what can be deleted as a range: likewise
    Moves,       \* what can be moved: injections from a key range to another
    BurState,    \* backup states the run lets the server go through
    FaultKind,   \* which failures the environment may inject
    MaxFaults,   \* bound on the number of injected failures
    Absent,      \* no such entry in a settings array
    Deleted      \* the EDeleted type of a transaction setting

Mode == {"EReadTransaction", "EConcurrentReadWriteTransaction", "EReadWriteTransaction"}

ASSUME KeyAssumption == Key \subseteq Nat /\ IsFiniteSet(Key)
ASSUME SessionAssumption == IsFiniteSet(Session)
ASSUME ValueAssumption ==
    /\ Absent \notin Value /\ Deleted \notin Value /\ Absent # Deleted
    /\ Absent \notin [val : Value \cup {Deleted}, clean : BOOLEAN, backup : BOOLEAN]
ASSUME RomAssumption == Rom \in [Key -> Value \cup {Absent}]
ASSUME PolicyAssumption == BackupKey \subseteq Key /\ Denied \subseteq Session \X Key
ASSUME FilterAssumption == Filter \subseteq SUBSET Key /\ KeyRange \subseteq SUBSET Key
ASSUME MovesAssumption ==
    \A m \in Moves : /\ DOMAIN m \subseteq Key
                     /\ \A k \in DOMAIN m : m[k] \in Key \ DOMAIN m
                     /\ \A j, k \in DOMAIN m : m[j] = m[k] => j = k
ASSUME BurAssumption ==
    BurState \subseteq {"ENoBackupActivty", "EBackupInProgress", "ERestoreInProgress"}
ASSUME FaultAssumption ==
    FaultKind \subseteq {"persist", "load", "read", "memory"} /\ MaxFaults \in Nat

VARIABLES
    connected,      \* sessions observing the repository (CObservable::iObservers)
    mode,           \* TransactionMode() of each session's CRepositoryTransactor
    failed,         \* sessions whose transaction has EFailedBit
    pending,        \* iTransactionSettings of each session
    infoPresent,    \* does CObservable::iRepositoryInfo hold the repository's entry
    lockCount,      \* iPessimisticTransactionLockCount
    numConcurrent,  \* iNumActiveConcurrentReadWriteTransactions
    transactors,    \* iTransactors
    mem,            \* the CSharedRepository in iOpenRepositories
    file,           \* what the repository's files hold: persists, else ROM
    requests,       \* notification requests of each session's CSessionNotifier
    bur,            \* CRepositoryBackupClient::iBackupStatus
    faults          \* number of injected failures so far

txnVars  == <<mode, failed, pending, lockCount, numConcurrent, transactors>>
vars == <<connected, mode, failed, pending, infoPresent, lockCount,
          numConcurrent, transactors, mem, file, requests, bur, faults>>

-----------------------------------------------------------------------------
(* Settings arrays *)

\* A TServerSetting: its value (or the deleted type) and two bits of its
\* metadata, KMetaDefaultValue (clean) and KMetaBackup.
Entry == [val : Value \cup {Deleted}, clean : BOOLEAN, backup : BOOLEAN]

\* An RSettingsArray, as a function of the key: that of a transaction, which
\* may hold deleted entries, and that of a repository, which does not.
SettingsArray == [Key -> Entry \cup {Absent}]
StoredEntry == [val : Value, clean : BOOLEAN, backup : BOOLEAN]
StoredArray == [Key -> StoredEntry \cup {Absent}]

\* A CSharedRepository, and the files of a repository.
Memory == [open : BOOLEAN, settings : StoredArray, deleted : SUBSET Key,
           inconsistent : BOOLEAN, isDefault : BOOLEAN]
File == [exists : BOOLEAN, settings : StoredArray, deleted : SUBSET Key]

EmptyArray == [k \in Key |-> Absent]

WithClean(a, c) == [k \in Key |-> IF a[k] = Absent THEN Absent ELSE [a[k] EXCEPT !.clean = c]]

\* The settings of the ROM file, loaded as defaults.
RomEntry(k) == [val |-> Rom[k], clean |-> TRUE, backup |-> k \in BackupKey]
RomArray == [k \in Key |-> IF Rom[k] = Absent THEN Absent ELSE RomEntry(k)]

\* TServerSetting::operator== compares type and value only, never the metadata.
SameValue(e, f) == e # Absent /\ f # Absent /\ e.val = f.val

\* The state of the files when there is no persists file: a load finds the ROM file.
NoFile == [exists |-> FALSE, settings |-> RomArray, deleted |-> {}]

\* No CSharedRepository object for the keyspace.
Closed == [open |-> FALSE, settings |-> EmptyArray, deleted |-> {},
           inconsistent |-> FALSE, isDefault |-> FALSE]

\* What the repository durably holds, as values.
ValueIn(a, k) == IF a[k] = Absent THEN Absent ELSE a[k].val
Content == [k \in Key |-> ValueIn(file.settings, k)]

-----------------------------------------------------------------------------
(* Transaction state *)

InTransaction(s) == mode[s] # "ENoTransaction"
Active(s) == InTransaction(s) /\ s \notin failed
ActiveIn(m) == {s \in Session : mode[s] = m /\ s \notin failed}

\* Mutant: a failed transaction gives back its lock a second time.
LockReleasedTwice(S) ==
    IF \E s \in S : mode[s] = "EReadWriteTransaction" THEN 0
    ELSE lockCount - Cardinality({s \in S : mode[s] = "EReadTransaction"})

\* CObservable::ReleaseTransactionLock applied to every transactor of S.
LockWithout(S) ==
    IF S \cap ActiveIn("EReadWriteTransaction") # {} THEN 0
    ELSE lockCount - Cardinality(S \cap ActiveIn("EReadTransaction"))
ConcurrentWithout(S) ==
    numConcurrent - Cardinality(S \cap ActiveIn("EConcurrentReadWriteTransaction"))

\* Mutant: SetFailed does not clear the transaction settings.
EndKeepingSettings(S, D) ==
    /\ mode' = [s \in Session |-> IF s \in D THEN "ENoTransaction" ELSE mode[s]]
    /\ failed' = (failed \cup S) \ D
    /\ pending' = [s \in Session |-> IF s \in D THEN EmptyArray ELSE pending[s]]
    /\ lockCount' = LockWithout(S \cup D)
    /\ numConcurrent' = ConcurrentWithout(S \cup D)
    /\ transactors' = transactors \ D

\* The transactions of S become failed and those of D are over: both give
\* back their locks and lose their settings; D also leaves the queue.
EndTransactions(S, D) ==
    /\ mode' = [s \in Session |-> IF s \in D THEN "ENoTransaction" ELSE mode[s]]
    /\ failed' = (failed \cup S) \ D
    /\ pending' = [s \in Session |-> IF s \in S \cup D THEN EmptyArray ELSE pending[s]]
    /\ lockCount' = LockWithout(S \cup D)
    /\ numConcurrent' = ConcurrentWithout(S \cup D)
    /\ transactors' = transactors \ D

\* Mutant: optimistic transactions are not failed.
OthersPessimistic(s) ==
    {t \in transactors : Active(t) /\ mode[t] # "EConcurrentReadWriteTransaction"} \ {s}

\* What FailAllTransactions(s) fails: the active transactions in the queue.
Others(s) == {t \in transactors : Active(t)} \ {s}

-----------------------------------------------------------------------------
(* Loading, restoring and persisting the repository *)

\* Mutant: every load marks the settings as defaults.
AccessedAsDefault ==
    IF ~mem.open
    THEN [open |-> TRUE, settings |-> WithClean(file.settings, TRUE), deleted |-> file.deleted,
          inconsistent |-> FALSE, isDefault |-> TRUE]
    ELSE mem

\* Mutant: a repository whose restore is due is used as it is.
AccessedWithoutRestore ==
    IF ~mem.open
    THEN [open |-> TRUE, settings |-> file.settings, deleted |-> file.deleted,
          inconsistent |-> FALSE, isDefault |-> ~file.exists]
    ELSE [mem EXCEPT !.inconsistent = FALSE]

\* CObservable::AccessL: the repository as the request finds it once it is
\* loaded (not in memory) or restored (iInconsistentData).  A restore keeps
\* the iDeletedSettings and the iIsDefault flag of the object it refills.
Accessed ==
    IF ~mem.open
    THEN [open |-> TRUE, settings |-> file.settings, deleted |-> file.deleted,
          inconsistent |-> FALSE, isDefault |-> ~file.exists]
    ELSE IF mem.inconsistent
    THEN [mem EXCEPT !.settings = IF mem.isDefault \/ ~file.exists
                                  THEN WithClean(file.settings, mem.isDefault)
                                  ELSE file.settings,
                     !.deleted = mem.deleted \cup file.deleted,
                     !.inconsistent = FALSE]
    ELSE mem

\* A key of the file's deleted list is already in iDeletedSettings: the insert
\* leaves KErrAlreadyExists in the middle of the restore.
DuplicateDeleted == IF mem.open /\ mem.inconsistent THEN mem.deleted \cap file.deleted ELSE {}

AccessOK == DuplicateDeleted = {}

Fault(kind) == kind \in FaultKind /\ faults < MaxFaults /\ faults' = faults + 1

\* What InternalizeCreL may have inserted into iDeletedSettings when it leaves:
\* the deleted keys before some key of the file, or none.
ReadKeys == {{}} \cup {{k \in file.deleted : k < d} : d \in file.deleted}

\* The object of a restore that leaves after the deleted keys of D.  Its
\* settings are dropped again by the next access.
PartlyRead(D) == [mem EXCEPT !.settings = EmptyArray, !.deleted = mem.deleted \cup D]

\* AccessL leaves, from a load (not in memory) or a restore (iInconsistentData).
\* Out of memory ("load", or any error with only the ROM file) leaves the files
\* alone.  After any other error in the persists file ("read", and the duplicate
\* of a restore) CreateRepositoryFromCreFileL takes it for corrupt and deletes
\* it; a load leaves then only if the ROM file cannot be loaded either.
AccessFails ==
    \/ /\ ~mem.open
       /\ UNCHANGED mem
       /\ \/ Fault("load") /\ UNCHANGED file
          \/ file.exists /\ Fault("read") /\ file' = NoFile
    \/ /\ mem.open /\ mem.inconsistent
       /\ \E D \in ReadKeys : D \cap mem.deleted = {} /\ mem' = PartlyRead(D)
       /\ \/ Fault("load") /\ UNCHANGED file
          \/ file.exists /\ Fault("read") /\ file' = NoFile
    \/ /\ ~AccessOK
       /\ mem' = PartlyRead({k \in file.deleted : \A d \in DuplicateDeleted : k < d})
       /\ file' = NoFile
       /\ UNCHANGED faults

\* CSharedRepository::Notify for every key of K: complete and drop the
\* requests that match.
Notify(K) == requests' = [s \in Session |-> {f \in requests[s] : f \cap K = {}}]

\* CSharedRepository::CommitChanges on the memory m.  On failure the file
\* keeps its content and the settings in memory are dropped.
CommitChanges(m) ==
    \/ /\ file' = [exists |-> TRUE, settings |-> m.settings, deleted |-> m.deleted]
       /\ mem' = [m EXCEPT !.inconsistent = FALSE]
       /\ UNCHANGED faults
    \/ /\ Fault("persist")
       /\ mem' = [m EXCEPT !.settings = EmptyArray, !.inconsistent = TRUE]
       /\ UNCHANGED file

\* Mutant: nobody is notified.
CommitSilently(m, K) == CommitChanges(m) /\ UNCHANGED requests

\* Persist m and, only if that worked, notify about K.
CommitAndNotify(m, K) ==
    /\ CommitChanges(m)
    /\ IF mem'.inconsistent THEN UNCHANGED requests ELSE Notify(K)

\* A request that does nothing but access the repository.
Touch == mem' = Accessed /\ UNCHANGED <<file, requests, faults>>

-----------------------------------------------------------------------------
(* Committing transaction settings *)

\* Mutant: writing the value that is there counts as a change.
ChangedByAnyWrite(m, p) ==
    {k \in Key : p[k] # Absent /\ (p[k].val = Deleted => m.settings[k] # Absent)}

\* RSettingsArray::MergeTransaction: the keys of p that change m.
Changed(m, p) ==
    {k \in Key : /\ p[k] # Absent
                 /\ IF p[k].val = Deleted THEN m.settings[k] # Absent
                    ELSE ~SameValue(m.settings[k], p[k])}

\* Mutant: placeholders of deleted settings are merged like values.
MergedWithPlaceholders(m, p) ==
    [k \in Key |-> IF k \in Changed(m, p) THEN p[k] ELSE m.settings[k]]

\* Mutant: only the last of the changed settings is merged.
MergedLastOnly(m, p) ==
    [k \in Key |-> IF k \in Changed(m, p) /\ \A j \in Changed(m, p) : j <= k
                   THEN IF p[k].val = Deleted THEN Absent ELSE p[k]
                   ELSE m.settings[k]]

MergedSettings(m, p) ==
    [k \in Key |-> IF k \notin Changed(m, p) THEN m.settings[k]
                   ELSE IF p[k].val = Deleted THEN Absent ELSE p[k]]

\* Mutant: deletions are not recorded.
MergedUnrecorded(m, p, K) ==
    m.deleted \ {k \in Changed(m, p) \cap K : p[k].val # Deleted /\ m.settings[k] = Absent}

\* Mutant: created settings stay in the deleted list.
MergedStillDeleted(m, p, K) ==
    m.deleted \cup {k \in Changed(m, p) \cap K : p[k].val = Deleted /\ m.settings[k].backup}

\* The deleted list once the keys of K have been merged: created keys leave
\* it, deleted settings marked for backup enter it.
MergedDeleted(m, p, K) ==
    LET done == Changed(m, p) \cap K IN
    (m.deleted \ {k \in done : p[k].val # Deleted /\ m.settings[k] = Absent})
        \cup {k \in done : p[k].val = Deleted /\ m.settings[k].backup}

\* Keys whose deletion finds them in the deleted list already.
MergeClash(m, p) ==
    {k \in Changed(m, p) \cap m.deleted : p[k].val = Deleted /\ m.settings[k].backup}

\* CSharedRepository::DoCommitTransactionSettings.  The merge runs from the
\* highest key down and stops at the first error, after which the memory is
\* dropped and other transactions go on; D are the transactions that end.
DoCommitTransactionSettings(s, D, p) ==
    LET m == Accessed IN
    \/ /\ Changed(m, p) = {}
       /\ EndTransactions({}, D)
       /\ Touch
    \/ /\ Changed(m, p) # {} /\ MergeClash(m, p) = {}
       /\ EndTransactions(Others(s), D)
       /\ CommitAndNotify([m EXCEPT !.settings = MergedSettings(m, p),
                                    !.deleted = MergedDeleted(m, p, Key)],
                          Changed(m, p))
    \/ /\ Changed(m, p) # {}
       /\ EndTransactions({}, D)
       /\ \E stop \in Changed(m, p) :
             /\ \A k \in MergeClash(m, p) : k <= stop
             /\ mem' = [m EXCEPT
                   !.settings = EmptyArray,
                   !.deleted = MergedDeleted(m, p, {k \in Key : k > stop}),
                   !.inconsistent = TRUE]
             /\ IF stop \in MergeClash(m, p) THEN UNCHANGED faults ELSE Fault("memory")
       /\ UNCHANGED <<file, requests>>

-----------------------------------------------------------------------------
(* Operations on the transaction settings p, over the memory m            *)
(* (MOperationLogic).  Each gives the new transaction settings.           *)

\* CServerRepository::GetSetting: the transaction's entry hides the persistent one.
GetSetting(m, p, k) == IF p[k] # Absent THEN p[k] ELSE m.settings[k]

Exists(m, p, k) == LET e == GetSetting(m, p, k) IN e # Absent /\ e.val # Deleted

\* SetSettingL and CreateSettingL: a new value for k.  A deleted entry of the
\* transaction is given the value and keeps its metadata as it is, the default
\* bit included; otherwise the metadata is the setting's without that bit, or
\* that of the key (GetSingleMeta) when there is no setting.
PutSetting(m, p, k, v) ==
    [p EXCEPT ![k] =
        LET e == GetSetting(m, p, k) IN
        [val |-> v,
         clean |-> e # Absent /\ e.val = Deleted /\ e.clean,
         backup |-> IF e = Absent THEN k \in BackupKey ELSE e.backup]]

\* The placeholder that DeleteSettingL leaves, with the setting's metadata.
Placeholder(e) == [e EXCEPT !.val = Deleted]

DeleteSetting(m, p, k) ==
    IF Exists(m, p, k) THEN [p EXCEPT ![k] = Placeholder(GetSetting(m, p, k))] ELSE p

\* DeleteSettingsRangeL walks pointers to the settings found, in key order.
\* Inserting a placeholder for a persistent setting shifts the transaction's
\* array under the pointers into it, so a later pointer designates the entry
\* that now has the position the setting had before.
Inserted(m, p, K) == {k \in K : p[k] = Absent /\ m.settings[k] # Absent}
Designated(m, p, K, k) ==
    LET entries == {j \in Key : p[j] # Absent}
        shifted == entries \cup {j \in Inserted(m, p, K) : j < k}
    IN {j \in shifted : Cardinality({i \in shifted : i < j}) = Cardinality({i \in entries : i < k})}
Own(p, K) == {k \in K : p[k] # Absent /\ p[k].val # Deleted}
DeleteSettingsRange(m, p, K) ==
    LET hit == Inserted(m, p, K) \cup UNION {Designated(m, p, K, k) : k \in Own(p, K)}
    IN [k \in Key |-> IF k \in hit THEN Placeholder(GetSetting(m, p, k)) ELSE p[k]]

\* An insertion may also move the array elsewhere.  A later pointer then reads
\* the freed copy, takes its setting for a persistent one, and the insertion
\* of a second placeholder leaves with KErrAlreadyExists.
RangeMayFail(m, p, K) == \E k \in Own(p, K), j \in Inserted(m, p, K) : j < k

\* MoveL works on copies of the source settings without the default bit.  A
\* target deleted in the transaction takes the metadata of the source, a new
\* one that of its key; a source that has no entry yet gets a placeholder
\* with no metadata.
Sources(m, p, mv) == {k \in DOMAIN mv : Exists(m, p, k)}
MovedTo(m, p, mv, j) ==
    LET k == mv[j] IN
    [val |-> GetSetting(m, p, j).val, clean |-> FALSE,
     backup |-> IF p[k] = Absent THEN k \in BackupKey ELSE GetSetting(m, p, j).backup]
MoveSettings(m, p, mv) ==
    LET src == Sources(m, p, mv) IN
    [k \in Key |->
        IF k \in src
        THEN IF p[k] = Absent THEN [val |-> Deleted, clean |-> FALSE, backup |-> FALSE]
             ELSE Placeholder(p[k])
        ELSE IF \E j \in src : mv[j] = k
        THEN MovedTo(m, p, mv, CHOOSE j \in src : mv[j] = k)
        ELSE p[k]]

-----------------------------------------------------------------------------
(* Connecting *)

Init ==
    /\ connected = {} /\ infoPresent = FALSE /\ lockCount = 0 /\ numConcurrent = 0
    /\ mode = [s \in Session |-> "ENoTransaction"]
    /\ failed = {} /\ transactors = {}
    /\ pending = [s \in Session |-> EmptyArray]
    /\ mem = Closed /\ file = NoFile
    /\ requests = [s \in Session |-> {}]
    /\ bur = "ENoBackupActivty"
    /\ faults = 0

\* s observes the repository.  The shared transaction information is added if
\* it is not there yet.
Connect(s) ==
    /\ connected' = connected \cup {s}
    /\ infoPresent' = TRUE
    /\ lockCount' = IF infoPresent THEN lockCount ELSE 0
    /\ numConcurrent' = IF infoPresent THEN numConcurrent ELSE 0
    /\ transactors' = IF infoPresent THEN transactors ELSE {}
    /\ UNCHANGED <<mode, failed, pending>>

\* CServerRepository::OpenL for a client or for a backup.
OpenL(s) == s \notin connected /\ AccessOK /\ Connect(s) /\ Touch /\ UNCHANGED bur

\* A load that succeeds after all: an error in the persists file deletes it and
\* the ROM file is loaded instead, with what was read of the deleted list left
\* in the object.  Nobody's transaction is failed and nobody is told.  s opens
\* the repository, or is connected and only accesses it; any other request that
\* loads is this step and then the request.
LoadFallsBack(s) ==
    /\ ~mem.open /\ file.exists
    /\ Fault("read")
    /\ file' = NoFile
    /\ \E D \in ReadKeys :
          mem' = [open |-> TRUE, settings |-> RomArray, deleted |-> D,
                  inconsistent |-> FALSE, isDefault |-> TRUE]
    /\ IF s \in connected THEN UNCHANGED <<connected, infoPresent, txnVars>> ELSE Connect(s)
    /\ UNCHANGED <<requests, bur>>

\* OpenL leaves while some of Users are connected: it removes the shared
\* transaction information, which they may be using.
OpenFails(Users) ==
    /\ connected \subseteq Users
    /\ Session # connected \/ bur = "EBackupInProgress"
    /\ AccessFails
    /\ infoPresent' = FALSE
    /\ UNCHANGED <<connected, txnVars, requests, bur>>

\* CServerRepository::Close, and the destruction of the session's notifier.
\* The last one to leave makes the repository idle, or deletes it when the
\* cache is disabled or has no room for it.
Close(s) ==
    /\ s \in connected
    /\ InTransaction(s) => infoPresent
    /\ EndTransactions({}, {s})
    /\ connected' = connected \ {s}
    /\ infoPresent' = (infoPresent /\ connected' # {})
    /\ requests' = [requests EXCEPT ![s] = {}]
    /\ \/ mem' = mem /\ (connected' = {} => bur = "ENoBackupActivty")
       \/ mem' = Closed /\ connected' = {}
    /\ UNCHANGED <<file, bur, faults>>

\* A request of s reaches its handler.
Request(s) ==
    /\ s \in connected
    /\ AccessOK
    /\ UNCHANGED <<connected, infoPresent, bur>>

\* A request leaves: the repository could not be accessed, or there was no
\* memory for the operation.  ServiceError fails the transaction.
RequestFails(s) ==
    /\ s \in connected /\ infoPresent
    /\ \/ AccessFails
       \/ AccessOK /\ Fault("memory") /\ mem' = Accessed /\ UNCHANGED file
    /\ EndTransactions({s} \ {t \in Session : ~Active(t)}, {})
    /\ UNCHANGED <<connected, infoPresent, requests, bur>>

-----------------------------------------------------------------------------
(* Transaction requests *)

\* Mutant: a reader may start next to the exclusive transaction.
MayStartAlways(md) == md = "EReadWriteTransaction" => lockCount = 0

\* Can a transaction be started: pessimistic ones wait for nobody, they are refused.
MayStart(md) ==
    CASE md = "EConcurrentReadWriteTransaction" -> TRUE
      [] md = "EReadTransaction" -> lockCount >= 0
      [] md = "EReadWriteTransaction" -> lockCount = 0

\* CSharedRepository::StartTransaction
StartTransaction(s, md) ==
    /\ mode' = [mode EXCEPT ![s] = md]
    /\ transactors' = transactors \cup {s}
    /\ lockCount' = CASE md = "EReadTransaction" -> lockCount + 1
                      [] md = "EReadWriteTransaction" -> -1
                      [] OTHER -> lockCount
    /\ numConcurrent' = IF md = "EConcurrentReadWriteTransaction"
                        THEN numConcurrent + 1 ELSE numConcurrent
    /\ pending' = [pending EXCEPT ![s] = EmptyArray]
    /\ UNCHANGED failed

\* Starting a second transaction panics the client.
TransactionStart(s, md) ==
    /\ Request(s) /\ infoPresent
    /\ ~InTransaction(s)
    /\ Touch
    /\ IF MayStart(md) THEN StartTransaction(s, md) ELSE UNCHANGED txnVars

\* Committing without a transaction panics the client.  A failed transaction,
\* or one without changes, only ends.
TransactionCommitL(s) ==
    /\ Request(s) /\ infoPresent
    /\ InTransaction(s)
    /\ DoCommitTransactionSettings(s, {s}, pending[s])

TransactionCancel(s) ==
    /\ Request(s) /\ infoPresent
    /\ EndTransactions({}, {s})
    /\ Touch

\* CSharedRepository::FailTransaction; only an active transaction can be failed.
FailTransaction(s) == EndTransactions({s} \ {t \in Session : ~Active(t)}, {}) /\ Touch

TransactionFail(s) == Request(s) /\ infoPresent /\ FailTransaction(s)

-----------------------------------------------------------------------------
(* Write requests *)

\* AttemptPromoteTransactionToReadWrite: a read transaction that is alone
\* becomes the exclusive one.
Promotable(s) == Active(s) /\ mode[s] = "EReadTransaction" /\ lockCount = 1

\* The operation succeeded with the transaction settings p: promote the
\* transaction if need be.
KeepSettings(s, p) ==
    /\ mode' = [mode EXCEPT ![s] = IF Promotable(s) THEN "EReadWriteTransaction" ELSE mode[s]]
    /\ lockCount' = IF Promotable(s) THEN -1 ELSE lockCount
    /\ pending' = [pending EXCEPT ![s] = p]
    /\ UNCHANGED <<failed, numConcurrent, transactors>>

\* CServerSubSession::WriteOperationsL around an operation that succeeds (ok)
\* with transaction settings p.  Outside a transaction the operation runs in
\* a temporary concurrent one, committed at once.  (An operation that fails
\* may have promoted its transaction before; the mode of a failed transaction
\* has no effect.)
WriteOperationsL(s, ok, p) ==
    /\ Request(s) /\ infoPresent
    /\ \/ /\ s \in failed \/ (~InTransaction(s) /\ (bur # "ENoBackupActivty" \/ ~ok))
          /\ Touch
          /\ UNCHANGED txnVars
       \/ /\ ~InTransaction(s) /\ bur = "ENoBackupActivty" /\ ok
          /\ DoCommitTransactionSettings(s, {}, p)
       \/ /\ Active(s)
          /\ IF bur = "ENoBackupActivty" /\ ok /\ (mode[s] = "EReadTransaction" => Promotable(s))
             THEN KeepSettings(s, p) /\ Touch
             ELSE FailTransaction(s)

SetL(s, k, v) ==
    LET old == GetSetting(Accessed, pending[s], k) IN
    WriteOperationsL(s,
        /\ <<s, k>> \notin Denied
        /\ Exists(Accessed, pending[s], k) => TypeOf[old.val] = TypeOf[v],
        PutSetting(Accessed, pending[s], k, v))

CreateL(s, k, v) ==
    WriteOperationsL(s,
        <<s, k>> \notin Denied /\ ~Exists(Accessed, pending[s], k),
        PutSetting(Accessed, pending[s], k, v))

\* Deleting what does not exist is KErrNotFound, which fails nothing.
DeleteL(s, k) ==
    WriteOperationsL(s, <<s, k>> \notin Denied, DeleteSetting(Accessed, pending[s], k))

DeleteRangeL(s, K) ==
    LET m == Accessed
        p == pending[s]
        found == {k \in K : Exists(m, p, k)}
    IN \/ WriteOperationsL(s, \A k \in found : <<s, k>> \notin Denied, DeleteSettingsRange(m, p, K))
       \/ RangeMayFail(m, p, K) /\ WriteOperationsL(s, FALSE, p)

MoveL(s, mv) ==
    LET m == Accessed
        p == pending[s]
    IN WriteOperationsL(s,
           \A k \in Sources(m, p, mv) :
               /\ <<s, k>> \notin Denied /\ <<s, mv[k]>> \notin Denied
               /\ ~Exists(m, p, mv[k]),
           MoveSettings(m, p, mv))

\* CServerSubSession::ReadOperationsL around any read.
ReadOperationsL(s) ==
    /\ Request(s) /\ infoPresent
    /\ IF InTransaction(s) /\ bur = "ERestoreInProgress"
       THEN FailTransaction(s)
       ELSE Touch /\ UNCHANGED txnVars

-----------------------------------------------------------------------------
(* Reset requests *)

\* CServerSubSession::ResetOperationsL around a reset.
ResetRefused(s) ==
    IF InTransaction(s) THEN FailTransaction(s)
    ELSE bur # "ENoBackupActivty" /\ Touch /\ UNCHANGED txnVars

\* Reset one setting to its ROM value; without one the setting is deleted.
\* Every active transaction is failed when that changes the setting.
ResetL(s, k) ==
    LET m == Accessed
        now == m.settings[k]
        default == RomArray[k]
        same == (default # Absent /\ SameValue(now, default)) \/ (default = Absent /\ now = Absent)
    IN
    /\ Request(s) /\ infoPresent
    /\ \/ ResetRefused(s)
       \/ /\ ~InTransaction(s) /\ bur = "ENoBackupActivty"
          /\ IF <<s, k>> \in Denied \/ (now # Absent /\ now.clean) \/ same
             THEN Touch /\ UNCHANGED txnVars
             ELSE /\ EndTransactions(Others(s), {})
                  /\ CommitAndNotify(
                        [m EXCEPT !.settings[k] = default,
                                  !.deleted = IF now = Absent THEN m.deleted \ {k} ELSE m.deleted],
                        {k})

\* Reset the whole repository.  All transactions are failed first; the
\* changes are notified before they are persisted; and the reset may stop
\* before (load) or after (memory) the notifications.
ResetAllL(s) ==
    LET m == Accessed
        differ == {k \in Key : m.settings[k] # RomArray[k] /\ ~SameValue(m.settings[k], RomArray[k])}
    IN
    /\ Request(s) /\ infoPresent
    /\ \/ ResetRefused(s)
       \/ /\ ~InTransaction(s) /\ bur = "ENoBackupActivty"
          /\ EndTransactions(Others(s), {})
          /\ \/ Fault("load") /\ mem' = m /\ UNCHANGED <<file, requests>>
             \/ /\ Notify(differ)
                /\ \/ CommitChanges([m EXCEPT !.settings = RomArray, !.deleted = {}])
                   \/ /\ Fault("memory")
                      /\ mem' = [m EXCEPT !.settings = EmptyArray, !.inconsistent = TRUE]
                      /\ UNCHANGED file

-----------------------------------------------------------------------------
(* Notification requests *)

\* A second request for a key is refused, a second one for a group is
\* completed together with the first.
NotifyRequest(s, f) ==
    /\ Request(s)
    /\ requests' = [requests EXCEPT ![s] = @ \cup {f}]
    /\ mem' = Accessed
    /\ UNCHANGED <<txnVars, file, faults>>

NotifyCancel(s, f) ==
    /\ Request(s)
    /\ requests' = [requests EXCEPT ![s] = @ \ {f}]
    /\ mem' = Accessed
    /\ UNCHANGED <<txnVars, file, faults>>

NotifyCancelAll(s) ==
    /\ Request(s)
    /\ requests' = [requests EXCEPT ![s] = {}]
    /\ mem' = Accessed
    /\ UNCHANGED <<txnVars, file, faults>>

-----------------------------------------------------------------------------
(* The server's own steps *)

\* The cache manager unloads the repository: its timer ran out, another one
\* needed the room, or the cache was flushed.  Clients may be connected and
\* in transactions.
Evict ==
    /\ mem.open /\ bur = "ENoBackupActivty"
    /\ mem' = Closed
    /\ UNCHANGED <<connected, infoPresent, txnVars, file, requests, bur, faults>>

\* CRepositoryBackupClient::TestBURstatusL.  Leaving the normal state disables
\* the cache, which unloads repositories nobody is connected to.
TestBURstatusL(b) ==
    /\ b # bur
    /\ bur' = b
    /\ mem' = IF bur = "ENoBackupActivty" /\ connected = {} THEN Closed ELSE mem
    /\ UNCHANGED <<connected, infoPresent, txnVars, file, requests, faults>>

\* InitialiseGetProxyBackupDataL: the backup opens the repository, fails all
\* transactions, stores the settings and closes it again.
InitialiseGetProxyBackupDataL ==
    /\ bur = "EBackupInProgress" /\ AccessOK
    /\ IF infoPresent THEN EndTransactions({t \in transactors : Active(t)}, {})
       ELSE /\ lockCount' = 0 /\ numConcurrent' = 0 /\ transactors' = {}
            /\ UNCHANGED <<mode, failed, pending>>
    /\ infoPresent' = (connected # {})
    /\ mem' = IF connected = {} THEN Closed ELSE Accessed
    /\ UNCHANGED <<connected, file, requests, bur, faults>>

\* The server process ends and is started again: only the files survive.
Restart ==
    /\ connected' = {} /\ infoPresent' = FALSE
    /\ EndTransactions({}, Session)
    /\ mem' = Closed
    /\ requests' = [s \in Session |-> {}]
    /\ bur' = "ENoBackupActivty"
    /\ UNCHANGED <<file, faults>>

Transact(s) ==
    \/ \E md \in Mode : TransactionStart(s, md)
    \/ TransactionCommitL(s) \/ TransactionCancel(s) \/ TransactionFail(s)

Write(s) ==
    \/ \E k \in Key, v \in Value : SetL(s, k, v) \/ CreateL(s, k, v)
    \/ \E k \in Key : DeleteL(s, k)
    \/ \E K \in KeyRange : DeleteRangeL(s, K)
    \/ \E mv \in Moves : MoveL(s, mv)

Reset(s) == ResetAllL(s) \/ \E k \in Key : ResetL(s, k)

Watch(s) ==
    \/ \E f \in Filter : NotifyRequest(s, f) \/ NotifyCancel(s, f)
    \/ NotifyCancelAll(s)

\* Every step but an opening that fails.
Steps ==
    \/ \E s \in Session :
          OpenL(s) \/ LoadFallsBack(s) \/ Close(s) \/ RequestFails(s) \/ Transact(s)
             \/ Write(s) \/ ReadOperationsL(s) \/ Reset(s) \/ Watch(s)
    \/ \E b \in BurState : TestBURstatusL(b)
    \/ Evict \/ InitialiseGetProxyBackupDataL \/ Restart

Next == Steps \/ OpenFails(Session)

Spec == Init /\ [][Next]_vars

\* The behaviours in which no opening fails while other clients are connected:
\* it would take away the transaction information they use.
SharedInfoSpec == Init /\ [][Steps \/ OpenFails({})]_vars

-----------------------------------------------------------------------------
(* Properties *)

TxnTypeOK ==
    /\ mode \in [Session -> Mode \cup {"ENoTransaction"}]
    /\ failed \subseteq Session /\ transactors \subseteq Session
    /\ pending \in [Session -> SettingsArray]
    /\ lockCount \in Int /\ numConcurrent \in Int

StoreTypeOK ==
    /\ mem \in Memory /\ file \in File
    /\ requests \in [Session -> SUBSET Filter]
    /\ faults \in 0 .. MaxFaults

\* The types of the state: in particular no entry of the deleted type gets
\* from a transaction into the repository or its file.
TypeOK ==
    /\ connected \subseteq Session /\ infoPresent \in BOOLEAN
    /\ bur \in BurState \cup {"ENoBackupActivty"}
    /\ TxnTypeOK /\ StoreTypeOK

\* Every connected client finds the shared transaction information it needs.
InfoWhileConnected == connected # {} => infoPresent

\* The transactions that exist are those in the queue of the shared
\* information, and only connected sessions have one.
QueueInv ==
    /\ infoPresent => connected # {}
    /\ transactors = {s \in Session : InTransaction(s)}
    /\ transactors \subseteq connected
    /\ failed \subseteq transactors

\* The counters the locks are made of say what is active: -1 for the
\* exclusive transaction, which excludes the pessimistic readers, otherwise
\* the number of readers.
LockCountInv ==
    /\ numConcurrent = Cardinality(ActiveIn("EConcurrentReadWriteTransaction"))
    /\ \/ /\ lockCount = -1
          /\ \E s \in Session : ActiveIn("EReadWriteTransaction") = {s}
          /\ ActiveIn("EReadTransaction") = {}
       \/ /\ lockCount = Cardinality(ActiveIn("EReadTransaction"))
          /\ ActiveIn("EReadWriteTransaction") = {}

LockInv == QueueInv /\ LockCountInv

\* Only an active read/write transaction has uncommitted settings: what a
\* session wrote in a transaction that failed, was cancelled or was committed
\* never turns up in its next one.
NoStaleSettings ==
    \A s \in Session : pending[s] # EmptyArray => Active(s) /\ mode[s] # "EReadTransaction"

\* While the exclusive transaction is active there is no reader and no second
\* exclusive one.
ExclusiveMeansAlone ==
    \A s, t \in Session :
        Active(s) /\ Active(t) /\ mode[s] = "EReadWriteTransaction" /\ s # t
            => mode[t] = "EConcurrentReadWriteTransaction"

\* Settings in memory that requests may use are those of the files, whatever
\* was evicted, reloaded, restored or left half done.
CacheCoherent ==
    mem.open /\ ~mem.inconsistent =>
        \A k \in Key : ValueIn(mem.settings, k) = Content[k]

\* The same of the metadata and the deleted list, when nothing fails.
MemoryIsFile ==
    mem.open /\ ~mem.inconsistent => mem.settings = file.settings /\ mem.deleted = file.deleted

\* A setting of the ROM marked for backup that the repository no longer has
\* is in the deleted list of the file, from which a restore learns of it.
DeletionsRecorded ==
    \A k \in BackupKey : Rom[k] # Absent /\ Content[k] = Absent => k \in file.deleted

\* A setting that exists is not in the deleted list: a restore would delete it.
DeletedAreAbsent == \A k \in file.deleted : Content[k] = Absent

\* No transaction is active when the repository's content has changed
\* (CommitChanges asserts it): all others were failed, none goes on with
\* values that are out of date.
CommitsExclude == [][Content' # Content => \A s \in Session : ~Active(s)']_vars

\* What a session sees: its own uncommitted settings over the repository.
View(s) ==
    [k \in Key |-> IF Exists(Accessed, pending[s], k)
                   THEN GetSetting(Accessed, pending[s], k).val ELSE Absent]

\* Within a transaction reads are repeatable: as long as it is active and
\* writes nothing itself, no commit, reset, eviction, reload or failed write
\* of anyone changes what it sees.
RepeatableReads ==
    [][\A s \in Session :
          Active(s) /\ Active(s)' /\ pending'[s] = pending[s] => View(s)' = View(s)]_vars

\* A client that waits on a key is told of every change of it.
ChangesNotified ==
    [][\A k \in Key : Content'[k] # Content[k] =>
          \A s \in Session : \A f \in requests'[s] : k \notin f]_vars

\* A notification says that something changed: a request is completed only
\* for a change of one of its keys, or because its client cancels or closes.
NotifiedMeansChanged ==
    [][\A s \in Session : \A f \in requests[s] \ requests'[s] :
          \/ \E k \in f : Content'[k] # Content[k]
          \/ NotifyCancel(s, f) \/ NotifyCancelAll(s) \/ s \notin connected']_vars

-----------------------------------------------------------------------------
(* What comments and tests of the repository say, and the code does not do *)

\* heaprepos.cpp: when persisting fails the repository file "will be kept as
\* it was": nothing the server does removes the persists file.
FileNeverLost == [][file.exists => file'.exists]_vars
=============================================================================
