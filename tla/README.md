# Verification of the Symbian persistent data package

The package (`src/`) holds Symbian's persistence services. This development
models the four whose own logic is concurrent, transactional or must survive
failures: the **Central Repository** server, which keeps the settings of every
component of a phone; the **permanent file store**, on which databases and
documents are built; the **transactions of DBMS**, the relational database on
that store; and the **feature manager** server, which says what the phone
supports. The models are translated from the code. Paths are relative to
`src/persistentstorage` (Central Repository files to
`src/persistentstorage/centralrepository`) unless they say otherwise. The build
modelled defines neither `SYMBIAN_CENTREP_SUPPORT_MULTIROFS` nor
`SYMBIAN_INCLUDE_APP_CENTRIC`.

## 1. Inventory

| Component | State | Operations | Correct when |
|---|---|---|---|
| **Central Repository.** Requests: `cenrepsrv/srvsess.cpp`, `srvsubsess.cpp` | one `CServerRepository` per subsession | create, set, delete, delete range, move, reset, reset all, get, find, transaction start/commit/cancel/fail, notify and cancel | a request outside a transaction is a transaction of its own; errors fail the transaction; writes stop during backup and restore |
| Transactions: `shrepos.cpp/.h`, `transstate.h` | transaction mode and failed bit, transaction settings, lock count, number of concurrent transactions, queue of transactors | start, commit, cancel, fail, fail all, promotion | locks match the active transactions, commits are all or nothing, a commit fails everybody else |
| Loading: `obsrvr_noc.cpp` | open repositories, observers, shared transaction information | `AccessL`, `AddObserverL`, `RemoveObserver`, `LoadRepositoryLC` | memory is what the files hold; shared information lives as long as a client is connected |
| Settings: `common/inc/operations.h`, `common/src/datatype.cpp`, `heaprepos.cpp` | sorted arrays of settings with metadata, list of deleted keys | create, set, delete, delete range, move, merge, commit, reset | metadata is that of the key; the deleted list names the backed-up settings that are gone |
| Notification: `sessnotf.cpp` | outstanding requests by key or by partial key and mask | add, cancel, notify | every committed change completes the requests on it, nothing else does |
| Cache manager: `cachemgr.cpp` | list of idle repositories by time, memory they use, one timer | start of eviction, forced eviction, timer, flush, enable, disable | entries are live, usage is right and bounded, what is unused is unloaded |
| Backup client: `backup.cpp`, `rstrepos.cpp` | backup state | follow the state property, fail transactions, back up, restore | no transaction spans a backup; deletions survive backup and restore |
| Install watcher, INI and CRE files, client library, notifier handler, PC tools | files, timestamps, handles | merge at install and upgrade, parse, marshal | - |
| **Permanent file store.** `store/USTOR/UT_PERM.CPP`, `UFILE/UF_PERM.CPP`, `UF_STOR.CPP`, `UF_BUF.CPP` | header, table of contents (TOC) with delta, free list, cache of offsets, queued writes | create, replace, extend, delete, read, set root, commit, revert, open | whatever fails, the file holds one commit point, and streams keep their content |
| Compaction: `UT_COLL.CPP` | snapshot of the streams, place of the next hole | begin, move a stream, move the TOC | nobody sees it, not even after a crash |
| Other streams and stores, page pool, B-tree, encryption | - | - | - |
| **DBMS.** Locks and transactions: `dbms/utable/UT_TRANS.CPP` | list of locks, kind of lock, operation going on, failed bit, count of updates | shared and exclusive locks, begin, commit, roll back | a debug invariant of the code; isolation; nothing half done is committed |
| Cursors, blobs: `UT_CURS.CPP`, `UT_BUF.CPP` | mode, changed blobs, open streams, staleness | insert, update, put, cancel, delete, read and write blobs | as above |
| Statements, schema changes, utilities: `UT_DML.CPP`, `UT_INCR.CPP`, `UT_DBS.CPP`, `ustor/US_DBS.CPP` | steps left, failure | open, next, close | a failed or abandoned one leaves no trace |
| Notifier: `sdbms/SD_SRC.CPP` | request, recorded event | notify, cancel, event | no commit is missed |
| Client side, SQL, records, schema, indexes, protocol, security | - | - | - |
| **Feature manager** (`src/featuremgmt/featuremgr/src/serverexe`). Registry: `featmgrfeatureregistry.cpp` | list of features, file `features.dat`, operations cached for the installer | add, delete, set; SWIStart, SWIEnd, commit of cached operations | what was saved survives; only accepted operations are committed |
| Server: `featmgrserver.cpp`, `featmgrsession.cpp`, `featmgrpluginhandler.cpp`, `featmgrtimer.cpp`, `burstate.cpp` | which plugins have answered, queued requests, backup state | plugin answers, timer, requests, backup and restore, start | queued requests are served; a restart finds what was saved |
| Installer listener and timer: `swilistener.cpp` | - | react to the installation state | caching ends |
| Feature registry; SQL server, SQLite; event and file loggers; trace services | - | - | - |

All four servers run one active scheduler, or are a library called by one
thread: requests, timers and callbacks are served one after the other, each to
its end, so one request is one action. What is hard is what happens between
them: several transactions open at once, each able to be failed by others;
state that is unloaded, moved or restored in the middle of an operation made of
several requests; a write that fails and leaves memory to be repaired by
whoever comes next; a crash at any write; operations given up half way; timers
and callbacks that race. `PROJECT.json` lists these hazards with their lines and
the properties that cover them.

Documents say little about these; the comments, header documentation and tests
of the code do, and where they and the code disagree it is a finding (section 6).

## 2. Modules

| Module | What it is |
|---|---|
| `CenRepTransactions` | one repository: sessions, transactions, settings in memory, file, notification, backup state, failures |
| `CenRepStore` | abstract specification: a store and transactions that take effect all at once or not at all |
| `CenRepRefinement` | the refinement mapping between the two |
| `CenRepTransactionsProofs` | theorems about `CenRepTransactions` |
| `CenRepRefinementProofs` | the proof that it implements `CenRepStore` |
| `CenRepCache` | the cache manager over several repositories |
| `CenRepCacheProofs` | theorems about `CenRepCache` |
| `PermStore` | the permanent file store: the file, the TOC, streams, commit, compaction, crashes |
| `StreamStore` | abstract specification: streams and commit points; `PermStore` holds the mapping (`Stable`, `Current`) |
| `PermStoreProofs` | theorems about `PermStore` and the proof that it implements `StreamStore` |
| `DbTransaction` | one DBMS database: handles, locks, cursors, statements, schema changes, utilities, notifier |
| `DbTransactionProofs` | theorems about `DbTransaction` |
| `FeatureRegistry` | operators: the feature list, its file, the cached operations |
| `FeatureServer` | the server around the registry: plugins, timers, requests, installer, backup, restart |
| `FeatureServerProofs` | theorems about `FeatureServer` |
| `InductionProofs` | induction up to a number, for the recursive functions of the models |
| `MCTransactions`, `MCCache`, `MCPermStore`, `MCDbTransaction`, `MCFeatureServer` | constants of the TLC instances |

### CenRepTransactions

State and code: `connected` is the observers of the repository in
`CObservable`; `mode` and `failed` are `iTransactionState`; `pending` is
`iTransactionSettings`; `infoPresent`, `lockCount`, `numConcurrent` and
`transactors` are the entry of `iRepositoryInfo`; `mem` is the
`CSharedRepository`, or no object (`mem.open`), with its settings, deleted
keys, `iInconsistentData` and the `IsDefault` flag of its array; `file` is what
the next load would find (the persists file, else the ROM file); `requests`
are the notification requests; `bur` is the backup state.

Data are abstracted thus. A settings array is a function of the key. A setting
is its value, with two bits of metadata: the default (clean) bit, which
`ResetL` trusts, and the backup bit, which the deleted list depends on. Access
policies are a relation `Denied` between sessions and keys. A partial key with
its mask is the set of keys it matches. A value has a type, which a set may not
change.

Each request is an action named after its handler, wrapped in the operator
for the group `ServiceL` puts it in: `WriteOperationsL`, `ReadOperationsL`,
`ResetRefused` (`ResetOperationsL`). All begin with `AccessL`: `Accessed` is
the repository after loading or restoring it, `AccessFails` the ways that ends
in a leave. `DoCommitTransactionSettings` merges, fails the other transactions
(`Others`), persists (`CommitChanges`) and notifies, in that order.
`EndTransactions` is the one place where locks are given back. The server's own
steps are `Evict` (the cache manager, which is free to choose here; its own
rules are in `CenRepCache`), `TestBURstatusL`, `InitialiseGetProxyBackupDataL`
and `Restart`.

Failures are injected by `Fault`, at most `MaxFaults` of them: writing the
file ("persist"), loading it for lack of memory ("load"), reading it for any
other reason ("read"), and memory ("memory") in an operation, in a merge or in
`ResetAllL`. The two failures of a load differ: `CreateRepositoryFromCreFileL`
passes `KErrNoMemory` on and takes every other error for a corrupt file, which it
deletes. A first load then tries the ROM file. `AccessFails` is the case in which
that fails too, or in which a restore was under way; `LoadFallsBack` is the case
in which it succeeds: the request goes on with the settings of the ROM, and no
transaction has failed. A client error that panics the client (starting a
second transaction) is the closing of its session.

Undefined behaviour: `DeleteSettingsRangeL` uses pointers into an array that
it inserts into. `Designated` is what such a pointer designates if the array
stays where it is, `RangeMayFail` what happens if it is moved; the model takes
either.

When the shared information is gone (`~infoPresent`) requests that need it
dereference a null pointer. The model stops such requests; section 6 says how it
comes to that.

### CenRepStore and CenRepRefinement

`CenRepStore` has no locks, cache, files or failures: `Begin`, `Update`,
`Commit`, `Change` (a write or reset outside a transaction) and `GiveUp`.
`Commit` and `Change` fail every running transaction when they change the store.
The mapping takes the content of the file as the store. That makes the file,
not memory, the truth: loads, evictions, restores, and writes that fail must all
be stuttering steps or steps in which transactions are given up.
`LossyStoreSpec` promises less, for failures to read the file: in a step `Lose`
the store falls back to its defaults, and transactions may go on. That is all
that may happen: no transaction takes effect in part. `StoreRefinement` and
`LossyRefinement` are the two under the mapping.

### CenRepCache

`idle` is `iIdleRepositories` with the time each entry has left, `timer` the
time left of the outstanding timer request. `StartEviction` is the method with
its three parts: `RemoveIdleRepository`, `ForcedEvictions` (which entries go
depends on age and size and is left open) and `Insert`. It takes a `slot`
because `RunL` passes a reference into the list. `MaxLate` bounds how long past
its time an entry is followed; `RunL` only asks whether the time is over, so a
larger number adds nothing.

### PermStore and StreamStore

The file (`disk`) is a header and a row of slots; a stream or a TOC takes one
slot, so that frames, alignment and sizes are left out while every order of
places is kept. `wq` are the writes that are queued in `RFileBuf` and below,
`view` the file as the process sees it. Writes reach the file one by one
(`Flush`), in the order they were made: the code asks for that order ("it is
strongly recommended to set EFileWriteDirectIO", comment on `RelocateStreamL`). A
crash or a failure loses those that are queued and may cut the first one short
(`CutShort`): a torn block of data or TOC, a torn backup TOC, a torn header
with its dirty flag set, a torn entry. `atomic` is what `FileQoSL` says of the
medium: then single blocks are not torn unless an entry straddles two of them
(`Straddling`).

`tab` is `CPermanentStoreToc`: `ent` are the entries in memory, `toc` and `off`
the base and the TOC that counts, `virtual` that there are changes. `coord` is
`CPermanentStoreCoord` with its TOC, relocation record, backup flag, clip flag
and the stream being written (`extend`); `cache` the cache of offsets; `coll`
the collector's streams and its next free place. `phase` is where in a commit
or a move the code stands when its writes can fail separately: `CommitToc`,
`CommitHeader`, `CommitEnd`; `CompactStream`, `PutL`; `CompactToc`, `MoveL`.

`StreamStore` has two states, `stable` and `current`, and three kinds of steps:
change one stream or the root, commit all, forget all. The mapping takes as
`stable` what the next process that opens the file would find (`ReadHeader`,
`Load`, relocation record included) and as `current` what the client can read.

### DbTransaction

`txn` is `RDbTransaction`: the kind of lock, the operation (`action`), the
failed bit, the list of locks (holder, user transaction, open reads), its
capacity, the count of updates; with it the content of the database, as the
engine works on it (`working`) and as committed (`stable`). A content is the
number of finished changes, the set of those under way (`torn`), and the blobs
that the code changes before it touches the transaction for them: those that a
cursor has copied for a row it inserts (`copied`, from `InsertL(ECopy)`), and
those whose row was never written (`stray`). The properties ask whether something
half done is committed or left over. Stray blobs are: `NextFails` and `CopyFails`
make them, a copied row that is cancelled leaves them (`LeftCopy`), no rollback
of an automatic transaction undoes them (`Revert`), and any commit takes them
along. The properties are therefore about `Touched`, and about copies while their
cursor is inserting; section 6 has the rest.
`cur` are the rowsets, `inc` the incremental object of each handle (a
statement, a schema change, a utility), `observer` the server's notifier with
the answer it gave. Each call of a client is an action that includes the
`DMLPrepareL`, `DMLBegin`, `DMLTouch`, `DMLCommitL` or `DMLRollback` it makes
in the code; calls that leave without changing state and calls that panic the
client are no steps. Failures are actions of their own (`PutFails`, `NextFails`,
`CommitFails`, `FlushFails`, ...), not bounded.

### FeatureRegistry and FeatureServer

`FeatureRegistry` has the methods of `CFeatMgrFeatureRegistry` as operators on a
record for the list, the file and `iFeaturesReady`, and on a record for the
`iSWI...` members. The file is written beside itself and replaced, so it is old
or new; only a file that is created for the first time can be found empty
(`Torn`). Three fields are history: `unsaved`, the features whose client was
told that the change was not saved, `current`, the operations cached since the
last `SWIStart`, and `promised`, those whose `SWIEnd` was accepted: an accepted
`SWIEnd` adds `current` to it, a refused one drops `current`. `FeatureServer` has the server: `srv` with the plugins
and what each was asked, `iPluginsReady`, `iPluginsDeleted`,
`iPendingRequests`, `iBURInProgress` and the backup state; `queue` with the
request each session waits for; `install`, the property the installer sets;
`swi.event`, a completed request of the listener that has not run. Each run of
an active object and each request is one action. `ServicePendingRequests` serves
the sessions in any order (`Orders`).

### What Careless leaves out

Three modules have a constant `Careless`: sequences of calls that the code
answers with behaviour its own comments exclude. They are off in the passing
runs, so that these can ask for everything else; each one is described in
section 6, and three are runs with an expected violation.

| Module | Value | Sequence |
|---|---|---|
| `PermStore` | `"abandon replace"` | a stream that was being replaced is closed without commit (run `store_replace`) |
| | `"compact dirty"` | compaction begins with uncommitted changes |
| | `"compact accessed"` | the TOC is moved while a stream is open |
| `DbTransaction` | `"abandon"` | an unfinished statement is closed within a transaction (run `dbms_abandon`) |
| | `"step"` | a statement goes on after another operation of the transaction failed |
| `FeatureServer` | `"failed start"` | memory runs out in `SWIStart` after caching was switched on |
| | `"after refusal"` | an executable starts after a `SWIEnd` was refused for lack of memory |
| | `"two executables"` | a second executable of one installation starts caching |
| | `"missed"` | the installer changes its state again before the listener ran |

## 3. Runs

Most runs take about a minute on two cores, `recovery` and `featmgr` two to three.

| Run | Instance | Checks |
|---|---|---|
| `locks` | 3 symmetric sessions, 1 key, 2 values, restores, one failing write or allocation | `TypeOK`, `ExclusiveMeansAlone`, `LockInv`, `NoStaleSettings`, `CommitsExclude`, `RepeatableReads`, `StoreRefinement` |
| `backup` | 2 sessions, 2 keys, one marked for backup and one without a ROM value, a write policy, requests on the group of both keys, all backup states | `DeletionsRecorded`, `DeletedAreAbsent`, `MemoryIsFile`, `ChangesNotified`, `NotifiedMeansChanged` |
| `recovery` | 2 symmetric sessions, 2 keys, range delete, move, one failure of writing, loading, reading or allocating (`SharedInfoSpec`) | `CacheCoherent`, `LossyRefinement` |
| `cache` | 3 repositories of which not all fit, one in transactions when the timer is served | `IdleEntriesLive`, `UsageWithinLimit`, `TimerArmed`, `UnusedIsIdle`, `UnusedIsUnloaded` |
| `store` | 2 entries, 5 slots, 3 changes, one crash or failure, both kinds of media, one straddling entry, one reader | `CacheCorrect`, `FreeListInv`, `ReaderStable`, `Trimmed`, `StoreRefinement` |
| `dbms` | 3 handles, a cursor with two blob streams, 2 changes, a lock list that grows from 1 to 2 and is full then, one notifier | `LockInvariant`, `LocksAreObjects`, `CommittedWhole`, `UnsavedIsLocked`, `BusyIsConnected`, `ChangesAreTold`, `Isolation` |
| `swi` | 2 clients, a ROM and a run-time feature, installations, 4 requests, 1 failure, 1 backup or restore, restarts | `PersistedSurvive`, `PromisedOperations`, `OnlyPromisesCommitted`, `FileKept`, `CachingEnds`, `InstallSettles` |
| `featmgr` | 2 clients, two plugins, one that answers both commands and has a feature of its own, 4 requests, 1 failure, 2 backups or restores at any time, restarts | `PersistedSurvive`, `FileKept`, `QueueServed` |
| `file_lost`, `store_replace`, `dbms_abandon`, `slow_plugin` | small, see section 6 | a violation each |

Why the bounds are enough.

*Central Repository.* Three sessions are needed for a reader, a second reader
and a writer at a time, and for one transaction failing two others; no counter
distinguishes more. Two keys are needed for a commit that could be half done,
for a range whose pointers shift, and for a move; one has a ROM value and one
has not because creation, reset and the deleted list treat them differently. One
failure followed by an arbitrary continuation shows the recovery. `MemoryIsFile`,
`DeletionsRecorded` and `DeletedAreAbsent` are checked without failures and
moves: with them the code breaks them (section 6). `RepeatableReads` and
`CommitsExclude` are checked on instances where the deleted list stays empty,
because the loss of the file in `file_lost` breaks them too. `recovery` has the
deleted list and reads that fail, with a second session that stays connected or
in a transaction while the file is lost: `LossyRefinement` says what is left of
the promise then. Its `SharedInfoSpec` leaves out one step, an opening that fails
while somebody is connected, which takes away the information everybody's
transactions rest on (section 6).

*Cache.* `r3` only fits alone, so that no other entry is idle when the timer
finds it in a transaction; with two idle entries the code breaks
`IdleEntriesLive`, which is the theorem `TimerBreaksTheList` (sections 4 and 6).

*Store.* Two entries make a TOC and a delta on top of it and a list of free
entries of length two. A delta is only written when it is smaller than the
base; `KSizeTocDeltaExtra` is 2 instead of 7 so that this happens with two
entries rather than ten. Five slots hold two streams, base, delta and a copy.
Three changes suffice to commit, change again and compact. Handles have one
generation in place of 16: generations only keep a stale handle from finding a
new stream.

*DBMS.* With three handles two can read while one waits, and the list of locks
is at its limit; a lock in the middle of the list is released. A larger
instance, with three cursors of two handles and both kinds of notification (8.3
million states), was checked once with the same result.

*Feature manager.* Two clients, since one installs and the other does not. Of
the features one is in the ROM, uninitialized and persisted, one is added at run
time, one is the plugin's. Four requests are start, operation, end and one more.
In `featmgr` the plugin that answers twice and the one that answers once bring
about every order in which a first, a second and a last answer, the timer, and
the end of a backup or restore can meet a queued request. `QueueServed` asks for
the requests queued before the first backup or restore, and for those queued
while `iPendingRequests` is set; the others the code may never serve (section 6).

Fairness is assumed in two modules. In `CenRepCache` time passes (`Tick`) and
the active scheduler serves a timer that has completed (`RunL`). In
`FeatureServer` the server's own active objects run when they are due: the
plugin timer (`TimerFired`), the timer of the caching (`SWITimerRuns`) and the
listener (`ListenerRuns`). This is what the kernel and the active scheduler give
any active object. Nothing is assumed of clients, plugins, the installer or the
backup server: `QueueServed` holds though a plugin may never answer. There is no
liveness property of `CenRepTransactions`, `PermStore` and `DbTransaction`: no
request waits for another, whoever cannot have a lock is refused.

Deadlock is checked in all runs.

Each property of a passing run has a mutant of a mapped definition that breaks
it (operators marked "Mutant:" or "A mistake:"): among others a lock given back
twice, a commit that leaves optimistic transactions alone, a stream whose copy
follows the change of its TOC entry, a cached place that is not corrected after
a move, a free entry that is lost, a cancelled update whose blobs stay, a
notification request that forgets the recorded event, a file rewritten without
its other entries, cached operations that survive an abort.

## 4. Proofs

The theorems hold for all values of the constants that satisfy the named
`ASSUME`s (which every run evaluates): any number of sessions, handles, cursors,
keys, values, streams and places in the file, any ROM content and policies, any
number of failures.

### CenRepTransactionsProofs

| Theorem | States |
|---|---|
| `TypeCorrect` | `Spec => []TypeOK` |
| `NothingStale` | `Spec => []NoStaleSettings` |
| `LocksCorrect` | `Spec /\ []InfoWhileConnected => []LockInv` |
| `ExclusiveCorrect` | `Spec /\ []InfoWhileConnected => []ExclusiveMeansAlone` |
| `CacheCorrect` | `Spec => []CacheCoherent` |
| `CommitsExclusive` | `Spec /\ []InfoWhileConnected /\ FileNeverLost => CommitsExclude` |
| `ReadsRepeat` | `Spec /\ []InfoWhileConnected /\ FileNeverLost => RepeatableReads` |
| `ChangesAreNotified` | `Spec /\ FileNeverLost => ChangesNotified` |
| `NotificationsAreTrue` | without "persist" and "memory" failures: `Spec /\ FileNeverLost => NotifiedMeansChanged` |
| `ListsSound`, `MemoryFollowsFile`, `DeletionsAreRecorded`, `DeletedStayAbsent` | without failures and moves: `Spec => []SoundLists`, and from it `[]MemoryIsFile`, `[]DeletionsRecorded`, `[]DeletedAreAbsent` |
| `InfoKept` | without "load" and "read" failures: `Spec /\ FileNeverLost => []InfoWhileConnected` |
| `ProvisosHold` | without failures and moves: `Spec => FileNeverLost /\ []InfoWhileConnected` |

Argument. A first set of lemmas gives the types of the operations; `TypeOK`
says among other things that a stored array has no deleted entries, which is
why `MergedSettingsType` needs that a placeholder is either dropped or removes
its target. `NextTxnStep` shows that every step is, for the transaction state,
one of few kinds (`TxnStep`): nothing changes, a transaction starts, one keeps
new settings and may be promoted, some end, or the shared information is made
anew. `NoStaleSettings` is inductive over these together with `TypeOK`.

`LockInv` is the inductive invariant behind the locks. `ExclusiveMeansAlone`
alone is not inductive: that a reader can start tells something only if
`lockCount` counts the readers and is -1 exactly for an exclusive transaction,
and giving back locks needs the queue to hold every transaction, the failed ones
included (`QueueInv`), so that nobody gives back what he does not have. Counting
uses the cardinality lemmas of `FiniteSetTheorems`.

For the contents, `NextStoreStep` reduces every step to a few kinds for memory
and file (`StoreStep`): memory becomes what an access makes of it, a commit
writes memory to the file, memory is dropped and marked inconsistent, or it is
closed. `CacheCoherent` is inductive over these. `CommitsExclusive` combines both
sides: whoever changes the file has failed all that were in the queue, and the
queue has all. For `ReadsRepeat`, `ViewIsSeen` says that what a session reads is
its own settings over the file, so only a step that writes the file or the
session's own settings can change it, and `CommitsExclusive` excludes the former.

For the notifications `NextSaves` classifies every step once more: a step that
writes the file is a `FileStep`, which merges settings, writes, and completes the
requests for the changed keys in one go; all others are a `QuietStep`, which
leaves the file and completes no request unless a client cancels or closes.
`MergeValues` and `FileStepContent` then say that the keys that are announced are
the keys whose value in the file changed. The converse (`NotificationsAreTrue`)
needs that neither a write nor memory fails, because `ResetAllL` notifies before
it writes.

`SoundLists` is the inductive invariant behind the deleted list: memory and file
have the same settings and deleted keys, a ROM setting marked for backup that is
gone is in the list, nothing in the list exists, and every entry of a key that is
backed up is marked so, those of uncommitted settings included (`Backed`): what a
merge records depends on these marks. It needs that there are no failures, because a
write that fails after a merge leaves a list behind that a restore merges a
second time, and no `Move`, whose target inherits the source's metadata
(section 6); the `recovery` run has both.

### CenRepRefinementProofs

| Theorem | States |
|---|---|
| `Refinement` | `Spec /\ []InfoWhileConnected /\ FileNeverLost => StoreRefinement` |
| `RefinementWithLoss` | `Spec /\ []InfoWhileConnected => LossyRefinement` |
| `RefinementWhileShared` | `SharedInfoSpec => LossyRefinement` |
| `RefinementWithoutFaults` | without failures and moves: `Spec => StoreRefinement` |

The initial states map to `StoreInit`. A `FileStep` maps to `Commit` or to
`Change`, according to whose settings were merged: that nobody else's transaction
goes on is `LockInv` (the queue has all of them), that the values written are
those of the mapping is `MergeValues`, and that the store the client merged into
is the abstract one is `CacheCoherent`. A `QuietStep` is, by the cases of
`TxnStep`, a `Begin`, an `Update`, a `GiveUp` of some sessions, or a stutter;
`NoStaleSettings` makes the abstract `writes` of a session without a transaction
empty, as `Begin` wants it. A step that loses the file maps to `Lose`: `FileForm`
says that without a file the content is that of the ROM, and what happens to
transactions in such a step is that some fail.

### Assumptions of the Central Repository theorems

`InfoWhileConnected` (the shared information is there while a client is connected)
and `FileNeverLost` (the persists file, once written, stays) are hypotheses
because the code guarantees neither: section 6 has the counterexamples. Where the
file is lost the conclusions are indeed false: settings change under transactions
that go on, and nobody is told. `InfoKept` and `ProvisosHold` say when the
hypotheses hold: `InfoWhileConnected` can fail only by a failed load,
`FileNeverLost` only after a failure or a move of settings marked for backup.
`RefinementWithLoss` needs no such hypothesis about the file, and
`RefinementWhileShared` none but that no opening fails beside connected clients.

### PermStoreProofs

| Theorem | States |
|---|---|
| `StoreInvariant` | `Uncompacted => []StoreInv` |
| `StoreCache` | `Uncompacted => []CacheCorrect` |
| `StoreFreeList` | `Uncompacted => []FreeListInv` |
| `StoreReader` | `Uncompacted => []ReaderStable` |
| `StoreTrimmed` | `Uncompacted => []Trimmed` |
| `StoreImplementsStreams` | `Uncompacted => StoreRefinement` |

`Uncompacted` is the specification with the only restriction that no compaction
is begun (`[][~CompactBegin]_storeVars`). The theorems hold for every number of
entries, generations, slots, changes, failures and crashes, for both kinds of
media and for every value of `Careless`: a replacement that is given up does harm
only in a later compaction. The constants satisfy `BoundsAssumption`,
`NilAssumption` and `SizesAssumption`; the last says that an entry takes no less
room in a delta than in a base (8 and 5
bytes in the code), without which a delta could be written where there is no base.

No property is inductive alone: a crash may come between any two writes, so an
invariant must say what the file is after each prefix of the queue, and what is
in memory must be related to what a reload would find. `StoreInv` is

- `TypeInv`, the shapes of blocks, headers, writes and entries;
- `FileInv`: `view` is the file with the queued writes done (`Replay`), and the
  TOC of the last commit point can be loaded from both, gives the same entries in
  both, and is in order (`Good`): its streams have their data below the end of
  the file and its free entries are one chain (`Linked`);
- `HeaderInv`: the header in the file names the TOC that the coordinator
  remembers, as does the backup it would be repaired from, and the queued writes
  are `Harmless` to both; or a commit is between its header and its end, and the
  queue is exactly what is left of `BeginL`, the header and the clearing of its
  dirty flag (`Switching`);
- `TableInv`, while a table is in memory and in use: its entries, its free list,
  the cache of offsets, the stream being written and the one being read agree
  with the file as the process sees it. `NoTableInv` for a coordinator without one;
- `TrimInv`: past the end the coordinator has in mind there is nothing left of
  an abandoned stream.

The lemmas are of three kinds. Those about the table (`Using...`, of
`Alloc`, `Set`, `FreeEntry`, `Cancel`) say that a table in use stays in order.
Those about writes say that a harmless write, done, cut short or lost, leaves the
last commit point (`Quiet...`), and that each write of a change of header leaves
either the old or the new one (`Switch...`); the queue never has more than three
writes.
`WrittenIs` joins the two: what `Realize` writes, base or delta, is what `Load`
reads, and `DeltaHasBase` that a delta is written over a base only. Each action then has a lemma `Step...`
that proves the invariant and the refinement together. `AbsInv` gives the
abstract `stable` and `current` as the snapshots of the last commit point and
of the table; a step is a change of one stream or the root, a commit, the loss
of all changes, or a stutter. The commit is the `Flush` that does the last
write of the header; all the rest of a commit stutters. TLC checked
`StoreInv` on an instance with two failures (238,060 states) before the proof.

### DbTransactionProofs

| Theorem | States |
|---|---|
| `DbInductive` | `Spec => []IInv` |
| `DbTypeCorrect` | `Spec => []TypeOK` |
| `LocksFit` | `Spec => []LockInvariant` |
| `NoLockLeaks` | `Spec => []LocksAreObjects` |
| `NothingLeftOver` | `Spec => []UnsavedIsLocked` |
| `BusyCursorsConnected` | `Spec => []BusyIsConnected` |
| `CommitsWhole` | `Careless = {}`: `Spec => []CommittedWhole` |
| `ReadersIsolated` | `Spec => Isolation` |
| `CommitsAreTold` | `Spec => []ChangesAreTold` |

None of the properties is inductive alone. The inductive invariant `IInv` is the
conjunction of

- `Types`, which includes that the counts the code decrements without asking
  are natural numbers;
- `Ledger`: the holders in the list of locks are distinct, each has a user
  transaction or an object at work, its number of reads is that of the open
  reads of its cursors, and `updaters` is the number of cursors and statements
  that update. Only with these numbers does "the last one unlocks" mean that
  nobody is left;
- `Fit`: the operation, the kind of lock, the number of locks and of updaters go
  together, as `RDbTransaction::_Invariant` asserts in parts;
- `Objects`: an unfinished schema change, compaction or recovery is the operation
  of the lock, and a change of the schema or a recovery leaves no cursor
  connected. This is what makes it sound that `DDLCommitL` and the utilities
  release a lock without looking for their entry;
- `Bounded`, for the model's bound on changes, and `Undoable`: what is not
  committed is under a write lock or is the changed blobs of an updating cursor.

The proof is about a transaction, cursors, operations and clients as arguments
(`Inv(t, cu, ic, b)`), so that the lemmas about `Unlock`, `Release`, `DoCommit`,
`DoRollback` and the `DML...` operators are stated once and every action is a
composition of them. `CommitsWhole` adds `Whole`: a change under way has an owner
still at work, or the transaction has failed. It needs careful clients: an
abandoned statement (run `dbms_abandon`) or one that goes on in a failed
transaction loses its owner. `CommittedWhole` and `UnsavedIsLocked` are about
changes the transaction was touched for and copies of rows being inserted
(`Touched`, `Copying`); stray blobs are in the model, and the theorems say nothing
of them because the code leaves them behind (section 6). `CommitsAreTold` adds `Told`, which relates the
answer a client has taken, the event recorded and the version of the database.
`ReadersIsolated` is read off the steps: whoever changes the content holds the
only lock.

### CenRepCacheProofs

| Theorem | States |
|---|---|
| `OnlyTheTimerBreaks` | `Spec => CacheInv /\ [][CacheInv /\ ~CacheInv' => RunL /\ ~BusyAlone]_cacheVars` |
| `TimerBreaksTheList` | if `RunL` finds an expired repository in a transaction that is not the last entry: `~IdleEntriesLive'` |

The code breaks the properties of the list, so that they cannot be theorems; what
is proved is where. `RunL` hands a slot of the list to `StartEviction`, which
changes the list under it, and leaves without setting the timer (section 6).
`BusyAlone` says that when the timer fires, an expired repository in a transaction
is the only entry of the list. `OnlyTheTimerBreaks` has no hypothesis: for any
repositories and sizes, no other step, and no other situation of the timer, ever
breaks what holds until then. `TimerBreaksTheList` says that this one does, not
only may. The `cache` run has sizes for which such a repository is always alone.

`CacheInv` puts the four properties together, with the types, that only connected
repositories have transactions and that the list is empty while the cache is
disabled. None is inductive alone: that a removed size was counted needs that
entries are distinct, that an entry is put back needs that its repository is in
memory, and unloading a repository that cannot become idle needs that it has no
entry. The lemmas follow the calls of the code: `RemoveSound`, `EvictSound`,
`InsertSound`, together `StartEvictionSound`, then `AccessSound` and `RunLSound`.
The sizes are a recursive function over the list; `SizeOfAppend` and
`SizeOfRemoved` are proved by induction (below).

### FeatureServerProofs

| Theorem | States |
|---|---|
| `PromisesKept` | no interrupted start: `Spec /\ []NoStartWaits => []PromisedOperations` |
| `PromisesKeptWithoutPlugins` | no interrupted start, no plugins: `Spec => []PromisedOperations` |
| `PromisesCommitted` | no interrupted start: `Spec /\ []NoStartWaits => OnlyPromisesCommitted` |
| `RegistryInductive` | no plugins, `CleanRom`, own files restored: `Spec => []RegistryInv` |
| `PersistedFeaturesSurvive` | the same: `Spec => []PersistedSurvive` |
| `SavedFeaturesKept` | the same: `Spec => FileKept` |

The hypotheses. *No interrupted start* is that neither `"two executables"` nor
`"after refusal"` is in `Careless`: the `SWIStart` of a second executable loses
what the first was promised, and one after a refused `SWIEnd` adopts what that
left in the cache (section 6).
`NoStartWaits`: the `SWIStart` of an executable does not wait for the plugins;
one that does is served after others have been promised something. *No plugins*,
because a slow plugin makes the server read the file too early and delete it
(run `slow_plugin`); `featmgr` checks the instance with a plugin that answers
features which are not persisted. `CleanRom`: a blacklisted ROM feature is not
modifiable; otherwise a request could write an entry for it, which `Corrupt`
rejects when the file is read. *Own files restored*: a restore brings files with
persisted features only, as the server writes them.

`CacheInv` says that the cached operations are the promised ones followed by those
of the executable that is caching, and are all promised when nobody caches, in
each of the states the caching can be in; after a refusal only that the promised
ones come first. `PromisesCommitted` follows, since an installation that ends well
after a refusal carries out nothing.
`RegistryInv` adds that nobody waits (`Settled`), that the entries of the list
are valid and the blacklisted ones are the ROM's (`Sane`), and that, unless a
restore is under way, the file can be read and agrees with the list in every
feature that was saved (`Agree`). `PersistedSurvive` alone is not inductive: that
a restart would read a file says nothing of what the next change writes into it.
`HandleChangeSane` is the main lemma, of a change of one feature under each
outcome of the write; `CommitSane` extends it by induction to the operations of
an installation, which are applied one after the other and may fail one by one.

### Induction

A recursive function is a `CHOOSE`; a lemma for each (`SumsExist`,
`EvictingExists`, `ApplyingExists`, `ServingExists`) shows that it has a value, by
induction. The library's induction theorems take an operator as a parameter, which
the provers cannot instantiate. `SetInduction` in `InductionProofs` takes a set
instead, the numbers that have the property; it follows from `LeastExists`, that
is, from the well-foundedness of the natural numbers.

### Only model-checked

Liveness (`UnusedIsUnloaded`, `CachingEnds`, `InstallSettles`, `QueueServed`) is
out of the prover's reach. Compaction of the permanent store (`CompactBegin`,
`CompactStream`, `PutL`, `CompactToc`, `MoveL`, the consolidation of the TOC) is
checked by TLC only, in `store`: it adds a third place from which the header is
repaired, the relocation record, and the collector's snapshot, which the
invariant would have to relate to the table. So is the feature manager with
plugins, except for `PromisesKept` and `PromisesCommitted`.

## 5. Not modelled

*Central Repository.* The merges at upgrade, install and restore
(`HandleUpdateMergeL`, `MergeL`, `RestoreCompleteL`), the watcher for installs,
file formats, access policy evaluation, the ids a notification reports, the
pointer to the repository that a session keeps between requests, the client side
and the tools. The install directory is empty in the model.

*Store.* Overwriting a stream in place (`DoWriteL`), reclaiming without
compaction, the collector for little memory, eviction from the cache of offsets,
the window buffer of the TOC, the sizes and bytes of frames; all stores but the
permanent file store, the page pool, the B-tree, encryption.

*DBMS.* Rows, indexes (only whether one is damaged), several databases in one
store, small blobs kept in the row, SQL, the protocol of the server, the
security policies.

*Feature manager.* Requests that read, notification of sessions, ranges that are
supported by default, capabilities, the client library, plugins that answer
before the call that asks them returns, several failures in one step.

The SQL server is a layer around SQLite, third-party code that makes up most of
the lines of the repository. Event logger, file loggers and trace services
write and format logs. The components in `PROJECT.json` give the reason for each.

## 6. Findings

Runs with the expected result "violation"; each trace is short and readable.

| Run | What the code does | What the repository says |
|---|---|---|
| `file_lost` | after a failed write the restore finds the deleted keys still in memory, takes the file for corrupt and deletes it | the file "will be kept as it was" (`common/src/heaprepos.cpp:42`) |
| `store_replace` | a replacement that is given up leaves an entry in memory that compaction takes for one of a delta, and the TOC is overwritten at the wrong place | `__ASSERT_DEBUG(HasDelta(),...)` (`store/USTOR/UT_PERM.CPP:620`); "the file is never broken" (`UT_COLL.CPP:924`) |
| `dbms_abandon` | a statement closed half way within a transaction is neither undone nor does it fail the transaction | "the database is rolled back to its state before the operation started" (`dbms/udbms/UD_INCR.CPP:346`) |
| `slow_plugin` | the timer reads the file before the plugin has named its features; the file is taken for corrupt and deleted | a persisted feature is saved, "preserving its value across reboots" (`featuremgmt/featuremgr/inc/featurecmn.h:66`) |

More disagreements are visible in the same models, without a run of their own.

Central Repository:

- A client whose open fails because the repository cannot be loaded removes the
  shared transaction information of the clients that are connected
  (`srvrepos_noc.cpp:31`), which is kept "as long as a client is connected"
  (`obsrvr_noc.cpp:209`): `InfoWhileConnected` fails with two sessions and load
  failures.
- Any error but `KErrNoMemory` in reading the persists file, a passing one of the
  medium included, deletes it (`shrepos.cpp:757`-`811`), and a first load goes on
  to the ROM file (`obsrvr_noc.cpp:687`-`705`; the comment above it says so of a
  file that "is corrupted"). All settings ever committed are lost; transactions
  that are active stay active, see other settings, and commit over them; no
  notification is completed. `StoreRefinement`, `RepeatableReads`, `CommitsExclude`
  and `ChangesNotified` all fail with "read" failures; `LossyRefinement` holds.
- `RunL` passes a reference into the idle list to `StartEviction`
  (`cachemgr.cpp:384`), which removes that entry: with two idle entries and a
  transaction on the first, the second is listed twice, and `IdleEntriesLive`
  fails. `RunL` also returns without the rescheduling announced at
  `cachemgr.cpp:403`. `TimerBreaksTheList` proves the first for all instances.
- `DeleteSettingsRangeL` walks pointers into an array it inserts into
  (`operations.h:50`) and can leave a setting of the range, though settings "are
  marked as deleted" (`operations.h:33`).
- Delete and create in one transaction keep the default bit with a value that
  is not the default (`operations.h:99`); `ResetL` then does nothing, "if setting
  has not changed" (`srvrepos_noc.cpp:244`).
- A key that is moved away and created again in one transaction has lost its
  metadata: `MoveL` leaves placeholders with metadata 0, and `CreateSettingL`
  keeps what it finds, though `shrepos.h:260` says the new setting "uses meta
  defined for the original setting in the INI file". With the backup bit gone, a
  later deletion is not recorded (`DeletionsRecorded` fails with moves).
- `MemoryIsFile` fails once writes may fail: the restore keeps `iIsDefault`, so a
  repository first loaded from ROM is restored with every setting marked as
  default (`common/inc/datatype.inl:143`), though `heaprepos.cpp:44` says the
  content is deleted and restored "to keep the consistency".
- `TransactionCommitL` goes through `GeneralOperationsL` and is served during
  a backup or restore if the transaction has not been failed, though
  `srvsubsess.cpp:217` says writes are not allowed then.

Permanent file store:

- `"compact dirty"`: a compaction that begins with uncommitted changes lists the
  streams of the delta in memory; a revert does not change the generation
  (`RevertL`), and the compaction goes on and overwrites a committed stream.
- `"compact accessed"`: `RelocateTocL` and `MoveL` do not ask whether a stream is
  open, as `RelocateStreamL` does; the reader of a stream that was deleted loses
  its data. In the same way `TrimL`, in a `CreateL` or `CommitL` that is then
  refused, can cut off the stream being written.
- `SynchL` failing after `MoveL` has returned leaves the TOC in memory different
  from that of the header: the store answers `KErrCorrupt` until it is reopened.
- A commit of a root in a store without streams writes a TOC at place -1
  (`RewriteL`); the runs make a stream the root.

DBMS:

- `"step"`: `CDbIncrementalDML::NextL` never asks `ReadyL`; the `DMLCommitL` of a
  row inside a failed transaction clears the failed bit, against the assertion in
  `DMLBegin` (`utable/UT_TRANS.CPP`).
- A recorded unlock event is not signalled by the next `NotifyUnlock`, because
  `HObserver::Notify` asks for more than `EUnlock`, though
  `udbms/UD_OBSVR.CPP:63` says the recorded event "is signalled as soon as the
  client issues the next NotifyUnlock() or NotifyChange() request".
- A step of an UPDATE deletes and creates the blobs of the row
  (`CSqlValues::WriteL`, `utable/UT_DML.CPP:114`-`180`) and validates the row
  (`PrepareReplaceL`, `utable/UT_TABLE.CPP:404`) before `DMLBeginLC`
  (`UT_DML.CPP:329`-`332`). If it leaves there, a duplicate key suffices, the
  transaction has neither failed nor a write lock. An automatic transaction then
  reverts with `EDbXReadLock`, which undoes nothing (`ustor/US_DBS.CPP:414`): the
  row that is still in the table refers to a blob that is gone, and the next commit
  makes that durable. `InsertL(ECopy)` duplicates blobs before `DMLBegin` and sets
  no `EDirty` (`utable/UT_CURS.CPP:363`), so that `Cancel`, which says "we've
  mucked about with BLOBs, so force true roll-back", does not force it: the copies
  stay. An invariant that no stray blob is committed fails within a few steps.
- In automatic transactions a row deleted through one cursor is undone when the
  update of another cursor of the same handle, begun before, is cancelled.

Feature manager:

- Requests that wait for ever. The end of a backup or restore clears
  `iPendingRequests` (`featmgrserver.cpp:426`), which `CheckPluginsReadyL` and the
  timer's `DeletePlugins` ask for before they serve the queue (`:581`, `:450`). A
  request queued later is never served, though it is to be served "when feature info
  is ready"
  (`featmgrsession.h:109`). It comes to that when a backup ends before the plugins
  are ready, and without any haste after a restore: `EndRestore` asks the plugins
  again (`:719`), and the first answer of one that answers both commands, or of one
  of two, sets `iPluginsReady` back to false (`:567`). In `featmgr` `QueueServed`
  fails as soon as its premise about `iPendingRequests` is dropped.
- `"after refusal"`: a `SWIEnd` that is refused for lack of memory leaves what was
  cached in the array (`featmgrfeatureregistry.cpp:1354`); a `SWIStart` after it
  resets the state and goes on from there, and the next `SWIEnd` has both committed,
  though the operations are to be "disregarded" (`featmgrfeatureregistry.h:287`).
- Deleting a feature that the file lacks, because its addition could not be
  saved, writes it into the file (`Updated`).
- A `features.dat` that was created and not written is neither used nor deleted:
  without plugins the server does not start.
- `SetFeature` with data only, cached during an installation, becomes an enable
  (`Cached`).
- `SWIEnd` answers `KErrGeneral` when no feature was added, though the operations
  are committed; `featurecontrol.h:355` gives that code another meaning.
- `"failed start"`: out of memory in `SWIStart` leaves caching on without timer
  and listener (`CachingEnds` fails). `"two executables"`: the `SWIStart` of a
  second one can lose what the first was promised. `"missed"`: a state of the
  installer that changes again before the listener runs is not seen.
- `SWIEnd` of another process sets the count of cached operations to zero.
- `Goto_ErrorState` during a restore leaves `iBURInProgress` set
  (`RestoreAgain`), and a restore whose features cannot be loaded ends in the
  state Error, which no lock flag leaves (`EndRestore`).
- Queued requests and committed installations write `features.dat` during a
  backup.

## 7. Plan

Done: the models and runs above, and the proofs of section 4. Next:

1. Compaction in the proofs about `PermStore`: `StoreInv` with the relocation
   record and the collector's streams.
2. The feature manager with plugins that answer in time.
3. The merge algorithms of `datatype.cpp`, then install, upgrade and restore as
   actions; the composition of `CenRepTransactions` and `CenRepCache`.

## 8. Running

In this directory: `tlc -config locks.cfg MCTransactions` (and so on, with the
module `PROJECT.json` names), `tlapm CenRepTransactionsProofs.tla` (and the other
modules whose names end in `Proofs`).
