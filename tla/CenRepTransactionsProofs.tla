----------------------- MODULE CenRepTransactionsProofs -----------------------
(* Proofs about CenRepTransactions, for every value of its constants. *)
EXTENDS CenRepTransactions, FiniteSetTheorems, TLAPS

-----------------------------------------------------------------------------
(* What the operators on settings arrays return *)

\* An absent entry is not an entry, so the fields of the others can be used.
LEMMA AbsentIsNoEntry == Absent \notin Entry /\ Absent \notin StoredEntry
BY ValueAssumption DEF Entry, StoredEntry

\* The empty array and the ROM file's are arrays without deleted entries.
LEMMA RomArrayType == RomArray \in StoredArray /\ EmptyArray \in StoredArray
BY RomAssumption, PolicyAssumption DEF RomArray, RomEntry, StoredArray, StoredEntry, EmptyArray

\* Setting or clearing the default bit keeps an array an array.
LEMMA WithCleanType ==
    ASSUME NEW a \in StoredArray, NEW c \in BOOLEAN
    PROVE  WithClean(a, c) \in StoredArray
BY AbsentIsNoEntry DEF WithClean, StoredArray, StoredEntry

\* What a request finds after the load or the restore is a repository.
LEMMA AccessedType == StoreTypeOK => Accessed \in Memory
<1> SUFFICES ASSUME StoreTypeOK PROVE Accessed \in Memory
    OBVIOUS
<1>1. mem \in Memory /\ file \in File
    BY DEF StoreTypeOK
<1>2. /\ WithClean(file.settings, mem.isDefault) \in StoredArray
      /\ mem.isDefault \in BOOLEAN /\ mem.deleted \in SUBSET Key
      /\ file.settings \in StoredArray /\ file.deleted \in SUBSET Key /\ file.exists \in BOOLEAN
    BY <1>1, WithCleanType DEF Memory, File
<1> QED BY <1>1, <1>2 DEF Accessed, Memory

\* A merge leaves no deleted entry behind.
LEMMA MergedSettingsType ==
    ASSUME NEW m \in Memory, NEW p \in SettingsArray
    PROVE  MergedSettings(m, p) \in StoredArray
<1> SUFFICES ASSUME NEW k \in Key
             PROVE  (IF k \notin Changed(m, p) THEN m.settings[k]
                     ELSE IF p[k].val = Deleted THEN Absent ELSE p[k]) \in StoredEntry \cup {Absent}
    BY DEF MergedSettings, StoredArray
<1>1. m.settings[k] \in StoredEntry \cup {Absent}
    BY DEF Memory, StoredArray
<1>2. ASSUME k \in Changed(m, p), p[k].val # Deleted
      PROVE  p[k] \in StoredEntry
    <2>1. p[k] \in Entry
        BY <1>2 DEF Changed, SettingsArray
    <2> QED BY <1>2, <2>1 DEF Entry, StoredEntry
<1> QED BY <1>1, <1>2

\* What a merge leaves in the deleted list are keys.
LEMMA MergedDeletedType ==
    ASSUME NEW m \in Memory, NEW p \in SettingsArray, NEW K
    PROVE  MergedDeleted(m, p, K) \in SUBSET Key
BY DEF MergedDeleted, Changed, Memory

\* The transaction's entry, or else the stored one.
LEMMA GetSettingType ==
    ASSUME NEW m \in Memory, NEW p \in SettingsArray, NEW k \in Key
    PROVE  GetSetting(m, p, k) \in Entry \cup {Absent}
<1>1. m.settings[k] \in StoredEntry \cup {Absent}
    BY DEF Memory, StoredArray
<1>2. StoredEntry \subseteq Entry
    BY DEF StoredEntry, Entry
<1> QED BY <1>1, <1>2 DEF GetSetting, SettingsArray

\* The placeholder of a deleted setting is an entry.
LEMMA PlaceholderType == ASSUME NEW e \in Entry PROVE Placeholder(e) \in Entry
BY DEF Placeholder, Entry

\* Every operation on transaction settings gives transaction settings.
LEMMA PutSettingType ==
    ASSUME NEW m \in Memory, NEW p \in SettingsArray, NEW k \in Key, NEW v \in Value
    PROVE  PutSetting(m, p, k, v) \in SettingsArray
<1> DEFINE e == GetSetting(m, p, k)
<1>2. e \in Entry \cup {Absent}
    BY GetSettingType
<1>3. [val |-> v, clean |-> e # Absent /\ e.val = Deleted /\ e.clean,
       backup |-> IF e = Absent THEN k \in BackupKey ELSE e.backup] \in Entry
    <2>1. (e # Absent /\ e.val = Deleted /\ e.clean) \in BOOLEAN
        BY <1>2 DEF Entry
    <2>2. (IF e = Absent THEN k \in BackupKey ELSE e.backup) \in BOOLEAN
        <3>1. CASE e = Absent
            BY <3>1
        <3>2. CASE e # Absent
            BY <1>2, <3>2 DEF Entry
        <3> QED BY <3>1, <3>2
    <2> QED BY <2>1, <2>2 DEF Entry
<1> QED BY <1>3 DEF PutSetting, SettingsArray

\* DeleteSettingL gives transaction settings.
LEMMA DeleteSettingType ==
    ASSUME NEW m \in Memory, NEW p \in SettingsArray, NEW k \in Key
    PROVE  DeleteSetting(m, p, k) \in SettingsArray
<1>1. ASSUME Exists(m, p, k) PROVE Placeholder(GetSetting(m, p, k)) \in Entry
    BY <1>1, GetSettingType, PlaceholderType DEF Exists
<1> QED BY <1>1 DEF DeleteSetting, SettingsArray

\* DeleteSettingsRangeL gives transaction settings, wherever its pointers lead.
LEMMA DeleteSettingsRangeType ==
    ASSUME NEW m \in Memory, NEW p \in SettingsArray, NEW K
    PROVE  DeleteSettingsRange(m, p, K) \in SettingsArray
<1> DEFINE hit == Inserted(m, p, K) \cup UNION {Designated(m, p, K, k) : k \in Own(p, K)}
<1>1. ASSUME NEW k \in Key, k \in hit
      PROVE  Placeholder(GetSetting(m, p, k)) \in Entry
    <2>1. p[k] # Absent \/ k \in Inserted(m, p, K)
        BY <1>1 DEF Designated
    <2>2. GetSetting(m, p, k) # Absent
        BY <2>1 DEF GetSetting, Inserted
    <2> QED BY <2>2, GetSettingType, PlaceholderType
<1> HIDE DEF hit
<1>2. [k \in Key |-> IF k \in hit THEN Placeholder(GetSetting(m, p, k)) ELSE p[k]] \in SettingsArray
    BY <1>1 DEF SettingsArray
<1> QED BY <1>2 DEF DeleteSettingsRange, hit

\* MoveL gives transaction settings.
LEMMA MoveSettingsType ==
    ASSUME NEW m \in Memory, NEW p \in SettingsArray, NEW mv \in Moves
    PROVE  MoveSettings(m, p, mv) \in SettingsArray
<1> DEFINE src == Sources(m, p, mv)
           dst(k) == MovedTo(m, p, mv, CHOOSE j \in src : mv[j] = k)
           left(k) == IF p[k] = Absent THEN [val |-> Deleted, clean |-> FALSE, backup |-> FALSE]
                      ELSE Placeholder(p[k])
<1>1. ASSUME NEW k \in Key PROVE left(k) \in Entry
    <2>1. CASE p[k] = Absent
        BY <2>1 DEF Entry
    <2>2. CASE p[k] # Absent
        BY <2>2, PlaceholderType DEF SettingsArray
    <2> QED BY <2>1, <2>2
<1>2. ASSUME NEW j \in src PROVE MovedTo(m, p, mv, j) \in Entry
    <2>1. j \in Key /\ mv[j] \in Key /\ Exists(m, p, j)
        BY MovesAssumption DEF Sources
    <2>2. GetSetting(m, p, j) \in Entry
        BY <2>1, GetSettingType DEF Exists
    <2>3. (IF p[mv[j]] = Absent THEN mv[j] \in BackupKey ELSE GetSetting(m, p, j).backup) \in BOOLEAN
        <3>1. CASE p[mv[j]] = Absent
            BY <3>1
        <3>2. CASE p[mv[j]] # Absent
            BY <3>2, <2>2 DEF Entry
        <3> QED BY <3>1, <3>2
    <2> QED BY <2>2, <2>3 DEF MovedTo, Entry
<1>3. ASSUME NEW k \in Key, \E j \in src : mv[j] = k PROVE dst(k) \in Entry
    BY <1>2, <1>3
<1> HIDE DEF src, dst, left
<1>4. [k \in Key |-> IF k \in src THEN left(k)
                     ELSE IF \E j \in src : mv[j] = k THEN dst(k) ELSE p[k]] \in SettingsArray
    BY <1>1, <1>3 DEF SettingsArray
<1> QED BY <1>4 DEF MoveSettings, src, dst, left

-----------------------------------------------------------------------------
(* Type correctness *)

\* The number of active transactions in a mode is a number.
LEMMA CountType ==
    ASSUME NEW S, NEW md
    PROVE  /\ IsFiniteSet(S \cap ActiveIn(md)) /\ IsFiniteSet(ActiveIn(md))
           /\ Cardinality(S \cap ActiveIn(md)) \in Nat
           /\ Cardinality(ActiveIn(md)) \in Nat
<1>1. ActiveIn(md) \subseteq Session /\ S \cap ActiveIn(md) \subseteq Session
    BY DEF ActiveIn
<1>2. IsFiniteSet(S \cap ActiveIn(md)) /\ IsFiniteSet(ActiveIn(md))
    BY <1>1, SessionAssumption, FS_Subset
<1> QED BY <1>2, FS_CardinalityType

\* A transaction begins and ends without settings.
LEMMA EmptyArrayType == EmptyArray \in SettingsArray
BY DEF EmptyArray, SettingsArray

\* Ending transactions keeps the types of the transaction state.
LEMMA EndTransactionsType ==
    ASSUME TxnTypeOK, NEW S \in SUBSET Session, NEW D \in SUBSET Session, EndTransactions(S, D)
    PROVE  TxnTypeOK'
<1>1. LockWithout(S \cup D) \in Int /\ ConcurrentWithout(S \cup D) \in Int
    <2>1. /\ Cardinality((S \cup D) \cap ActiveIn("EReadTransaction")) \in Int
          /\ Cardinality((S \cup D) \cap ActiveIn("EConcurrentReadWriteTransaction")) \in Int
        BY CountType
    <2> QED BY <2>1 DEF LockWithout, ConcurrentWithout, TxnTypeOK
<1> QED BY <1>1, EmptyArrayType DEF EndTransactions, TxnTypeOK

\* The number of injected failures stays within its bound.
LEMMA FaultType ==
    ASSUME NEW kind, Fault(kind), faults \in 0 .. MaxFaults
    PROVE  faults' \in 0 .. MaxFaults
BY FaultAssumption DEF Fault

\* A repository without persists file has the content of the ROM file.
LEMMA NoFileType == NoFile \in File
BY RomArrayType DEF NoFile, File

\* An unloaded repository has no settings.
LEMMA ClosedType == Closed \in Memory
BY RomArrayType DEF Closed, Memory

\* Dropping requests leaves requests.
LEMMA NotifyType ==
    ASSUME NEW K, Notify(K), requests \in [Session -> SUBSET Filter]
    PROVE  requests' \in [Session -> SUBSET Filter]
BY DEF Notify

\* A request that only accesses the repository keeps the types of the store.
LEMMA TouchType == ASSUME StoreTypeOK, Touch PROVE StoreTypeOK'
BY AccessedType DEF StoreTypeOK, Touch

\* So does a load or a restore that fails.
LEMMA AccessFailsType ==
    ASSUME StoreTypeOK, AccessFails
    PROVE  mem' \in Memory /\ file' \in File /\ faults' \in 0 .. MaxFaults
<1>1. faults' \in 0 .. MaxFaults
    BY FaultType DEF AccessFails, StoreTypeOK
<1>2. file' \in File
    BY NoFileType DEF AccessFails, StoreTypeOK
<1>3. ASSUME NEW D \in SUBSET file.deleted, mem' = PartlyRead(D) PROVE mem' \in Memory
    <2>1. mem.deleted \cup D \in SUBSET Key
        BY DEF StoreTypeOK, File, Memory
    <2> QED BY <1>3, <2>1, RomArrayType DEF PartlyRead, StoreTypeOK, Memory
<1>4. ReadKeys \subseteq SUBSET file.deleted
    BY DEF ReadKeys
<1>5. {k \in file.deleted : \A d \in DuplicateDeleted : k < d} \in SUBSET file.deleted
    OBVIOUS
<1>6. mem' \in Memory
    BY <1>3, <1>4, <1>5 DEF AccessFails, StoreTypeOK
<1> QED BY <1>1, <1>2, <1>6

\* So does a load that falls back to the ROM file.
LEMMA FallBackType ==
    ASSUME StoreTypeOK, NEW s \in Session, LoadFallsBack(s)
    PROVE  StoreTypeOK'
<1>1. file' \in File /\ faults' \in 0 .. MaxFaults /\ requests' = requests
    BY NoFileType, FaultType DEF LoadFallsBack, StoreTypeOK
<1>2. ReadKeys \subseteq SUBSET Key
    BY DEF ReadKeys, StoreTypeOK, File
<1>3. mem' \in Memory
    BY <1>2, RomArrayType DEF LoadFallsBack, Memory
<1> QED BY <1>1, <1>3 DEF StoreTypeOK

\* So does persisting a repository, whether it works or not.
LEMMA CommitChangesType ==
    ASSUME StoreTypeOK, NEW m \in Memory, CommitChanges(m)
    PROVE  mem' \in Memory /\ file' \in File /\ faults' \in 0 .. MaxFaults
<1>1. CASE /\ file' = [exists |-> TRUE, settings |-> m.settings, deleted |-> m.deleted]
           /\ mem' = [m EXCEPT !.inconsistent = FALSE] /\ UNCHANGED faults
    BY <1>1 DEF StoreTypeOK, Memory, File
<1>2. CASE /\ Fault("persist") /\ UNCHANGED file
           /\ mem' = [m EXCEPT !.settings = EmptyArray, !.inconsistent = TRUE]
    BY <1>2, FaultType, RomArrayType DEF StoreTypeOK, Memory
<1> QED BY <1>1, <1>2 DEF CommitChanges

\* The same with the notifications that follow.
LEMMA CommitAndNotifyType ==
    ASSUME StoreTypeOK, NEW m \in Memory, NEW K, CommitAndNotify(m, K)
    PROVE  StoreTypeOK'
<1>1. mem' \in Memory /\ file' \in File /\ faults' \in 0 .. MaxFaults
    BY CommitChangesType DEF CommitAndNotify
<1>2. requests' \in [Session -> SUBSET Filter]
    BY NotifyType DEF CommitAndNotify, StoreTypeOK
<1> QED BY <1>1, <1>2 DEF StoreTypeOK

\* A commit keeps the types, whichever way it ends.
LEMMA DoCommitType ==
    ASSUME TxnTypeOK, StoreTypeOK, NEW s, NEW D \in SUBSET Session, NEW p \in SettingsArray,
           DoCommitTransactionSettings(s, D, p)
    PROVE  TxnTypeOK' /\ StoreTypeOK'
<1> DEFINE m == Accessed
<1>0. m \in Memory
    BY AccessedType
<1> HIDE DEF m
<1>1. CASE EndTransactions({}, D) /\ Touch
    BY <1>1, EndTransactionsType, TouchType
<1>2. CASE /\ EndTransactions(Others(s), D)
           /\ CommitAndNotify([m EXCEPT !.settings = MergedSettings(m, p),
                                        !.deleted = MergedDeleted(m, p, Key)], Changed(m, p))
    <2>1. [m EXCEPT !.settings = MergedSettings(m, p), !.deleted = MergedDeleted(m, p, Key)] \in Memory
        BY <1>0, MergedSettingsType, MergedDeletedType DEF Memory
    <2>2. StoreTypeOK'
        BY <1>2, <2>1, CommitAndNotifyType
    <2>3. Others(s) \in SUBSET Session
        BY DEF Others, TxnTypeOK
    <2> QED BY <1>2, <2>2, <2>3, EndTransactionsType
<1>3. CASE /\ EndTransactions({}, D)
           /\ \E stop \in Changed(m, p) :
                 /\ mem' = [m EXCEPT !.settings = EmptyArray,
                       !.deleted = MergedDeleted(m, p, {k \in Key : k > stop}),
                       !.inconsistent = TRUE]
                 /\ IF stop \in MergeClash(m, p) THEN UNCHANGED faults ELSE Fault("memory")
           /\ UNCHANGED <<file, requests>>
    <2>1. TxnTypeOK'
        BY <1>3, EndTransactionsType
    <2>2. mem' \in Memory
        <3>1. PICK stop : mem' = [m EXCEPT !.settings = EmptyArray,
                              !.deleted = MergedDeleted(m, p, {k \in Key : k > stop}),
                              !.inconsistent = TRUE]
            BY <1>3
        <3>2. MergedDeleted(m, p, {k \in Key : k > stop}) \in SUBSET Key
            BY <1>0, MergedDeletedType
        <3> QED BY <1>0, <3>1, <3>2, RomArrayType DEF Memory
    <2>3. faults' \in 0 .. MaxFaults
        BY <1>3, FaultType DEF StoreTypeOK
    <2> QED BY <1>3, <2>1, <2>2, <2>3 DEF StoreTypeOK
<1> QED BY <1>1, <1>2, <1>3 DEF DoCommitTransactionSettings, m

\* Failing a transaction keeps the types.
LEMMA FailTransactionType ==
    ASSUME TxnTypeOK, StoreTypeOK, NEW s \in Session, FailTransaction(s)
    PROVE  TxnTypeOK' /\ StoreTypeOK'
BY EndTransactionsType, TouchType DEF FailTransaction

\* A write request keeps the types.
LEMMA WriteOperationsType ==
    ASSUME TypeOK, NEW s \in Session, NEW ok, NEW p \in SettingsArray, WriteOperationsL(s, ok, p)
    PROVE  TypeOK'
<1>1. TxnTypeOK /\ StoreTypeOK /\ UNCHANGED <<connected, infoPresent, bur>>
    BY DEF TypeOK, WriteOperationsL, Request
<1>2. TxnTypeOK' /\ StoreTypeOK'
    <2>1. CASE Touch /\ UNCHANGED txnVars
        BY <1>1, <2>1, TouchType DEF txnVars, TxnTypeOK
    <2>2. CASE DoCommitTransactionSettings(s, {}, p)
        BY <1>1, <2>2, DoCommitType
    <2>3. CASE KeepSettings(s, p) /\ Touch
        BY <1>1, <2>3, TouchType DEF KeepSettings, TxnTypeOK, Mode
    <2>4. CASE FailTransaction(s)
        BY <1>1, <2>4, FailTransactionType
    <2> QED BY <2>1, <2>2, <2>3, <2>4 DEF WriteOperationsL
<1> QED BY <1>1, <1>2 DEF TypeOK

\* What every write request does to the transaction settings, whichever it is.
LEMMA WriteIsWriteOperation ==
    ASSUME TypeOK, NEW s \in Session, Write(s)
    PROVE  \E ok \in BOOLEAN, p \in SettingsArray : WriteOperationsL(s, ok, p)
<1> DEFINE m == Accessed
           p == pending[s]
<1>1. m \in Memory /\ p \in SettingsArray
    BY AccessedType DEF TypeOK, TxnTypeOK
<1>2. CASE \E k \in Key, v \in Value : SetL(s, k, v) \/ CreateL(s, k, v)
    <2>1. PICK k \in Key, v \in Value : SetL(s, k, v) \/ CreateL(s, k, v)
        BY <1>2
    <2>2. PutSetting(m, p, k, v) \in SettingsArray
        BY <1>1, PutSettingType
    <2>3. CASE SetL(s, k, v)
        BY <2>2, <2>3 DEF SetL
    <2>4. CASE CreateL(s, k, v)
        BY <2>2, <2>4 DEF CreateL
    <2> QED BY <2>1, <2>3, <2>4
<1>3. CASE \E k \in Key : DeleteL(s, k)
    BY <1>1, <1>3, DeleteSettingType DEF DeleteL
<1>4. CASE \E K \in KeyRange : DeleteRangeL(s, K)
    BY <1>1, <1>4, DeleteSettingsRangeType DEF DeleteRangeL
<1>5. CASE \E mv \in Moves : MoveL(s, mv)
    BY <1>1, <1>5, MoveSettingsType DEF MoveL
<1> QED BY <1>2, <1>3, <1>4, <1>5 DEF Write

\* A reset request keeps the types.
LEMMA ResetType ==
    ASSUME TypeOK, NEW s \in Session, Reset(s)
    PROVE  TypeOK'
<1> DEFINE m == Accessed
<1>1. TxnTypeOK /\ StoreTypeOK /\ UNCHANGED <<connected, infoPresent, bur>>
    BY DEF TypeOK, Reset, ResetAllL, ResetL, Request
<1>2. m \in Memory /\ RomArray \in StoredArray /\ EmptyArray \in StoredArray
    BY <1>1, AccessedType, RomArrayType
<1>3. ASSUME ResetRefused(s) PROVE TxnTypeOK' /\ StoreTypeOK'
    BY <1>1, <1>3, FailTransactionType, TouchType DEF ResetRefused, txnVars, TxnTypeOK
<1>4. ASSUME EndTransactions(Others(s), {}) PROVE TxnTypeOK'
    <2>1. Others(s) \in SUBSET Session
        BY <1>1 DEF Others, TxnTypeOK
    <2> QED BY <1>1, <1>4, <2>1, EndTransactionsType
<1> HIDE DEF m
<1>5. ASSUME ResetAllL(s) PROVE TxnTypeOK' /\ StoreTypeOK'
    <2>1. CASE ResetRefused(s)
        BY <1>3, <2>1
    <2>2. CASE EndTransactions(Others(s), {}) /\ Fault("load") /\ mem' = m /\ UNCHANGED <<file, requests>>
        BY <1>1, <1>2, <1>4, <2>2, FaultType DEF StoreTypeOK
    <2>3. CASE /\ EndTransactions(Others(s), {}) /\ \E K : Notify(K)
               /\ CommitChanges([m EXCEPT !.settings = RomArray, !.deleted = {}])
        <3>1. [m EXCEPT !.settings = RomArray, !.deleted = {}] \in Memory
            BY <1>2 DEF Memory
        <3>2. mem' \in Memory /\ file' \in File /\ faults' \in 0 .. MaxFaults
            BY <1>1, <2>3, <3>1, CommitChangesType
        <3> QED BY <1>1, <1>4, <2>3, <3>2, NotifyType DEF StoreTypeOK
    <2>4. CASE /\ EndTransactions(Others(s), {}) /\ \E K : Notify(K)
               /\ Fault("memory") /\ UNCHANGED file
               /\ mem' = [m EXCEPT !.settings = EmptyArray, !.inconsistent = TRUE]
        <3>1. mem' \in Memory
            BY <1>2, <2>4 DEF Memory
        <3> QED BY <1>1, <1>4, <2>4, <3>1, NotifyType, FaultType DEF StoreTypeOK
    <2> QED BY <1>5, <2>1, <2>2, <2>3, <2>4 DEF ResetAllL, m
<1>6. ASSUME NEW k \in Key, ResetL(s, k) PROVE TxnTypeOK' /\ StoreTypeOK'
    <2> DEFINE reset == [m EXCEPT !.settings[k] = RomArray[k],
                                  !.deleted = IF m.settings[k] = Absent
                                              THEN m.deleted \ {k} ELSE m.deleted]
    <2>1. CASE ResetRefused(s)
        BY <1>3, <2>1
    <2>2. CASE Touch /\ UNCHANGED txnVars
        BY <1>1, <2>2, TouchType DEF txnVars, TxnTypeOK
    <2>3. CASE EndTransactions(Others(s), {}) /\ CommitAndNotify(reset, {k})
        <3>1. [m.settings EXCEPT ![k] = RomArray[k]] \in StoredArray
            BY <1>2 DEF Memory, StoredArray
        <3>2. reset \in Memory
            BY <1>2, <3>1 DEF Memory
        <3> HIDE DEF reset
        <3> QED BY <1>1, <1>4, <2>3, <3>2, CommitAndNotifyType
    <2> QED BY <1>6, <2>1, <2>2, <2>3 DEF ResetL, m
<1> QED BY <1>1, <1>5, <1>6 DEF Reset, TypeOK

\* The state at the start of the server has the types.
LEMMA InitType == Init => TypeOK
<1> SUFFICES ASSUME Init PROVE TypeOK
    OBVIOUS
<1>2. TxnTypeOK
    BY EmptyArrayType DEF Init, TxnTypeOK
<1>3. StoreTypeOK
    BY NoFileType, ClosedType, FaultAssumption DEF Init, StoreTypeOK
<1> QED BY <1>2, <1>3 DEF Init, TypeOK

\* Every request and every step of the server keeps the types.
LEMMA NextType == ASSUME TypeOK, [Next]_vars PROVE TypeOK'
<1> USE DEF TypeOK
<1>1. ASSUME NEW s \in Session, OpenL(s) PROVE TypeOK'
    BY <1>1, TouchType DEF OpenL, Connect, TxnTypeOK
<1>1a. ASSUME NEW s \in Session, LoadFallsBack(s) PROVE TypeOK'
    <2>1. StoreTypeOK'
        BY <1>1a, FallBackType
    <2>2. CASE UNCHANGED <<connected, infoPresent, txnVars>>
        BY <1>1a, <2>1, <2>2 DEF LoadFallsBack, TxnTypeOK, txnVars
    <2>3. CASE Connect(s)
        BY <1>1a, <2>1, <2>3 DEF LoadFallsBack, Connect, TxnTypeOK
    <2> QED BY <1>1a, <2>2, <2>3 DEF LoadFallsBack
<1>2. ASSUME NEW s \in Session, Close(s) PROVE TypeOK'
    <2>1. TxnTypeOK'
        BY <1>2, EndTransactionsType DEF Close
    <2>2. StoreTypeOK'
        BY <1>2, ClosedType DEF Close, StoreTypeOK
    <2> QED BY <1>2, <2>1, <2>2 DEF Close
<1>3. ASSUME NEW s \in Session, RequestFails(s) PROVE TypeOK'
    <2>1. TxnTypeOK'
        BY <1>3, EndTransactionsType DEF RequestFails
    <2>2. StoreTypeOK'
        BY <1>3, AccessFailsType, AccessedType, FaultType DEF RequestFails, StoreTypeOK
    <2> QED BY <1>3, <2>1, <2>2 DEF RequestFails
<1>4. ASSUME NEW s \in Session, Transact(s) PROVE TypeOK'
    <2>1. UNCHANGED <<connected, infoPresent, bur>>
        BY <1>4 DEF Transact, TransactionStart, TransactionCommitL, TransactionCancel,
                    TransactionFail, Request
    <2>2. ASSUME NEW md \in Mode, TransactionStart(s, md) PROVE TypeOK'
        BY <2>1, <2>2, TouchType, EmptyArrayType DEF TransactionStart, StartTransaction, TxnTypeOK, txnVars
    <2>3. ASSUME TransactionCommitL(s) PROVE TypeOK'
        <3>1. pending[s] \in SettingsArray
            BY DEF TxnTypeOK
        <3> QED BY <2>1, <2>3, <3>1, DoCommitType DEF TransactionCommitL
    <2>4. ASSUME TransactionCancel(s) PROVE TypeOK'
        BY <2>1, <2>4, EndTransactionsType, TouchType DEF TransactionCancel
    <2>5. ASSUME TransactionFail(s) PROVE TypeOK'
        BY <2>1, <2>5, FailTransactionType DEF TransactionFail
    <2> QED BY <1>4, <2>2, <2>3, <2>4, <2>5 DEF Transact
<1>5. ASSUME NEW s \in Session, Write(s) PROVE TypeOK'
    BY <1>5, WriteIsWriteOperation, WriteOperationsType
<1>6. ASSUME NEW s \in Session, ReadOperationsL(s) PROVE TypeOK'
    BY <1>6, FailTransactionType, TouchType DEF ReadOperationsL, Request, txnVars, TxnTypeOK
<1>7. ASSUME NEW s \in Session, Reset(s) PROVE TypeOK'
    BY <1>7, ResetType
<1>8. ASSUME NEW s \in Session, Watch(s) PROVE TypeOK'
    <2>1. requests' \in [Session -> SUBSET Filter]
        BY <1>8 DEF Watch, NotifyRequest, NotifyCancel, NotifyCancelAll, StoreTypeOK
    <2>2. mem' = Accessed /\ UNCHANGED <<txnVars, file, faults, connected, infoPresent, bur>>
        BY <1>8 DEF Watch, NotifyRequest, NotifyCancel, NotifyCancelAll, Request
    <2> QED BY <2>1, <2>2, AccessedType DEF StoreTypeOK, TxnTypeOK, txnVars
<1>9. ASSUME NEW b \in BurState, TestBURstatusL(b) PROVE TypeOK'
    BY <1>9, ClosedType DEF TestBURstatusL, StoreTypeOK, TxnTypeOK, txnVars
<1>10. ASSUME OpenFails(Session) PROVE TypeOK'
    BY <1>10, AccessFailsType DEF OpenFails, StoreTypeOK, TxnTypeOK, txnVars
<1>11. ASSUME Evict PROVE TypeOK'
    BY <1>11, ClosedType DEF Evict, StoreTypeOK, TxnTypeOK, txnVars
<1>12. ASSUME InitialiseGetProxyBackupDataL PROVE TypeOK'
    <2>1. TxnTypeOK'
        <3>1. {t \in transactors : Active(t)} \in SUBSET Session
            BY DEF TxnTypeOK
        <3>2. CASE infoPresent
            BY <1>12, <3>1, <3>2, EndTransactionsType DEF InitialiseGetProxyBackupDataL
        <3>3. CASE ~infoPresent
            BY <1>12, <3>3 DEF InitialiseGetProxyBackupDataL, TxnTypeOK
        <3> QED BY <3>2, <3>3
    <2> QED BY <1>12, <2>1, ClosedType, AccessedType DEF InitialiseGetProxyBackupDataL, StoreTypeOK
<1>13. ASSUME Restart PROVE TypeOK'
    <2>1. TxnTypeOK'
        BY <1>13, EndTransactionsType DEF Restart
    <2> QED BY <1>13, <2>1, ClosedType DEF Restart, StoreTypeOK
<1>14. ASSUME UNCHANGED vars PROVE TypeOK'
    BY <1>14 DEF vars, StoreTypeOK, TxnTypeOK
<1> QED BY <1>1, <1>1a, <1>2, <1>3, <1>4, <1>5, <1>6, <1>7, <1>8, <1>9, <1>10, <1>11, <1>12, <1>13, <1>14
        DEF Next, Steps

\* The state keeps its types; in particular the deleted entries of a
\* transaction never reach the repository in memory or its file.
THEOREM TypeCorrect == Spec => []TypeOK
<1>1. Init => TypeOK
    BY InitType
<1>2. TypeOK /\ [Next]_vars => TypeOK'
    BY NextType
<1> QED BY <1>1, <1>2, PTL DEF Spec

-----------------------------------------------------------------------------
(* The ways a step can change the transactions *)

\* Every step leaves the transactions alone, finds the shared information
\* gone and sets it up, ends some transactions, starts one, or notes the
\* writes of one.  Only sessions whose transactions it ends are disconnected.
TxnStep ==
    \/ UNCHANGED txnVars /\ connected \subseteq connected'
    \/ /\ ~infoPresent /\ lockCount' = 0 /\ numConcurrent' = 0 /\ transactors' = {}
       /\ UNCHANGED <<mode, failed, pending>> /\ connected \subseteq connected'
    \/ \E S, D \in SUBSET Session :
          /\ EndTransactions(S, D)
          /\ \A t \in S : Active(t)
          /\ connected \ D \subseteq connected'
    \/ \E s \in connected, md \in Mode :
          /\ ~InTransaction(s) /\ MayStart(md) /\ StartTransaction(s, md)
          /\ connected' = connected
    \/ \E s \in connected, p \in SettingsArray :
          /\ Active(s) /\ (mode[s] = "EReadTransaction" => Promotable(s)) /\ KeepSettings(s, p)
          /\ connected' = connected

\* A request that fails its transaction is such a step.
LEMMA FailTransactionStep ==
    ASSUME NEW s \in Session, FailTransaction(s), connected' = connected
    PROVE  TxnStep
<1> DEFINE S == {s} \ {t \in Session : ~Active(t)}
<1>1. S \in SUBSET Session /\ {} \in SUBSET Session /\ \A t \in S : Active(t)
    OBVIOUS
<1>2. EndTransactions(S, {})
    BY DEF FailTransaction
<1> HIDE DEF S
<1> QED BY <1>1, <1>2 DEF TxnStep

\* So is one that fails all other transactions.
LEMMA OthersStep ==
    ASSUME TypeOK, NEW s, NEW D \in SUBSET Session, EndTransactions(Others(s), D),
           connected' = connected
    PROVE  TxnStep
<1>1. Others(s) \in SUBSET Session /\ \A t \in Others(s) : Active(t)
    BY DEF Others, TypeOK, TxnTypeOK
<1> QED BY <1>1 DEF TxnStep

\* So is a commit.
LEMMA DoCommitStep ==
    ASSUME TypeOK, NEW s, NEW D \in SUBSET Session, NEW p,
           DoCommitTransactionSettings(s, D, p), connected' = connected
    PROVE  TxnStep
<1>1. EndTransactions({}, D) \/ EndTransactions(Others(s), D)
    BY DEF DoCommitTransactionSettings
<1>2. ASSUME EndTransactions({}, D) PROVE TxnStep
    BY <1>2 DEF TxnStep
<1> QED BY <1>1, <1>2, OthersStep

\* And so is every step.
LEMMA NextTxnStep == ASSUME TypeOK, [Next]_vars PROVE TxnStep
<1>1. ASSUME NEW s \in Session, OpenL(s) \/ LoadFallsBack(s) PROVE TxnStep
    BY <1>1 DEF OpenL, LoadFallsBack, Connect, TxnStep, txnVars
<1>2. ASSUME NEW s \in Session, Close(s) PROVE TxnStep
    <2>1. {} \in SUBSET Session /\ {s} \in SUBSET Session
        OBVIOUS
    <2>2. EndTransactions({}, {s}) /\ connected \ {s} \subseteq connected'
        BY <1>2 DEF Close
    <2> QED BY <2>1, <2>2 DEF TxnStep
<1>3. ASSUME NEW s \in Session, RequestFails(s) PROVE TxnStep
    <2> DEFINE S == {s} \ {t \in Session : ~Active(t)}
    <2>1. S \in SUBSET Session /\ {} \in SUBSET Session /\ \A t \in S : Active(t)
        OBVIOUS
    <2>2. EndTransactions(S, {}) /\ connected' = connected
        BY <1>3 DEF RequestFails
    <2> HIDE DEF S
    <2> QED BY <2>1, <2>2 DEF TxnStep
<1>4. ASSUME NEW s \in Session, Transact(s) PROVE TxnStep
    <2>1. connected' = connected /\ s \in connected
        BY <1>4 DEF Transact, TransactionStart, TransactionCommitL, TransactionCancel,
                    TransactionFail, Request
    <2>2. ASSUME NEW md \in Mode, TransactionStart(s, md) PROVE TxnStep
        <3>1. CASE MayStart(md)
            <4>1. ~InTransaction(s) /\ StartTransaction(s, md)
                BY <2>2, <3>1 DEF TransactionStart
            <4> QED BY <2>1, <3>1, <4>1 DEF TxnStep
        <3>2. CASE ~MayStart(md)
            BY <2>1, <2>2, <3>2 DEF TransactionStart, TxnStep
        <3> QED BY <3>1, <3>2
    <2>3. ASSUME TransactionCommitL(s) PROVE TxnStep
        BY <2>1, <2>3, DoCommitStep DEF TransactionCommitL
    <2>4. ASSUME TransactionCancel(s) PROVE TxnStep
        BY <2>1, <2>4 DEF TransactionCancel, TxnStep
    <2>5. ASSUME TransactionFail(s) PROVE TxnStep
        BY <2>1, <2>5, FailTransactionStep DEF TransactionFail
    <2> QED BY <1>4, <2>2, <2>3, <2>4, <2>5 DEF Transact
<1>5. ASSUME NEW s \in Session, Write(s) PROVE TxnStep
    <2>1. PICK ok \in BOOLEAN, p \in SettingsArray : WriteOperationsL(s, ok, p)
        BY <1>5, WriteIsWriteOperation
    <2>2. connected' = connected /\ s \in connected
        BY <2>1 DEF WriteOperationsL, Request
    <2>3. CASE UNCHANGED txnVars
        BY <2>2, <2>3 DEF TxnStep
    <2>4. CASE DoCommitTransactionSettings(s, {}, p)
        BY <2>2, <2>4, DoCommitStep
    <2>5. CASE /\ Active(s) /\ (mode[s] = "EReadTransaction" => Promotable(s))
               /\ KeepSettings(s, p)
        BY <2>2, <2>5 DEF TxnStep
    <2>6. CASE FailTransaction(s)
        BY <2>2, <2>6, FailTransactionStep
    <2> QED BY <2>1, <2>3, <2>4, <2>5, <2>6 DEF WriteOperationsL
<1>6. ASSUME NEW s \in Session, ReadOperationsL(s) PROVE TxnStep
    <2>1. connected' = connected
        BY <1>6 DEF ReadOperationsL, Request
    <2>2. CASE FailTransaction(s)
        BY <2>1, <2>2, FailTransactionStep
    <2>3. CASE UNCHANGED txnVars
        BY <2>1, <2>3 DEF TxnStep
    <2> QED BY <1>6, <2>2, <2>3 DEF ReadOperationsL
<1>7. ASSUME NEW s \in Session, Reset(s) PROVE TxnStep
    <2>1. connected' = connected
        BY <1>7 DEF Reset, ResetAllL, ResetL, Request
    <2>2. \/ FailTransaction(s) \/ UNCHANGED txnVars \/ EndTransactions(Others(s), {})
        BY <1>7 DEF Reset, ResetAllL, ResetL, ResetRefused
    <2>3. CASE FailTransaction(s)
        BY <2>1, <2>3, FailTransactionStep
    <2>4. CASE UNCHANGED txnVars
        BY <2>1, <2>4 DEF TxnStep
    <2>5. CASE EndTransactions(Others(s), {})
        BY <2>1, <2>5, OthersStep
    <2> QED BY <2>2, <2>3, <2>4, <2>5
<1>8. ASSUME NEW s \in Session, Watch(s) PROVE TxnStep
    <2>1. connected' = connected /\ UNCHANGED txnVars
        BY <1>8 DEF Watch, NotifyRequest, NotifyCancel, NotifyCancelAll, Request
    <2> QED BY <2>1 DEF TxnStep
<1>9. ASSUME NEW b \in BurState, TestBURstatusL(b) PROVE TxnStep
    BY <1>9 DEF TestBURstatusL, TxnStep
<1>10. ASSUME OpenFails(Session) PROVE TxnStep
    BY <1>10 DEF OpenFails, TxnStep
<1>11. ASSUME Evict PROVE TxnStep
    BY <1>11 DEF Evict, TxnStep
<1>12. ASSUME InitialiseGetProxyBackupDataL PROVE TxnStep
    <2>1. CASE infoPresent
        <3> DEFINE S == {t \in transactors : Active(t)}
        <3>1. S \in SUBSET Session /\ {} \in SUBSET Session /\ \A t \in S : Active(t)
            BY DEF TypeOK, TxnTypeOK
        <3>2. EndTransactions(S, {}) /\ connected' = connected
            BY <1>12, <2>1 DEF InitialiseGetProxyBackupDataL
        <3> HIDE DEF S
        <3> QED BY <3>1, <3>2 DEF TxnStep
    <2>2. CASE ~infoPresent
        BY <1>12, <2>2 DEF InitialiseGetProxyBackupDataL, TxnStep
    <2> QED BY <2>1, <2>2
<1>13. ASSUME Restart PROVE TxnStep
    <2>1. {} \in SUBSET Session /\ Session \in SUBSET Session /\ EndTransactions({}, Session)
        BY <1>13 DEF Restart
    <2>2. connected \ Session \subseteq connected'
        BY DEF TypeOK
    <2> QED BY <2>1, <2>2 DEF TxnStep
<1>14. ASSUME UNCHANGED vars PROVE TxnStep
    BY <1>14 DEF vars, txnVars, TxnStep
<1> QED BY <1>1, <1>2, <1>3, <1>4, <1>5, <1>6, <1>7, <1>8, <1>9, <1>10, <1>11, <1>12, <1>13, <1>14
        DEF Next, Steps

-----------------------------------------------------------------------------
(* Uncommitted settings *)

\* None of these steps leaves uncommitted settings outside an active writer.
LEMMA NoStaleStep == ASSUME TypeOK, NoStaleSettings, TxnStep PROVE NoStaleSettings'
<1> SUFFICES ASSUME NEW t \in Session, pending'[t] # EmptyArray'
             PROVE  InTransaction(t)' /\ t \notin failed' /\ mode'[t] # "EReadTransaction"
    BY DEF NoStaleSettings, Active
<1> USE DEF TypeOK, TxnTypeOK
<1>0. EmptyArray' = EmptyArray
    BY DEF EmptyArray
<1>1. CASE UNCHANGED <<mode, failed, pending>>
    BY <1>0, <1>1 DEF NoStaleSettings, Active, InTransaction
<1>2. ASSUME NEW S \in SUBSET Session, NEW D \in SUBSET Session, EndTransactions(S, D)
      PROVE  InTransaction(t)' /\ t \notin failed' /\ mode'[t] # "EReadTransaction"
    <2>1. t \notin S /\ t \notin D /\ pending[t] # EmptyArray
        BY <1>0, <1>2 DEF EndTransactions
    <2>2. mode'[t] = mode[t] /\ (t \in failed' <=> t \in failed)
        BY <1>2, <2>1 DEF EndTransactions
    <2> QED BY <2>1, <2>2 DEF NoStaleSettings, Active, InTransaction
<1>3. ASSUME NEW s \in connected, NEW md \in Mode, ~InTransaction(s), StartTransaction(s, md)
      PROVE  InTransaction(t)' /\ t \notin failed' /\ mode'[t] # "EReadTransaction"
    <2>1. pending[t] # EmptyArray /\ t # s
        BY <1>0, <1>3 DEF StartTransaction, NoStaleSettings, Active
    <2> QED BY <1>3, <2>1 DEF StartTransaction, NoStaleSettings, Active, InTransaction
<1>4. ASSUME NEW s \in connected, NEW p \in SettingsArray, Active(s),
             mode[s] = "EReadTransaction" => Promotable(s), KeepSettings(s, p)
      PROVE  InTransaction(t)' /\ t \notin failed' /\ mode'[t] # "EReadTransaction"
    <2>1. CASE t = s
        BY <1>4, <2>1 DEF KeepSettings, Active, InTransaction, Promotable
    <2>2. CASE t # s
        BY <1>0, <1>4, <2>2 DEF KeepSettings, NoStaleSettings, Active, InTransaction
    <2> QED BY <2>1, <2>2
<1> QED BY <1>1, <1>2, <1>3, <1>4 DEF TxnStep, txnVars

\* What a session wrote in a transaction that failed, was cancelled or was
\* committed never turns up in a later one, whatever fails in the server.
THEOREM NothingStale == Spec => []NoStaleSettings
<1>1. Init => NoStaleSettings
    BY DEF Init, NoStaleSettings
<1>2. TypeOK /\ NoStaleSettings /\ [Next]_vars => NoStaleSettings'
    BY NextTxnStep, NoStaleStep
<1> QED BY <1>1, <1>2, TypeCorrect, PTL DEF Spec

-----------------------------------------------------------------------------
(* Locks *)

\* Who is active in a mode after transactions have ended.
LEMMA EndedActive ==
    ASSUME TypeOK, NEW S \in SUBSET Session, NEW D \in SUBSET Session, EndTransactions(S, D),
           NEW md \in Mode
    PROVE  ActiveIn(md)' = ActiveIn(md) \ (S \cup D)
<1>1. ASSUME NEW t \in Session
      PROVE  (mode'[t] = md /\ t \notin failed')
                <=> (mode[t] = md /\ t \notin failed /\ t \notin S /\ t \notin D)
    BY DEF EndTransactions, TypeOK, TxnTypeOK, Mode
<1> QED BY <1>1 DEF ActiveIn

\* The queue keeps naming the sessions that are in a transaction.
LEMMA QueueStep == ASSUME TypeOK, InfoWhileConnected, LockInv, TxnStep
                   PROVE  /\ transactors' = {s \in Session : InTransaction(s)}'
                          /\ transactors' \subseteq connected'
                          /\ failed' \subseteq transactors'
<1> USE DEF TypeOK, TxnTypeOK, LockInv, QueueInv
<1>1. CASE UNCHANGED <<mode, failed, transactors>> /\ connected \subseteq connected'
    BY <1>1 DEF InTransaction
<1>2. CASE /\ ~infoPresent /\ transactors' = {}
           /\ UNCHANGED <<mode, failed>> /\ connected \subseteq connected'
    <2>1. transactors = {}
        BY <1>2 DEF InfoWhileConnected
    <2> QED BY <1>1, <1>2, <2>1
<1>3. ASSUME NEW S \in SUBSET Session, NEW D \in SUBSET Session, EndTransactions(S, D),
             \A t \in S : Active(t), connected \ D \subseteq connected'
      PROVE  /\ transactors' = {s \in Session : InTransaction(s)}'
             /\ transactors' \subseteq connected'
             /\ failed' \subseteq transactors'
    BY <1>3 DEF EndTransactions, InTransaction, Active
<1>4. ASSUME NEW s \in connected, NEW md \in Mode, StartTransaction(s, md), connected' = connected
      PROVE  /\ transactors' = {t \in Session : InTransaction(t)}'
             /\ transactors' \subseteq connected'
             /\ failed' \subseteq transactors'
    BY <1>4 DEF StartTransaction, InTransaction, Mode
<1>5. ASSUME NEW s \in connected, NEW p \in SettingsArray, Active(s), KeepSettings(s, p),
             connected' = connected
      PROVE  /\ transactors' = {t \in Session : InTransaction(t)}'
             /\ transactors' \subseteq connected'
             /\ failed' \subseteq transactors'
    BY <1>5 DEF KeepSettings, InTransaction, Active
<1> QED BY <1>1, <1>2, <1>3, <1>4, <1>5 DEF TxnStep, txnVars

\* What is left of a finite set has as many elements less as were taken away.
LEMMA CountWithout ==
    ASSUME NEW A, NEW G, IsFiniteSet(A)
    PROVE  Cardinality(A \ G) = Cardinality(A) - Cardinality(G \cap A)
<1>1. Cardinality(A \ G) = Cardinality(A) - Cardinality(A \cap G)
    BY FS_Difference, Zenon
<1>2. A \cap G = G \cap A
    OBVIOUS
<1> QED BY <1>1, <1>2, Zenon

\* The counters keep saying what is active.
LEMMA CountStep == ASSUME TypeOK, InfoWhileConnected, LockInv, TxnStep PROVE LockCountInv'
<1> DEFINE R == "EReadTransaction"
           W == "EReadWriteTransaction"
           C == "EConcurrentReadWriteTransaction"
<1>0. /\ IsFiniteSet(ActiveIn(R)) /\ IsFiniteSet(ActiveIn(C))
      /\ Cardinality(ActiveIn(R)) \in Nat /\ Cardinality(ActiveIn(C)) \in Nat
    BY CountType
<1>1. CASE UNCHANGED <<mode, failed, lockCount, numConcurrent>>
    <2>1. \A md : ActiveIn(md)' = ActiveIn(md)
        BY <1>1 DEF ActiveIn
    <2> QED BY <1>1, <2>1 DEF LockInv, LockCountInv
<1>2. CASE ~infoPresent /\ lockCount' = 0 /\ numConcurrent' = 0 /\ UNCHANGED <<mode, failed>>
    <2>1. \A s \in Session : ~InTransaction(s)
        BY <1>2 DEF InfoWhileConnected, LockInv, QueueInv
    <2>2. \A md \in Mode : ActiveIn(md) = {}
        BY <2>1 DEF ActiveIn, InTransaction, Mode
    <2>3. ActiveIn(R)' = {} /\ ActiveIn(W)' = {} /\ ActiveIn(C)' = {}
        BY <1>2, <2>2 DEF ActiveIn, Mode
    <2> QED BY <1>2, <2>3, FS_EmptySet DEF LockCountInv
<1>3. ASSUME NEW S \in SUBSET Session, NEW D \in SUBSET Session, EndTransactions(S, D)
      PROVE  LockCountInv'
    <2> DEFINE gone == S \cup D
    <2>1. /\ ActiveIn(R)' = ActiveIn(R) \ gone /\ ActiveIn(W)' = ActiveIn(W) \ gone
          /\ ActiveIn(C)' = ActiveIn(C) \ gone
        BY <1>3, EndedActive DEF Mode
    <2>2. ASSUME NEW A, IsFiniteSet(A)
          PROVE  Cardinality(A \ gone) = Cardinality(A) - Cardinality(gone \cap A)
        BY <2>2, CountWithout, Zenon
    <2> HIDE DEF gone
    <2>3. numConcurrent' = Cardinality(ActiveIn(C)')
        <3>1. numConcurrent' = numConcurrent - Cardinality(gone \cap ActiveIn(C))
            BY <1>3 DEF EndTransactions, ConcurrentWithout, gone
        <3> QED BY <1>0, <2>1, <2>2, <3>1 DEF LockInv, LockCountInv
    <2>4. lockCount' = IF gone \cap ActiveIn(W) # {} THEN 0
                       ELSE lockCount - Cardinality(gone \cap ActiveIn(R))
        BY <1>3 DEF EndTransactions, LockWithout, gone
    <2>5. CASE lockCount = -1
        <3>1. PICK s \in Session : ActiveIn(W) = {s}
            BY <2>5, <1>0 DEF LockInv, LockCountInv
        <3>2. ActiveIn(R) = {}
            BY <2>5, <1>0 DEF LockInv, LockCountInv
        <3>3. CASE gone \cap ActiveIn(W) # {}
            <4>1. ActiveIn(W)' = {} /\ ActiveIn(R)' = {} /\ lockCount' = 0
                BY <2>1, <2>4, <3>1, <3>2, <3>3
            <4> QED BY <2>3, <4>1, FS_EmptySet DEF LockCountInv
        <3>4. CASE gone \cap ActiveIn(W) = {}
            <4>1. ActiveIn(W)' = {s} /\ ActiveIn(R)' = {}
                BY <2>1, <3>1, <3>2, <3>4
            <4>2. gone \cap ActiveIn(R) = {}
                BY <3>2
            <4>3. lockCount' = -1
                BY <2>4, <2>5, <3>4, <4>2, FS_EmptySet
            <4> QED BY <2>3, <4>1, <4>3 DEF LockCountInv
        <3> QED BY <3>3, <3>4
    <2>6. CASE lockCount # -1
        <3>1. lockCount = Cardinality(ActiveIn(R)) /\ ActiveIn(W) = {}
            BY <2>6 DEF LockInv, LockCountInv
        <3>2. lockCount' = Cardinality(ActiveIn(R)') /\ ActiveIn(W)' = {}
            BY <1>0, <2>1, <2>2, <2>4, <3>1
        <3> QED BY <2>3, <3>2 DEF LockCountInv
    <2> QED BY <2>5, <2>6
<1>4. ASSUME NEW s \in connected, NEW md \in Mode, ~InTransaction(s), MayStart(md),
             StartTransaction(s, md)
      PROVE  LockCountInv'
    <2>1. s \in Session /\ s \notin failed
        BY <1>4 DEF TypeOK, LockInv, QueueInv
    <2>2. \A other \in Mode \ {md} : ActiveIn(other)' = ActiveIn(other)
        BY <1>4, <2>1 DEF ActiveIn, StartTransaction, InTransaction, TypeOK, TxnTypeOK, Mode
    <2>3. ActiveIn(md)' = ActiveIn(md) \cup {s} /\ s \notin ActiveIn(md)
        BY <1>4, <2>1 DEF ActiveIn, StartTransaction, InTransaction, TypeOK, TxnTypeOK, Mode
    <2>4. CASE md = C
        <3>1. Cardinality(ActiveIn(C)') = Cardinality(ActiveIn(C)) + 1
            BY <1>0, <2>3, <2>4, FS_AddElement
        <3>2. numConcurrent' = numConcurrent + 1 /\ lockCount' = lockCount
            BY <1>4, <2>4 DEF StartTransaction
        <3>3. ActiveIn(R)' = ActiveIn(R) /\ ActiveIn(W)' = ActiveIn(W)
            BY <2>2, <2>4 DEF Mode
        <3> QED BY <3>1, <3>2, <3>3 DEF LockInv, LockCountInv
    <2>5. CASE md = R
        <3>1. Cardinality(ActiveIn(R)') = Cardinality(ActiveIn(R)) + 1
            BY <1>0, <2>3, <2>5, FS_AddElement
        <3>2. numConcurrent' = numConcurrent /\ lockCount' = lockCount + 1 /\ lockCount >= 0
            BY <1>4, <2>5 DEF StartTransaction, MayStart
        <3>3. ActiveIn(C)' = ActiveIn(C) /\ ActiveIn(W)' = ActiveIn(W)
            BY <2>2, <2>5 DEF Mode
        <3> QED BY <3>1, <3>2, <3>3 DEF LockInv, LockCountInv
    <2>6. CASE md = W
        <3>1. lockCount = 0 /\ lockCount' = -1 /\ numConcurrent' = numConcurrent
            BY <1>4, <2>6 DEF StartTransaction, MayStart
        <3>2. ActiveIn(C)' = ActiveIn(C) /\ ActiveIn(R)' = ActiveIn(R)
            BY <2>2, <2>6 DEF Mode
        <3>3. ActiveIn(R) = {} /\ ActiveIn(W) = {}
            BY <1>0, <3>1, FS_EmptySet DEF LockInv, LockCountInv
        <3>4. ActiveIn(W)' = {s}
            BY <2>3, <2>6, <3>3
        <3> QED BY <2>1, <3>1, <3>2, <3>3, <3>4 DEF LockInv, LockCountInv
    <2> QED BY <2>4, <2>5, <2>6 DEF Mode
<1>5. ASSUME NEW s \in connected, NEW p \in SettingsArray, Active(s), KeepSettings(s, p)
      PROVE  LockCountInv'
    <2>1. CASE ~Promotable(s)
        BY <1>1, <1>5, <2>1 DEF KeepSettings, TypeOK, TxnTypeOK
    <2>2. CASE Promotable(s)
        <3>1. s \in Session /\ mode[s] = R /\ s \notin failed /\ lockCount = 1
            BY <2>2 DEF Promotable, Active, TypeOK
        <3>2. s \in ActiveIn(R) /\ ActiveIn(W) = {} /\ Cardinality(ActiveIn(R)) = 1
            BY <3>1 DEF ActiveIn, LockInv, LockCountInv
        <3>3. ActiveIn(R) = {s}
            BY <1>0, <3>2, FS_Singleton
        <3>4. /\ lockCount' = -1 /\ numConcurrent' = numConcurrent /\ failed' = failed
              /\ mode' = [mode EXCEPT ![s] = W]
            BY <1>5, <2>2 DEF KeepSettings
        <3>5. ActiveIn(C)' = ActiveIn(C)
            BY <3>1, <3>4 DEF ActiveIn, TypeOK, TxnTypeOK
        <3>6. ActiveIn(R)' = {}
            BY <3>1, <3>3, <3>4 DEF ActiveIn, TypeOK, TxnTypeOK
        <3>7. ActiveIn(W)' = {s}
            BY <3>1, <3>2, <3>4 DEF ActiveIn, TypeOK, TxnTypeOK
        <3> QED BY <3>1, <3>4, <3>5, <3>6, <3>7 DEF LockInv, LockCountInv
    <2> QED BY <2>1, <2>2
<1> QED BY <1>1, <1>2, <1>3, <1>4, <1>5 DEF TxnStep, txnVars

\* The shared information is dropped with the last client.
LEMMA InfoStep == ASSUME infoPresent => connected # {}, [Next]_vars
                  PROVE  infoPresent' => connected' # {}
<1>1. CASE UNCHANGED <<connected, infoPresent>>
    BY <1>1
<1>2. CASE infoPresent' = FALSE
    BY <1>2
<1>3. ASSUME NEW s \in Session, OpenL(s) \/ LoadFallsBack(s)
      PROVE  connected' # {} \/ UNCHANGED <<connected, infoPresent>>
    BY <1>3 DEF OpenL, LoadFallsBack, Connect
<1>4. ASSUME NEW s \in Session, Close(s) PROVE infoPresent' => connected' # {}
    BY <1>4 DEF Close
<1>5. ASSUME InitialiseGetProxyBackupDataL PROVE infoPresent' => connected' # {}
    BY <1>5 DEF InitialiseGetProxyBackupDataL
<1>6. ASSUME NEW s \in Session, Transact(s) \/ Write(s) \/ Reset(s) \/ Watch(s)
      PROVE  UNCHANGED <<connected, infoPresent>>
    <2>1. CASE Transact(s)
        BY <2>1 DEF Transact, TransactionStart, TransactionCommitL, TransactionCancel,
                    TransactionFail, Request
    <2>2. CASE Write(s)
        BY <2>2 DEF Write, SetL, CreateL, DeleteL, DeleteRangeL, MoveL, WriteOperationsL, Request
    <2>3. CASE Reset(s)
        BY <2>3 DEF Reset, ResetAllL, ResetL, Request
    <2>4. CASE Watch(s)
        BY <2>4 DEF Watch, NotifyRequest, NotifyCancel, NotifyCancelAll, Request
    <2> QED BY <1>6, <2>1, <2>2, <2>3, <2>4
<1> QED BY <1>1, <1>2, <1>3, <1>4, <1>5, <1>6
        DEF Next, Steps, vars, RequestFails, ReadOperationsL, Request, TestBURstatusL, OpenFails, Evict, Restart

\* Every step keeps the lock invariant while the shared information is there.
LEMMA LockStep == ASSUME TypeOK, InfoWhileConnected, LockInv, [Next]_vars PROVE LockInv'
<1>1. TxnStep
    BY NextTxnStep
<1>2. infoPresent' => connected' # {}
    BY InfoStep DEF LockInv, QueueInv
<1> QED BY <1>1, <1>2, QueueStep, CountStep DEF LockInv, QueueInv

\* At the start there are no locks and no transactions.
LEMMA InitLock == Init => LockInv
<1> SUFFICES ASSUME Init PROVE LockInv
    OBVIOUS
<1>1. \A md \in Mode : ActiveIn(md) = {}
    BY DEF Init, ActiveIn, Mode
<1>2. QueueInv
    BY DEF Init, QueueInv, InTransaction
<1>3. LockCountInv
    BY <1>1, FS_EmptySet DEF Init, LockCountInv, Mode
<1> QED BY <1>2, <1>3 DEF LockInv

\* As long as the shared information stays with the connected sessions, the
\* lock count and the number of concurrent transactions say what is active,
\* however transactions start, get promoted, commit, fail or are abandoned.
THEOREM LocksCorrect == Spec /\ []InfoWhileConnected => []LockInv
<1>1. Init => LockInv
    BY InitLock
<1>2. TypeOK /\ InfoWhileConnected /\ LockInv /\ [Next]_vars => LockInv'
    BY LockStep
<1> QED BY <1>1, <1>2, TypeCorrect, PTL DEF Spec

\* Then no reader and no second writer runs beside the exclusive transaction.
THEOREM ExclusiveCorrect == Spec /\ []InfoWhileConnected => []ExclusiveMeansAlone
<1>1. TypeOK /\ LockInv => ExclusiveMeansAlone
    <2> SUFFICES ASSUME TypeOK, LockInv, NEW s \in Session, NEW t \in Session,
                        Active(s), Active(t), mode[s] = "EReadWriteTransaction", s # t
                 PROVE  mode[t] = "EConcurrentReadWriteTransaction"
        BY DEF ExclusiveMeansAlone
    <2>1. s \in ActiveIn("EReadWriteTransaction") /\ t \in ActiveIn(mode[t])
        BY DEF ActiveIn, Active
    <2>2. mode[t] \in Mode
        BY DEF Active, InTransaction, TypeOK, TxnTypeOK
    <2>3. mode[t] # "EReadWriteTransaction" /\ mode[t] # "EReadTransaction"
        BY <2>1 DEF LockInv, LockCountInv
    <2> QED BY <2>2, <2>3 DEF Mode
<1> QED BY <1>1, LocksCorrect, TypeCorrect, PTL

-----------------------------------------------------------------------------
(* The settings in memory and the files *)

\* Every step drops, keeps or accesses the settings in memory, persists them,
\* leaves them unusable, or finds those of the ROM because the file is lost.
StoreStep ==
    \/ mem' \in {mem, Accessed, Closed} /\ file' = file
    \/ \E m \in Memory : CommitChanges(m)
    \/ (mem'.inconsistent \/ ~mem'.open) /\ file' \in {file, NoFile}
    \/ mem'.settings = RomArray /\ file' = NoFile

\* A failed load or restore is such a step.
LEMMA AccessFailsStep == ASSUME TypeOK, AccessFails PROVE StoreStep
<1>1. CASE ~mem.open /\ mem' = mem
    BY <1>1 DEF AccessFails, StoreStep
<1>2. CASE mem.inconsistent /\ \E D : mem' = PartlyRead(D)
    <2>1. mem'.inconsistent
        BY <1>2 DEF PartlyRead, TypeOK, StoreTypeOK, Memory
    <2> QED BY <2>1 DEF AccessFails, StoreStep
<1>3. ~AccessOK => mem.inconsistent
    BY DEF AccessOK, DuplicateDeleted
<1> QED BY <1>1, <1>2, <1>3 DEF AccessFails

\* So is a commit.
LEMMA DoCommitStoreStep ==
    ASSUME TypeOK, NEW s, NEW D, NEW p \in SettingsArray, DoCommitTransactionSettings(s, D, p)
    PROVE  StoreStep
<1> DEFINE m == Accessed
<1>0. m \in Memory
    BY AccessedType DEF TypeOK
<1> HIDE DEF m
<1>1. CASE Touch
    BY <1>1 DEF Touch, StoreStep
<1>2. CASE \E K : CommitAndNotify([m EXCEPT !.settings = MergedSettings(m, p),
                                           !.deleted = MergedDeleted(m, p, Key)], K)
    <2>1. [m EXCEPT !.settings = MergedSettings(m, p), !.deleted = MergedDeleted(m, p, Key)] \in Memory
        BY <1>0, MergedSettingsType, MergedDeletedType DEF Memory
    <2> QED BY <1>2, <2>1 DEF CommitAndNotify, StoreStep
<1>3. CASE /\ file' = file
           /\ \E d : mem' = [m EXCEPT !.settings = EmptyArray, !.deleted = d, !.inconsistent = TRUE]
    BY <1>0, <1>3 DEF StoreStep, Memory
<1> QED BY <1>1, <1>2, <1>3 DEF DoCommitTransactionSettings, m

\* So is a reset.
LEMMA ResetStoreStep == ASSUME TypeOK, NEW s \in Session, Reset(s) PROVE StoreStep
<1> DEFINE m == Accessed
<1>0. m \in Memory
    BY AccessedType DEF TypeOK
<1> HIDE DEF m
<1>1. CASE Touch
    BY <1>1 DEF Touch, StoreStep
<1>2. CASE mem' = m /\ file' = file
    BY <1>2 DEF StoreStep, m
<1>3. CASE file' = file /\ mem' = [m EXCEPT !.settings = EmptyArray, !.inconsistent = TRUE]
    BY <1>0, <1>3 DEF StoreStep, Memory
<1>4. CASE CommitChanges([m EXCEPT !.settings = RomArray, !.deleted = {}])
    <2>1. [m EXCEPT !.settings = RomArray, !.deleted = {}] \in Memory
        BY <1>0, RomArrayType DEF Memory
    <2> QED BY <1>4, <2>1 DEF StoreStep
<1>5. ASSUME NEW k \in Key, NEW K,
             CommitAndNotify([m EXCEPT !.settings[k] = RomArray[k],
                                       !.deleted = IF m.settings[k] = Absent
                                                   THEN m.deleted \ {k} ELSE m.deleted], K)
      PROVE  StoreStep
    <2> DEFINE reset == [m EXCEPT !.settings[k] = RomArray[k],
                                  !.deleted = IF m.settings[k] = Absent
                                              THEN m.deleted \ {k} ELSE m.deleted]
    <2>1. [m.settings EXCEPT ![k] = RomArray[k]] \in StoredArray
        BY <1>0, RomArrayType DEF Memory, StoredArray
    <2>2. reset \in Memory
        BY <1>0, <2>1 DEF Memory
    <2>3. CommitChanges(reset)
        BY <1>5 DEF CommitAndNotify
    <2> HIDE DEF reset
    <2> QED BY <2>2, <2>3 DEF StoreStep
<1>6. ASSUME ResetRefused(s) PROVE StoreStep
    BY <1>1, <1>6 DEF ResetRefused, FailTransaction
<1>7. ASSUME ResetAllL(s) PROVE StoreStep
    BY <1>2, <1>3, <1>4, <1>6, <1>7 DEF ResetAllL, m
<1>8. ASSUME NEW k \in Key, ResetL(s, k) PROVE StoreStep
    BY <1>1, <1>5, <1>6, <1>8 DEF ResetL, m
<1> QED BY <1>7, <1>8 DEF Reset

\* And so is every step.
LEMMA NextStoreStep == ASSUME TypeOK, [Next]_vars PROVE StoreStep
<1>1. CASE Touch
    BY <1>1 DEF Touch, StoreStep
<1>2. CASE mem' \in {mem, Accessed, Closed} /\ file' = file
    BY <1>2 DEF StoreStep
<1>3. ASSUME NEW s \in Session, OpenL(s) \/ LoadFallsBack(s) PROVE StoreStep
    BY <1>1, <1>3 DEF OpenL, LoadFallsBack, StoreStep
<1>4. ASSUME NEW s \in Session, Close(s) PROVE StoreStep
    BY <1>2, <1>4 DEF Close
<1>5. ASSUME NEW s \in Session, RequestFails(s) PROVE StoreStep
    BY <1>2, <1>5, AccessFailsStep DEF RequestFails
<1>6. ASSUME NEW s \in Session, Transact(s) PROVE StoreStep
    <2>1. ASSUME TransactionCommitL(s) PROVE StoreStep
        <3>1. pending[s] \in SettingsArray
            BY DEF TypeOK, TxnTypeOK
        <3> QED BY <2>1, <3>1, DoCommitStoreStep DEF TransactionCommitL
    <2> QED BY <1>1, <1>6, <2>1 DEF Transact, TransactionStart, TransactionCancel, TransactionFail,
                                    FailTransaction
<1>7. ASSUME NEW s \in Session, Write(s) PROVE StoreStep
    <2>1. PICK ok \in BOOLEAN, p \in SettingsArray : WriteOperationsL(s, ok, p)
        BY <1>7, WriteIsWriteOperation
    <2>2. Touch \/ DoCommitTransactionSettings(s, {}, p)
        BY <2>1 DEF WriteOperationsL, FailTransaction
    <2> QED BY <1>1, <2>2, DoCommitStoreStep
<1>8. ASSUME NEW s \in Session, ReadOperationsL(s) PROVE StoreStep
    BY <1>1, <1>8 DEF ReadOperationsL, FailTransaction
<1>9. ASSUME NEW s \in Session, Watch(s) PROVE StoreStep
    BY <1>2, <1>9 DEF Watch, NotifyRequest, NotifyCancel, NotifyCancelAll
<1>10. ASSUME OpenFails(Session) PROVE StoreStep
    BY <1>10, AccessFailsStep DEF OpenFails
<1>11. ASSUME \/ \E b \in BurState : TestBURstatusL(b)
              \/ Evict \/ InitialiseGetProxyBackupDataL \/ Restart \/ UNCHANGED vars
       PROVE  StoreStep
    BY <1>2, <1>11 DEF TestBURstatusL, Evict, InitialiseGetProxyBackupDataL, Restart, vars
<1> QED BY <1>3, <1>4, <1>5, <1>6, <1>7, <1>8, <1>9, <1>10, <1>11, ResetStoreStep DEF Next, Steps

\* A repository without persists file holds what its ROM file holds.
NoFileIsRom == ~file.exists => file = NoFile

LEMMA FileForm == Spec => []NoFileIsRom
<1>1. Init => NoFileIsRom
    BY DEF Init, NoFileIsRom
<1>2. TypeOK /\ NoFileIsRom /\ [Next]_vars => NoFileIsRom'
    <2> SUFFICES ASSUME TypeOK, NoFileIsRom, [Next]_vars PROVE NoFileIsRom'
        OBVIOUS
    <2>1. file' = file \/ file' = NoFile \/ file'.exists
        <3>1. ASSUME NEW m \in Memory, CommitChanges(m) PROVE file' = file \/ file'.exists
            BY <3>1 DEF CommitChanges
        <3> QED BY <3>1, NextStoreStep DEF StoreStep
    <2> QED BY <2>1 DEF NoFileIsRom
<1> QED BY <1>1, <1>2, TypeCorrect, PTL DEF Spec

\* A load or a restore that fails leaves the files alone, or loses the persists file.
LEMMA AccessFailsFiles ==
    ASSUME NoFileIsRom, AccessFails
    PROVE  file' = file \/ (file.exists /\ file' = NoFile)
<1>1. ~AccessOK => file.deleted # {}
    BY DEF AccessOK, DuplicateDeleted
<1>2. ~AccessOK => file.exists
    BY <1>1 DEF NoFileIsRom, NoFile
<1> QED BY <1>2 DEF AccessFails

\* A load or a restore gives the values that the files hold.
LEMMA AccessedCoherent ==
    ASSUME TypeOK, CacheCoherent, NEW k \in Key
    PROVE  ValueIn(Accessed.settings, k) = Content[k]
<1>1. mem \in Memory /\ file \in File
    BY DEF TypeOK, StoreTypeOK
<1>2. Content[k] = ValueIn(file.settings, k)
    BY DEF Content
<1>3. CASE ~mem.open
    BY <1>2, <1>3 DEF Accessed
<1>4. CASE mem.open /\ mem.inconsistent
    <2>1. Accessed.settings = file.settings \/ Accessed.settings = WithClean(file.settings, mem.isDefault)
        BY <1>1, <1>4 DEF Accessed, Memory
    <2>2. ValueIn(WithClean(file.settings, mem.isDefault), k) = ValueIn(file.settings, k)
        <3>1. file.settings[k] \in StoredEntry \cup {Absent}
            BY <1>1 DEF File, StoredArray
        <3>2. CASE file.settings[k] = Absent
            BY <3>2 DEF WithClean, ValueIn
        <3>3. CASE file.settings[k] # Absent
            <4>1. WithClean(file.settings, mem.isDefault)[k]
                      = [file.settings[k] EXCEPT !.clean = mem.isDefault]
                BY <3>3 DEF WithClean
            <4>2. [file.settings[k] EXCEPT !.clean = mem.isDefault] \in StoredEntry
                BY <1>1, <3>1, <3>3 DEF StoredEntry, Memory
            <4>3. [file.settings[k] EXCEPT !.clean = mem.isDefault].val = file.settings[k].val
                BY <3>1, <3>3 DEF StoredEntry
            <4> QED BY <3>3, <4>1, <4>2, <4>3, AbsentIsNoEntry DEF ValueIn
        <3> QED BY <3>2, <3>3
    <2> QED BY <1>2, <2>1, <2>2
<1>5. CASE mem.open /\ ~mem.inconsistent
    BY <1>5 DEF Accessed, CacheCoherent
<1> QED BY <1>3, <1>4, <1>5

\* Whatever was evicted, reloaded, restored or left half done, the settings
\* that requests use are those of the files.
THEOREM CacheCorrect == Spec => []CacheCoherent
<1>1. Init => CacheCoherent
    BY DEF Init, CacheCoherent, Closed
<1>2. ASSUME TypeOK, CacheCoherent, [Next]_vars PROVE CacheCoherent'
    <2>0. mem \in Memory
        BY <1>2 DEF TypeOK, StoreTypeOK
    <2>1. StoreStep
        BY <1>2, NextStoreStep
    <2>2. CASE mem' = mem /\ file' = file
        BY <1>2, <2>2 DEF CacheCoherent, Content, ValueIn
    <2>3. CASE mem' = Accessed /\ file' = file
        <3>1. \A k \in Key : ValueIn(mem'.settings, k) = Content[k]
            BY <1>2, <2>3, AccessedCoherent
        <3>2. Content' = Content
            BY <2>3 DEF Content, ValueIn
        <3> QED BY <3>1, <3>2 DEF CacheCoherent, ValueIn
    <2>4. CASE mem' = Closed
        BY <2>4 DEF CacheCoherent, Closed
    <2>5. ASSUME NEW m \in Memory, CommitChanges(m) PROVE CacheCoherent'
        <3>1. CASE /\ file' = [exists |-> TRUE, settings |-> m.settings, deleted |-> m.deleted]
                   /\ mem' = [m EXCEPT !.inconsistent = FALSE]
            <4>1. mem'.settings = file'.settings
                BY <3>1 DEF Memory
            <4> QED BY <4>1 DEF CacheCoherent, Content, ValueIn
        <3>2. CASE mem' = [m EXCEPT !.settings = EmptyArray, !.inconsistent = TRUE]
            <4>1. mem'.inconsistent
                BY <3>2 DEF Memory
            <4> QED BY <4>1 DEF CacheCoherent
        <3> QED BY <2>5, <3>1, <3>2 DEF CommitChanges
    <2>6. CASE mem'.inconsistent \/ ~mem'.open
        BY <2>6 DEF CacheCoherent
    <2>7. CASE mem'.settings = RomArray /\ file' = NoFile
        <3>1. file'.settings = RomArray
            BY <2>7 DEF NoFile
        <3> QED BY <2>7, <3>1 DEF CacheCoherent, Content, ValueIn
    <2> QED BY <2>1, <2>2, <2>3, <2>4, <2>5, <2>6, <2>7 DEF StoreStep
<1>3. TypeOK /\ CacheCoherent /\ [Next]_vars => CacheCoherent'
    BY <1>2
<1> QED BY <1>1, <1>3, TypeCorrect, PTL DEF Spec

-----------------------------------------------------------------------------
(* Commits and other transactions *)

\* Failing all others leaves nobody active, if s itself is not or is over.
LEMMA OthersEnd ==
    ASSUME TypeOK, LockInv, NEW s, NEW D \in SUBSET Session, EndTransactions(Others(s), D),
           s \in D \/ ~InTransaction(s), NEW t \in Session
    PROVE  ~Active(t)'
<1>1. CASE t \in D
    BY <1>1 DEF EndTransactions, Active, InTransaction
<1>2. CASE t \notin D /\ Active(t)
    <2>1. t \in Others(s)
        BY <1>2 DEF Others, Active, LockInv, QueueInv
    <2> QED BY <1>2, <2>1 DEF EndTransactions, Active
<1>3. CASE t \notin D /\ ~Active(t)
    BY <1>3 DEF EndTransactions, Active, InTransaction, TypeOK, TxnTypeOK
<1> QED BY <1>1, <1>2, <1>3

\* A step that changes the file, but does not lose it, fails or ends every
\* transaction.
LEMMA FileChangeStep ==
    ASSUME TypeOK, LockInv, NoFileIsRom, file.exists => file'.exists, [Next]_vars,
           file' # file, NEW t \in Session
    PROVE  ~Active(t)'
<1>1. ASSUME NEW s \in Session, NEW D \in SUBSET Session, NEW p, s \in D \/ ~InTransaction(s),
             DoCommitTransactionSettings(s, D, p)
      PROVE  ~Active(t)'
    <2>1. EndTransactions(Others(s), D)
        BY <1>1 DEF DoCommitTransactionSettings, Touch
    <2> QED BY <1>1, <2>1, OthersEnd
<1>2. ASSUME NEW s \in Session, Transact(s) PROVE ~Active(t)'
    <2>1. TransactionCommitL(s)
        BY <1>2 DEF Transact, TransactionStart, TransactionCancel, TransactionFail,
                    FailTransaction, Touch
    <2> QED BY <1>1, <2>1 DEF TransactionCommitL
<1>3. ASSUME NEW s \in Session, Write(s) PROVE ~Active(t)'
    <2>1. PICK ok \in BOOLEAN, p \in SettingsArray : WriteOperationsL(s, ok, p)
        BY <1>3, WriteIsWriteOperation
    <2>2. ~InTransaction(s) /\ DoCommitTransactionSettings(s, {}, p)
        BY <2>1 DEF WriteOperationsL, FailTransaction, Touch
    <2> QED BY <1>1, <2>2
<1>4. ASSUME NEW s \in Session, Reset(s) PROVE ~Active(t)'
    <2>1. ~InTransaction(s) /\ EndTransactions(Others(s), {})
        BY <1>4 DEF Reset, ResetAllL, ResetL, ResetRefused, FailTransaction, Touch
    <2> QED BY <2>1, OthersEnd
<1>5. ASSUME AccessFails PROVE FALSE
    BY <1>5, AccessFailsFiles DEF NoFile
<1>6. ASSUME NEW s \in Session, LoadFallsBack(s) PROVE FALSE
    BY <1>6 DEF LoadFallsBack, NoFile
<1> QED BY <1>2, <1>3, <1>4, <1>5, <1>6
        DEF Next, Steps, vars, OpenL, Touch, Close, RequestFails, ReadOperationsL, FailTransaction, Watch,
            NotifyRequest, NotifyCancel, NotifyCancelAll, TestBURstatusL, OpenFails, Evict,
            InitialiseGetProxyBackupDataL, Restart

\* No transaction goes on with values that a commit or a reset has made out
\* of date, provided the shared information stays with the connected sessions
\* and the persists file is never deleted.
THEOREM CommitsExclusive == Spec /\ []InfoWhileConnected /\ FileNeverLost => CommitsExclude
<1>1. ASSUME TypeOK, LockInv, NoFileIsRom, [Next]_vars, [file.exists => file'.exists]_vars
      PROVE  [Content' # Content => \A s \in Session : ~Active(s)']_vars
    <2>1. file' = file => Content' = Content
        BY DEF Content, ValueIn
    <2>2. CASE UNCHANGED vars
        BY <2>2
    <2>3. CASE file.exists => file'.exists
        BY <1>1, <2>1, <2>3, FileChangeStep
    <2> QED BY <1>1, <2>2, <2>3
<1>2. TypeOK /\ LockInv /\ NoFileIsRom /\ [Next]_vars /\ [file.exists => file'.exists]_vars
          => [Content' # Content => \A s \in Session : ~Active(s)']_vars
    BY <1>1
<1> QED BY <1>2, TypeCorrect, LocksCorrect, FileForm, PTL DEF Spec, CommitsExclude, FileNeverLost

-----------------------------------------------------------------------------
(* Steps that write the files *)

\* The step of a session s writes the memory n to the files: it fails all
\* other transactions, ends those of D, and tells who waits on a key of K.
Saves(s, D, n, K) ==
    /\ EndTransactions(Others(s), D)
    /\ file' = [exists |-> TRUE, settings |-> n.settings, deleted |-> n.deleted]
    /\ mem' = [n EXCEPT !.inconsistent = FALSE]
    /\ Notify(K)

\* The value of k once the transaction settings p are merged into m.
Merging(m, p, k) ==
    IF p[k] = Absent THEN ValueIn(m.settings, k)
    ELSE IF p[k].val = Deleted THEN Absent ELSE p[k].val

\* K are the keys whose value differs between the arrays a and b.
Differences(a, b, K) == \A k \in Key : k \in K <=> ValueIn(a, k) # ValueIn(b, k)

\* Such a step is the commit of the transaction of s, or a write or reset of s
\* outside transactions; those who wait on a key that changes are told.
FileStep ==
    \E s \in Session, n \in Memory, K \in SUBSET Key :
        /\ Differences(n.settings, Accessed.settings, K)
        /\ \/ /\ InTransaction(s) /\ K # {} /\ Saves(s, {s}, n, K)
              /\ \A k \in Key : ValueIn(n.settings, k) = Merging(Accessed, pending[s], k)
           \/ ~InTransaction(s) /\ Saves(s, {}, n, K)

\* The other steps: the files stay, and no request for notification is
\* completed unless its client ends it or something fails.
QuietStep ==
    /\ file' = file
    /\ \/ requests' = requests
       \/ \E s \in Session : Close(s) \/ Watch(s)
       \/ Restart
       \/ FaultKind \cap {"persist", "memory"} # {}

\* The persists file is lost.  At most transactions fail with it.
LostStep ==
    /\ file.exists /\ file' = NoFile
    /\ \/ UNCHANGED <<mode, failed, pending>>
       \/ \E S \in SUBSET Session : EndTransactions(S, {}) /\ \A t \in S : Active(t)

\* A merge changes the values of the changed keys, and of no other.
LEMMA MergeValues ==
    ASSUME NEW m \in Memory, NEW p \in SettingsArray
    PROVE  /\ \A k \in Key : ValueIn(MergedSettings(m, p), k) = Merging(m, p, k)
           /\ Differences(MergedSettings(m, p), m.settings, Changed(m, p))
<1> SUFFICES ASSUME NEW k \in Key
             PROVE  /\ ValueIn(MergedSettings(m, p), k) = Merging(m, p, k)
                    /\ k \in Changed(m, p) <=>
                          ValueIn(MergedSettings(m, p), k) # ValueIn(m.settings, k)
    BY DEF Differences
<1>1. m.settings[k] \in StoredEntry \cup {Absent} /\ p[k] \in Entry \cup {Absent}
    BY DEF Memory, StoredArray, SettingsArray
<1>2. m.settings[k] # Absent => m.settings[k].val \in Value
    BY <1>1 DEF StoredEntry
<1>3. p[k] # Absent => p[k].val \in Value \cup {Deleted}
    BY <1>1 DEF Entry
<1>4. MergedSettings(m, p)[k] = IF k \notin Changed(m, p) THEN m.settings[k]
                                ELSE IF p[k].val = Deleted THEN Absent ELSE p[k]
    BY DEF MergedSettings
<1>5. k \in Changed(m, p) <=>
        /\ p[k] # Absent
        /\ IF p[k].val = Deleted THEN m.settings[k] # Absent ELSE ~SameValue(m.settings[k], p[k])
    BY DEF Changed
<1> QED BY <1>2, <1>3, <1>4, <1>5, ValueAssumption DEF ValueIn, Merging, SameValue

\* A commit of transaction settings writes the files or is quiet.
LEMMA DoCommitSaves ==
    ASSUME TypeOK, NEW s \in Session, NEW D \in {{}, {s}}, NEW p \in SettingsArray,
           DoCommitTransactionSettings(s, D, p), D = {s} <=> InTransaction(s),
           D = {s} => p = pending[s]
    PROVE  FileStep \/ QuietStep
<1> DEFINE m == Accessed
           n == [m EXCEPT !.settings = MergedSettings(m, p), !.deleted = MergedDeleted(m, p, Key)]
<1>0. m \in Memory
    BY AccessedType DEF TypeOK
<1>1. CASE Touch
    BY <1>1 DEF Touch, QuietStep
<1>2. CASE UNCHANGED <<file, requests>>
    BY <1>2 DEF QuietStep
<1>3. CASE Changed(m, p) # {} /\ EndTransactions(Others(s), D) /\ CommitAndNotify(n, Changed(m, p))
    <2>1. /\ n \in Memory /\ n.settings = MergedSettings(m, p)
        BY <1>0, MergedSettingsType, MergedDeletedType DEF Memory
    <2>2. CASE Fault("persist") /\ file' = file
        BY <2>2 DEF QuietStep, Fault
    <2>3. CASE /\ file' = [exists |-> TRUE, settings |-> n.settings, deleted |-> n.deleted]
               /\ mem' = [n EXCEPT !.inconsistent = FALSE]
        <3>1. Notify(Changed(m, p))
            BY <1>3, <2>1, <2>3 DEF CommitAndNotify, Memory
        <3>2. Saves(s, D, n, Changed(m, p))
            BY <1>3, <2>3, <3>1 DEF Saves
        <3>3. /\ Differences(n.settings, m.settings, Changed(m, p))
              /\ \A k \in Key : ValueIn(n.settings, k) = Merging(m, p, k)
            BY <1>0, <2>1, MergeValues
        <3>4. Changed(m, p) \in SUBSET Key
            BY DEF Changed
        <3> HIDE DEF n
        <3>5. CASE D = {s}
            BY <1>3, <2>1, <3>2, <3>3, <3>4, <3>5 DEF FileStep
        <3>6. CASE D = {} /\ D # {s}
            BY <2>1, <3>2, <3>3, <3>4, <3>6 DEF FileStep
        <3> QED BY <3>5, <3>6
    <2> QED BY <1>3, <2>2, <2>3 DEF CommitAndNotify, CommitChanges
<1> QED BY <1>1, <1>2, <1>3 DEF DoCommitTransactionSettings

\* So does a reset.
LEMMA ResetSaves == ASSUME TypeOK, NEW s \in Session, Reset(s) PROVE FileStep \/ QuietStep
<1> DEFINE m == Accessed
<1>0. m \in Memory
    BY AccessedType DEF TypeOK
<1>1. CASE Touch
    BY <1>1 DEF Touch, QuietStep
<1>2. ASSUME ResetRefused(s) PROVE QuietStep
    BY <1>2 DEF ResetRefused, FailTransaction, Touch, QuietStep
<1>3. ASSUME NEW k \in Key, ~InTransaction(s), EndTransactions(Others(s), {}),
             ~(\/ RomArray[k] # Absent /\ SameValue(m.settings[k], RomArray[k])
               \/ RomArray[k] = Absent /\ m.settings[k] = Absent),
             CommitAndNotify([m EXCEPT !.settings[k] = RomArray[k],
                                       !.deleted = IF m.settings[k] = Absent
                                                   THEN m.deleted \ {k} ELSE m.deleted], {k})
      PROVE  FileStep \/ QuietStep
    <2> DEFINE n == [m EXCEPT !.settings[k] = RomArray[k],
                              !.deleted = IF m.settings[k] = Absent
                                          THEN m.deleted \ {k} ELSE m.deleted]
    <2>1. [m.settings EXCEPT ![k] = RomArray[k]] \in StoredArray
        BY <1>0, RomArrayType DEF Memory, StoredArray
    <2>2. n \in Memory /\ n.settings = [m.settings EXCEPT ![k] = RomArray[k]]
        BY <1>0, <2>1 DEF Memory
    <2>3. CASE Fault("persist") /\ file' = file
        BY <2>3 DEF QuietStep, Fault
    <2>4. CASE /\ file' = [exists |-> TRUE, settings |-> n.settings, deleted |-> n.deleted]
               /\ mem' = [n EXCEPT !.inconsistent = FALSE]
        <3>1. Notify({k})
            BY <1>3, <2>2, <2>4 DEF CommitAndNotify, Memory
        <3>2. Saves(s, {}, n, {k})
            BY <1>3, <2>4, <3>1 DEF Saves
        <3>3. /\ m.settings \in StoredArray
              /\ m.settings[k] \in StoredEntry \cup {Absent} /\ RomArray[k] \in StoredEntry \cup {Absent}
            BY <1>0, RomArrayType DEF Memory, StoredArray
        <3>4. ValueIn(n.settings, k) # ValueIn(m.settings, k)
            <4>1. ValueIn(n.settings, k) = ValueIn(RomArray, k)
                BY <2>2, <3>3 DEF ValueIn, StoredArray
            <4>2. /\ m.settings[k] # Absent => m.settings[k].val # Absent
                  /\ RomArray[k] # Absent => RomArray[k].val # Absent
                BY <3>3, ValueAssumption DEF StoredEntry
            <4> QED BY <1>3, <4>1, <4>2 DEF ValueIn, SameValue
        <3>5. Differences(n.settings, m.settings, {k})
            BY <2>2, <3>3, <3>4 DEF Differences, ValueIn, StoredArray
        <3> HIDE DEF n
        <3> QED BY <1>3, <2>2, <3>2, <3>5 DEF FileStep
    <2> QED BY <1>3, <2>3, <2>4 DEF CommitAndNotify, CommitChanges
<1>4. ASSUME NEW k \in Key, ResetL(s, k) PROVE FileStep \/ QuietStep
    BY <1>1, <1>2, <1>3, <1>4 DEF ResetL
<1>5. ASSUME ResetAllL(s) PROVE FileStep \/ QuietStep
    <2> DEFINE differ == {k \in Key : m.settings[k] # RomArray[k] /\ ~SameValue(m.settings[k], RomArray[k])}
               n == [m EXCEPT !.settings = RomArray, !.deleted = {}]
    <2>1. CASE ResetRefused(s)
        BY <1>2, <2>1
    <2>2. CASE UNCHANGED <<file, requests>>
        BY <2>2 DEF QuietStep
    <2>3. CASE (Fault("memory") \/ Fault("persist")) /\ file' = file
        BY <2>3 DEF QuietStep, Fault
    <2>4. CASE /\ ~InTransaction(s) /\ EndTransactions(Others(s), {}) /\ Notify(differ)
               /\ file' = [exists |-> TRUE, settings |-> n.settings, deleted |-> n.deleted]
               /\ mem' = [n EXCEPT !.inconsistent = FALSE]
        <3>1. n \in Memory /\ n.settings = RomArray
            BY <1>0, RomArrayType DEF Memory
        <3>2. Saves(s, {}, n, differ) /\ differ \in SUBSET Key
            BY <2>4 DEF Saves
        <3>3. ASSUME NEW k \in Key PROVE k \in differ <=> ValueIn(RomArray, k) # ValueIn(m.settings, k)
            <4>1. m.settings[k] \in StoredEntry \cup {Absent} /\ RomArray[k] \in StoredEntry \cup {Absent}
                BY <1>0, RomArrayType DEF Memory, StoredArray
            <4>2. /\ m.settings[k] # Absent => m.settings[k].val # Absent
                  /\ RomArray[k] # Absent => RomArray[k].val # Absent
                BY <4>1, ValueAssumption DEF StoredEntry
            <4> QED BY <4>2 DEF ValueIn, SameValue
        <3>4. Differences(n.settings, m.settings, differ)
            BY <3>1, <3>3 DEF Differences
        <3> HIDE DEF n, differ
        <3> QED BY <2>4, <3>1, <3>2, <3>4 DEF FileStep
    <2> QED BY <1>5, <2>1, <2>2, <2>3, <2>4 DEF ResetAllL, CommitChanges
<1> QED BY <1>4, <1>5 DEF Reset

\* And so does every step, unless it loses the persists file.
LEMMA NextSaves ==
    ASSUME TypeOK, NoFileIsRom, [Next]_vars
    PROVE  FileStep \/ QuietStep \/ LostStep
<1>1. ASSUME Touch PROVE QuietStep
    BY <1>1 DEF Touch, QuietStep
<1>2. ASSUME UNCHANGED <<file, requests>> PROVE QuietStep
    BY <1>2 DEF QuietStep
<1>3. ASSUME NEW s \in Session, Transact(s) PROVE FileStep \/ QuietStep
    <2>1. ASSUME TransactionCommitL(s) PROVE FileStep \/ QuietStep
        <3>1. pending[s] \in SettingsArray
            BY DEF TypeOK, TxnTypeOK
        <3> QED BY <2>1, <3>1, DoCommitSaves DEF TransactionCommitL
    <2> QED BY <1>1, <1>3, <2>1 DEF Transact, TransactionStart, TransactionCancel, TransactionFail,
                                    FailTransaction
<1>4. ASSUME NEW s \in Session, Write(s) PROVE FileStep \/ QuietStep
    <2>1. PICK ok \in BOOLEAN, p \in SettingsArray : WriteOperationsL(s, ok, p)
        BY <1>4, WriteIsWriteOperation
    <2>2. Touch \/ (~InTransaction(s) /\ DoCommitTransactionSettings(s, {}, p))
        BY <2>1 DEF WriteOperationsL, FailTransaction
    <2> QED BY <1>1, <2>2, DoCommitSaves
<1>5. ASSUME NEW s \in Session, Close(s) \/ Watch(s) PROVE QuietStep
    BY <1>5 DEF Close, Watch, NotifyRequest, NotifyCancel, NotifyCancelAll, QuietStep
<1>6. CASE Restart
    BY <1>6 DEF Restart, QuietStep
<1>7. ASSUME NEW s \in Session, OpenL(s) \/ ReadOperationsL(s) PROVE QuietStep
    BY <1>7 DEF OpenL, ReadOperationsL, FailTransaction, Touch, QuietStep
<1>8. ASSUME \/ \E b \in BurState : TestBURstatusL(b)
             \/ Evict \/ InitialiseGetProxyBackupDataL \/ UNCHANGED vars
      PROVE  QuietStep
    BY <1>8 DEF TestBURstatusL, Evict, InitialiseGetProxyBackupDataL, vars, QuietStep
<1>9. ASSUME NEW s \in Session, RequestFails(s) PROVE QuietStep \/ LostStep
    <2> DEFINE S == {s} \ {t \in Session : ~Active(t)}
    <2>1. EndTransactions(S, {}) /\ requests' = requests
        BY <1>9 DEF RequestFails
    <2>2. S \in SUBSET Session /\ \A t \in S : Active(t)
        OBVIOUS
    <2>3. file' = file \/ (file.exists /\ file' = NoFile)
        BY <1>9, AccessFailsFiles DEF RequestFails
    <2> HIDE DEF S
    <2> QED BY <2>1, <2>2, <2>3 DEF QuietStep, LostStep
<1>10. ASSUME OpenFails(Session) PROVE QuietStep \/ LostStep
    BY <1>10, AccessFailsFiles DEF OpenFails, txnVars, QuietStep, LostStep
<1>11. ASSUME NEW s \in Session, LoadFallsBack(s) PROVE LostStep
    BY <1>11 DEF LoadFallsBack, Connect, txnVars, LostStep
<1> QED BY <1>3, <1>4, <1>5, <1>6, <1>7, <1>8, <1>9, <1>10, <1>11, ResetSaves DEF Next, Steps

\* As long as the file is not lost there are only the first two kinds.
LEMMA KeptFile == ASSUME file.exists => file'.exists PROVE ~LostStep
BY DEF LostStep, NoFile

-----------------------------------------------------------------------------
(* Reads and notifications *)

\* What a session sees is what it wrote, over what the files hold.
Seen(s, k) ==
    IF pending[s][k] = Absent THEN Content[k]
    ELSE IF pending[s][k].val = Deleted THEN Absent ELSE pending[s][k].val

\* Reading goes through the memory, which may have to be loaded or restored.
LEMMA ViewIsSeen ==
    ASSUME TypeOK, CacheCoherent, NEW s \in Session
    PROVE  View(s) = [k \in Key |-> Seen(s, k)]
<1> SUFFICES ASSUME NEW k \in Key
             PROVE  (IF Exists(Accessed, pending[s], k)
                     THEN GetSetting(Accessed, pending[s], k).val ELSE Absent) = Seen(s, k)
    BY DEF View
<1>1. Accessed \in Memory
    BY AccessedType DEF TypeOK
<1>2. Accessed.settings[k] \in StoredEntry \cup {Absent}
    BY <1>1 DEF Memory, StoredArray
<1>3. Accessed.settings[k] # Absent => Accessed.settings[k].val # Deleted
    BY <1>2, ValueAssumption DEF StoredEntry
<1>4. ValueIn(Accessed.settings, k) = Content[k]
    BY AccessedCoherent
<1> HIDE DEF Content
<1> QED BY <1>3, <1>4 DEF Exists, GetSetting, Seen, ValueIn

\* Within a transaction reads are repeatable, whatever is committed, reset,
\* evicted, reloaded or fails meanwhile, under the same provisos.
THEOREM ReadsRepeat == Spec /\ []InfoWhileConnected /\ FileNeverLost => RepeatableReads
<1> DEFINE Views == \A s \in Session : View(s) = [k \in Key |-> Seen(s, k)]
           A == \A s \in Session :
                   Active(s) /\ Active(s)' /\ pending'[s] = pending[s] => View(s)' = View(s)
<1>1. TypeOK /\ CacheCoherent => Views
    BY ViewIsSeen
<1>2. /\ TypeOK /\ LockInv /\ NoFileIsRom /\ Views /\ Views' /\ [Next]_vars
      /\ [file.exists => file'.exists]_vars
      => [A]_vars
    <2> SUFFICES ASSUME TypeOK, LockInv, NoFileIsRom, Views, Views', [Next]_vars,
                        file.exists => file'.exists,
                        NEW s \in Session, Active(s)', pending'[s] = pending[s]
                 PROVE  View(s)' = View(s)
        OBVIOUS
    <2>1. file' = file
        BY FileChangeStep
    <2>2. Content' = Content
        BY <2>1 DEF Content, ValueIn
    <2>3. \A k \in Key : Seen(s, k)' = Seen(s, k)
        BY <2>2 DEF Seen
    <2>4. View(s) = [k \in Key |-> Seen(s, k)] /\ View(s)' = [k \in Key |-> Seen(s, k)']
        OBVIOUS
    <2> HIDE DEF Views
    <2> QED BY <2>3, <2>4
<1> HIDE DEF Views
<1> QED BY <1>1, <1>2, TypeCorrect, CacheCorrect, LocksCorrect, FileForm, PTL
        DEF Spec, RepeatableReads, FileNeverLost

\* The files are written with what the memory held, but for the keys of K.
LEMMA FileStepContent ==
    ASSUME TypeOK, CacheCoherent, NEW s, NEW D, NEW n \in Memory, NEW K \in SUBSET Key,
           Differences(n.settings, Accessed.settings, K), Saves(s, D, n, K), NEW k \in Key
    PROVE  Content'[k] = ValueIn(n.settings, k) /\ (k \in K <=> Content'[k] # Content[k])
<1>1. file'.settings = n.settings
    BY DEF Saves
<1>2. Content'[k] = ValueIn(n.settings, k)
    BY <1>1 DEF Content, ValueIn
<1>3. ValueIn(Accessed.settings, k) = Content[k]
    BY AccessedCoherent
<1> HIDE DEF Content
<1> QED BY <1>2, <1>3 DEF Differences

\* A client that waits on a key is told of every change of it, provided the
\* persists file is never deleted.
THEOREM ChangesAreNotified == Spec /\ FileNeverLost => ChangesNotified
<1> DEFINE A == \A k \in Key : Content'[k] # Content[k] =>
                   \A s \in Session : \A f \in requests'[s] : k \notin f
<1>1. /\ TypeOK /\ CacheCoherent /\ NoFileIsRom /\ [Next]_vars
      /\ [file.exists => file'.exists]_vars
      => [A]_vars
    <2> SUFFICES ASSUME TypeOK, CacheCoherent, NoFileIsRom, [Next]_vars,
                        file.exists => file'.exists,
                        NEW k \in Key, Content'[k] # Content[k],
                        NEW t \in Session, NEW f \in requests'[t]
                 PROVE  k \notin f
        OBVIOUS
    <2>1. FileStep
        <3>1. file' # file
            BY DEF Content, ValueIn
        <3> QED BY <3>1, NextSaves, KeptFile DEF QuietStep
    <2>2. PICK s \in Session, n \in Memory, K \in SUBSET Key :
              /\ Differences(n.settings, Accessed.settings, K)
              /\ Saves(s, {s}, n, K) \/ Saves(s, {}, n, K)
        BY <2>1 DEF FileStep
    <2>3. k \in K
        BY <2>2, FileStepContent
    <2>4. requests' = [u \in Session |-> {g \in requests[u] : g \cap K = {}}]
        BY <2>2 DEF Saves, Notify
    <2> QED BY <2>3, <2>4
<1> QED BY <1>1, TypeCorrect, CacheCorrect, FileForm, PTL DEF Spec, ChangesNotified, FileNeverLost

\* Where neither writing nor memory fails, a notification says that one of the
\* keys of its request has changed.
THEOREM NotificationsAreTrue ==
    ASSUME FaultKind \cap {"persist", "memory"} = {}
    PROVE  Spec /\ FileNeverLost => NotifiedMeansChanged
<1> DEFINE A == \A s \in Session : \A f \in requests[s] \ requests'[s] :
                   \/ \E k \in f : Content'[k] # Content[k]
                   \/ NotifyCancel(s, f) \/ NotifyCancelAll(s) \/ s \notin connected'
<1>1. /\ TypeOK /\ CacheCoherent /\ NoFileIsRom /\ [Next]_vars
      /\ [file.exists => file'.exists]_vars
      => [A]_vars
    <2> SUFFICES ASSUME TypeOK, CacheCoherent, NoFileIsRom, [Next]_vars,
                        file.exists => file'.exists,
                        NEW t \in Session, NEW f \in requests[t], f \notin requests'[t]
                 PROVE  \/ \E k \in f : Content'[k] # Content[k]
                        \/ NotifyCancel(t, f) \/ NotifyCancelAll(t) \/ t \notin connected'
        OBVIOUS
    <2>0. requests \in [Session -> SUBSET Filter]
        BY DEF TypeOK, StoreTypeOK
    <2>1. CASE FileStep
        <3>1. PICK s \in Session, n \in Memory, K \in SUBSET Key :
                  /\ Differences(n.settings, Accessed.settings, K)
                  /\ Saves(s, {s}, n, K) \/ Saves(s, {}, n, K)
            BY <2>1 DEF FileStep
        <3>2. requests' = [u \in Session |-> {g \in requests[u] : g \cap K = {}}]
            BY <3>1 DEF Saves, Notify
        <3>3. PICK k \in f : k \in K
            BY <3>2
        <3>4. Content'[k] # Content[k]
            BY <3>1, <3>3, FileStepContent
        <3> QED BY <3>4
    <2>2. ASSUME NEW s \in Session, Close(s) PROVE t \notin connected'
        <3>1. requests' = [requests EXCEPT ![s] = {}] /\ connected' = connected \ {s}
            BY <2>2 DEF Close
        <3> QED BY <2>0, <3>1
    <2>3. ASSUME NEW s \in Session, Watch(s) PROVE NotifyCancel(t, f) \/ NotifyCancelAll(t)
        <3>1. ASSUME NEW g \in Filter, NotifyRequest(s, g) PROVE FALSE
            BY <2>0, <3>1 DEF NotifyRequest
        <3>2. ASSUME NEW g \in Filter, NotifyCancel(s, g) PROVE NotifyCancel(t, f)
            <4>1. requests' = [requests EXCEPT ![s] = requests[s] \ {g}]
                BY <3>2 DEF NotifyCancel
            <4>2. s = t /\ g = f
                BY <2>0, <4>1
            <4> QED BY <3>2, <4>2
        <3>3. ASSUME NotifyCancelAll(s) PROVE NotifyCancelAll(t)
            <4>1. requests' = [requests EXCEPT ![s] = {}]
                BY <3>3 DEF NotifyCancelAll
            <4>2. s = t
                BY <2>0, <4>1
            <4> QED BY <3>3, <4>2
        <3> QED BY <2>3, <3>1, <3>2, <3>3 DEF Watch
    <2>4. CASE Restart
        BY <2>4 DEF Restart
    <2> QED BY <2>1, <2>2, <2>3, <2>4, NextSaves, KeptFile DEF QuietStep
<1> QED BY <1>1, TypeCorrect, CacheCorrect, FileForm, PTL DEF Spec, NotifiedMeansChanged, FileNeverLost

-----------------------------------------------------------------------------
(* The deleted list, when nothing fails and no setting is moved *)

\* Entries of keys that are backed up are marked for it.
Backed(a) == \A k \in BackupKey : a[k] # Absent => a[k].backup

\* The deleted list d goes with the settings a: what it names is not there,
\* and it names what the ROM has for backup and is not there any more.
Fitting(a, d) ==
    /\ Backed(a)
    /\ \A k \in d : a[k] = Absent
    /\ \A k \in BackupKey : Rom[k] # Absent /\ a[k] = Absent => k \in d

\* The inductive invariant: what a commit records depends on the marks of the
\* settings, and those of a setting may come from a transaction.
SoundLists ==
    /\ ~mem.inconsistent /\ MemoryIsFile
    /\ Fitting(file.settings, file.deleted)
    /\ \A s \in Session : Backed(pending[s])

\* A request finds what the files hold.
LEMMA AccessedSound ==
    ASSUME TypeOK, SoundLists
    PROVE  /\ Accessed \in Memory /\ ~Accessed.inconsistent /\ AccessOK
           /\ Accessed.settings = file.settings /\ Accessed.deleted = file.deleted
<1>1. Accessed \in Memory
    BY AccessedType DEF TypeOK
<1> QED BY <1>1 DEF SoundLists, MemoryIsFile, Accessed, AccessOK, DuplicateDeleted

\* The ways a step can change the settings in memory and the files.
SoundStep ==
    \/ mem' \in {mem, Accessed, Closed} /\ file' = file
    \/ \E n \in Memory : Fitting(n.settings, n.deleted) /\ CommitChanges(n)

\* A merge keeps the deleted list in step, and meets no deleted key twice.
LEMMA MergeFits ==
    ASSUME NEW m \in Memory, NEW p \in SettingsArray, Fitting(m.settings, m.deleted), Backed(p)
    PROVE  /\ MergeClash(m, p) = {}
           /\ Fitting(MergedSettings(m, p), MergedDeleted(m, p, Key))
<1>1. \A k \in Key : m.settings[k] \in StoredEntry \cup {Absent} /\ p[k] \in Entry \cup {Absent}
    BY DEF Memory, StoredArray, SettingsArray
<1>2. m.deleted \subseteq Key /\ BackupKey \subseteq Key
    BY PolicyAssumption DEF Memory
<1>3. ASSUME NEW k \in Key
      PROVE  /\ k \in Changed(m, p) => p[k] # Absent
             /\ k \in Changed(m, p) /\ p[k].val = Deleted => m.settings[k] # Absent
             /\ MergedSettings(m, p)[k] = IF k \notin Changed(m, p) THEN m.settings[k]
                                          ELSE IF p[k].val = Deleted THEN Absent ELSE p[k]
             /\ k \in MergedDeleted(m, p, Key) <=>
                   \/ /\ k \in m.deleted
                      /\ ~(k \in Changed(m, p) /\ p[k].val # Deleted /\ m.settings[k] = Absent)
                   \/ k \in Changed(m, p) /\ p[k].val = Deleted /\ m.settings[k].backup
    BY DEF Changed, MergedSettings, MergedDeleted
<1>4. MergeClash(m, p) = {}
    BY <1>3 DEF MergeClash, Fitting, Changed
<1>5. Backed(MergedSettings(m, p))
    BY <1>2, <1>3 DEF Backed, Fitting
<1>6. \A k \in MergedDeleted(m, p, Key) : MergedSettings(m, p)[k] = Absent
    <2> TAKE k \in MergedDeleted(m, p, Key)
    <2>1. k \in Key
        BY <1>2 DEF MergedDeleted, Changed
    <2>2. k \in m.deleted => m.settings[k] = Absent
        BY DEF Fitting
    <2> QED BY <1>3, <2>1, <2>2
<1>7. \A k \in BackupKey : Rom[k] # Absent /\ MergedSettings(m, p)[k] = Absent =>
          k \in MergedDeleted(m, p, Key)
    <2> SUFFICES ASSUME NEW k \in BackupKey, Rom[k] # Absent, MergedSettings(m, p)[k] = Absent
                 PROVE  k \in MergedDeleted(m, p, Key)
        OBVIOUS
    <2>1. k \in Key /\ (m.settings[k] = Absent => k \in m.deleted)
          /\ (m.settings[k] # Absent => m.settings[k].backup)
        BY <1>2 DEF Fitting, Backed
    <2> QED BY <1>3, <2>1
<1> QED BY <1>4, <1>5, <1>6, <1>7 DEF Fitting

\* So a commit of transaction settings is such a step.
LEMMA DoCommitSound ==
    ASSUME TypeOK, SoundLists, FaultKind = {}, NEW s, NEW D, NEW p \in SettingsArray, Backed(p),
           DoCommitTransactionSettings(s, D, p)
    PROVE  SoundStep
<1> DEFINE m == Accessed
           n == [m EXCEPT !.settings = MergedSettings(m, p), !.deleted = MergedDeleted(m, p, Key)]
<1>1. m \in Memory /\ Fitting(m.settings, m.deleted)
    BY AccessedSound DEF SoundLists
<1>2. MergeClash(m, p) = {} /\ Fitting(MergedSettings(m, p), MergedDeleted(m, p, Key))
    BY <1>1, MergeFits
<1>3. /\ n \in Memory /\ n.settings = MergedSettings(m, p) /\ n.deleted = MergedDeleted(m, p, Key)
    BY <1>1, MergedSettingsType, MergedDeletedType DEF Memory
<1>4. CASE Touch
    BY <1>4 DEF Touch, SoundStep
<1>5. CASE \E K : CommitAndNotify(n, K)
    BY <1>2, <1>3, <1>5 DEF CommitAndNotify, SoundStep
<1>6. CASE \E stop : IF stop \in MergeClash(m, p) THEN UNCHANGED faults ELSE Fault("memory")
    BY <1>2, <1>6 DEF Fault
<1> QED BY <1>4, <1>5, <1>6 DEF DoCommitTransactionSettings

\* The ROM file needs no deleted list.
LEMMA RomFits == Fitting(RomArray, {}) /\ \A k \in Key : RomArray[k] = Absent <=> Rom[k] = Absent
<1>1. \A k \in Key : RomArray[k] = IF Rom[k] = Absent THEN Absent ELSE RomEntry(k)
    BY DEF RomArray
<1>2. ASSUME NEW k \in Key, Rom[k] # Absent PROVE RomEntry(k) \in StoredEntry
    BY <1>2, RomAssumption DEF RomEntry, StoredEntry
<1>3. \A k \in Key : RomArray[k] = Absent <=> Rom[k] = Absent
    BY <1>1, <1>2, AbsentIsNoEntry
<1>4. Backed(RomArray)
    <2> SUFFICES ASSUME NEW k \in BackupKey, RomArray[k] # Absent PROVE RomArray[k].backup
        BY DEF Backed
    <2>1. k \in Key
        BY PolicyAssumption
    <2>2. RomArray[k] = RomEntry(k)
        BY <1>1, <2>1
    <2>3. RomEntry(k).backup = (k \in BackupKey)
        BY DEF RomEntry
    <2> QED BY <2>2, <2>3
<1> QED BY <1>3, <1>4, PolicyAssumption DEF Fitting

\* So is a reset.
LEMMA ResetSound ==
    ASSUME TypeOK, SoundLists, FaultKind = {}, NEW s \in Session, Reset(s)
    PROVE  SoundStep
<1> DEFINE m == Accessed
<1>1. m \in Memory /\ Fitting(m.settings, m.deleted)
    BY AccessedSound DEF SoundLists
<1>2. CASE Touch
    BY <1>2 DEF Touch, SoundStep
<1>3. ASSUME ResetRefused(s) PROVE SoundStep
    BY <1>2, <1>3 DEF ResetRefused, FailTransaction
<1>4. CASE CommitChanges([m EXCEPT !.settings = RomArray, !.deleted = {}])
    <2> DEFINE n == [m EXCEPT !.settings = RomArray, !.deleted = {}]
    <2>1. n \in Memory /\ n.settings = RomArray /\ n.deleted = {}
        BY <1>1, RomArrayType DEF Memory
    <2> HIDE DEF n
    <2>2. Fitting(n.settings, n.deleted)
        BY <2>1, RomFits
    <2> QED BY <1>4, <2>1, <2>2 DEF SoundStep, n
<1>5. ASSUME NEW k \in Key, NEW K,
             CommitAndNotify([m EXCEPT !.settings[k] = RomArray[k],
                                       !.deleted = IF m.settings[k] = Absent
                                                   THEN m.deleted \ {k} ELSE m.deleted], K)
      PROVE  SoundStep
    <2> DEFINE n == [m EXCEPT !.settings[k] = RomArray[k],
                              !.deleted = IF m.settings[k] = Absent
                                          THEN m.deleted \ {k} ELSE m.deleted]
    <2>1. [m.settings EXCEPT ![k] = RomArray[k]] \in StoredArray
        BY <1>1, RomArrayType DEF Memory, StoredArray
    <2>2. /\ n \in Memory /\ n.settings = [m.settings EXCEPT ![k] = RomArray[k]]
          /\ n.deleted = IF m.settings[k] = Absent THEN m.deleted \ {k} ELSE m.deleted
        BY <1>1, <2>1 DEF Memory
    <2>3. n.settings[k] = RomArray[k] /\ \A j \in Key \ {k} : n.settings[j] = m.settings[j]
        BY <1>1, <2>2 DEF Memory, StoredArray
    <2>4. CommitChanges(n)
        BY <1>5 DEF CommitAndNotify
    <2>5. m.deleted \subseteq Key /\ BackupKey \subseteq Key
        BY <1>1, PolicyAssumption DEF Memory
    <2> HIDE DEF n
    <2>6. Backed(n.settings)
        BY <1>1, <2>3, <2>5, RomFits DEF Fitting, Backed
    <2>7. \A j \in n.deleted : n.settings[j] = Absent
        BY <1>1, <2>2, <2>3, <2>5 DEF Fitting
    <2>8. \A j \in BackupKey : Rom[j] # Absent /\ n.settings[j] = Absent => j \in n.deleted
        BY <1>1, <2>2, <2>3, <2>5, RomFits DEF Fitting
    <2>9. Fitting(n.settings, n.deleted)
        BY <2>6, <2>7, <2>8 DEF Fitting
    <2> QED BY <2>2, <2>4, <2>9 DEF SoundStep
<1>6. ASSUME ResetAllL(s) PROVE SoundStep
    BY <1>3, <1>4, <1>6 DEF ResetAllL, Fault
<1>7. ASSUME NEW k \in Key, ResetL(s, k) PROVE SoundStep
    BY <1>2, <1>3, <1>5, <1>7 DEF ResetL
<1> QED BY <1>6, <1>7 DEF Reset

\* A write without moves leaves marked entries in the transaction.
LEMMA WriteBacked ==
    ASSUME TypeOK, SoundLists, Moves = {}, NEW s \in Session, Write(s)
    PROVE  \E ok \in BOOLEAN, p \in SettingsArray : Backed(p) /\ WriteOperationsL(s, ok, p)
<1> DEFINE m == Accessed
           p == pending[s]
<1>1. m \in Memory /\ p \in SettingsArray /\ Backed(m.settings) /\ Backed(p)
    BY AccessedSound DEF TypeOK, TxnTypeOK, SoundLists, Fitting
<1>2. BackupKey \subseteq Key
    BY PolicyAssumption
<1>3. ASSUME NEW k \in BackupKey, GetSetting(m, p, k) # Absent PROVE GetSetting(m, p, k).backup
    BY <1>1, <1>3 DEF GetSetting, Backed
<1>4. ASSUME NEW k \in BackupKey, GetSetting(m, p, k) # Absent
      PROVE  Placeholder(GetSetting(m, p, k)).backup
    <2>1. GetSetting(m, p, k) \in Entry
        BY <1>1, <1>2, <1>4, GetSettingType
    <2>2. Placeholder(GetSetting(m, p, k)).backup = GetSetting(m, p, k).backup
        BY <2>1 DEF Placeholder, Entry
    <2> QED BY <1>3, <1>4, <2>2
<1>5. ASSUME NEW k \in Key, NEW v \in Value PROVE Backed(PutSetting(m, p, k, v))
    <2> DEFINE q == PutSetting(m, p, k, v)
    <2> SUFFICES ASSUME NEW j \in BackupKey, q[j] # Absent PROVE q[j].backup
        BY DEF Backed
    <2>1. CASE j # k
        BY <1>1, <1>2, <2>1 DEF PutSetting, SettingsArray, Backed
    <2>2. CASE j = k
        <3>1. q[k].backup = IF GetSetting(m, p, k) = Absent THEN k \in BackupKey
                            ELSE GetSetting(m, p, k).backup
            BY <1>1 DEF PutSetting, SettingsArray
        <3>2. CASE GetSetting(m, p, k) = Absent
            BY <2>2, <3>1, <3>2
        <3>3. CASE GetSetting(m, p, k) # Absent
            BY <1>3, <2>2, <3>1, <3>3
        <3> QED BY <3>2, <3>3
    <2> QED BY <2>1, <2>2
<1>6. ASSUME NEW k \in Key PROVE Backed(DeleteSetting(m, p, k))
    <2>1. CASE ~Exists(m, p, k)
        BY <1>1, <2>1 DEF DeleteSetting
    <2>2. CASE Exists(m, p, k)
        <3>1. DeleteSetting(m, p, k) = [p EXCEPT ![k] = Placeholder(GetSetting(m, p, k))]
            BY <2>2 DEF DeleteSetting
        <3>2. GetSetting(m, p, k) # Absent
            BY <2>2 DEF Exists
        <3> QED BY <1>1, <1>2, <1>4, <3>1, <3>2 DEF Backed, SettingsArray
    <2> QED BY <2>1, <2>2
<1>7. ASSUME NEW K PROVE Backed(DeleteSettingsRange(m, p, K))
    <2> DEFINE hit == Inserted(m, p, K) \cup UNION {Designated(m, p, K, k) : k \in Own(p, K)}
    <2>1. ASSUME NEW k \in hit PROVE GetSetting(m, p, k) # Absent
        <3>1. p[k] # Absent \/ k \in Inserted(m, p, K)
            BY <2>1 DEF Designated
        <3> QED BY <3>1 DEF GetSetting, Inserted
    <2> HIDE DEF hit
    <2>2. DeleteSettingsRange(m, p, K)
              = [k \in Key |-> IF k \in hit THEN Placeholder(GetSetting(m, p, k)) ELSE p[k]]
        BY DEF DeleteSettingsRange, hit
    <2>3. \A k \in BackupKey : DeleteSettingsRange(m, p, K)[k]
              = IF k \in hit THEN Placeholder(GetSetting(m, p, k)) ELSE p[k]
        BY <1>2, <2>2
    <2> QED BY <1>1, <1>4, <2>1, <2>3 DEF Backed
<1>8. ASSUME NEW k \in Key, NEW v \in Value, SetL(s, k, v) \/ CreateL(s, k, v)
      PROVE  \E ok \in BOOLEAN, q \in SettingsArray : Backed(q) /\ WriteOperationsL(s, ok, q)
    <2>1. PutSetting(m, p, k, v) \in SettingsArray /\ Backed(PutSetting(m, p, k, v))
        BY <1>1, <1>5, PutSettingType
    <2>2. CASE SetL(s, k, v)
        BY <2>1, <2>2 DEF SetL
    <2>3. CASE CreateL(s, k, v)
        BY <2>1, <2>3 DEF CreateL
    <2> QED BY <1>8, <2>2, <2>3
<1>9. ASSUME NEW k \in Key, DeleteL(s, k)
      PROVE  \E ok \in BOOLEAN, q \in SettingsArray : Backed(q) /\ WriteOperationsL(s, ok, q)
    BY <1>1, <1>6, <1>9, DeleteSettingType DEF DeleteL
<1>10. ASSUME NEW K \in KeyRange, DeleteRangeL(s, K)
      PROVE  \E ok \in BOOLEAN, q \in SettingsArray : Backed(q) /\ WriteOperationsL(s, ok, q)
    <2>1. DeleteSettingsRange(m, p, K) \in SettingsArray /\ Backed(DeleteSettingsRange(m, p, K))
        BY <1>1, <1>7, DeleteSettingsRangeType
    <2> QED BY <1>1, <1>10, <2>1 DEF DeleteRangeL
<1> QED BY <1>8, <1>9, <1>10 DEF Write

\* So every step is one of those above.
LEMMA NextSound ==
    ASSUME TypeOK, SoundLists, FaultKind = {}, Moves = {}, [Next]_vars
    PROVE  SoundStep
<1>1. CASE Touch
    BY <1>1 DEF Touch, SoundStep
<1>2. CASE mem' \in {mem, Accessed, Closed} /\ file' = file
    BY <1>2 DEF SoundStep
<1>3. ~AccessFails
    BY AccessedSound DEF AccessFails, Fault
<1>4. ASSUME NEW s \in Session, Transact(s) PROVE SoundStep
    <2>1. ASSUME TransactionCommitL(s) PROVE SoundStep
        <3>1. pending[s] \in SettingsArray /\ Backed(pending[s])
            BY DEF TypeOK, TxnTypeOK, SoundLists
        <3> QED BY <2>1, <3>1, DoCommitSound DEF TransactionCommitL
    <2> QED BY <1>1, <1>4, <2>1 DEF Transact, TransactionStart, TransactionCancel, TransactionFail,
                                    FailTransaction
<1>5. ASSUME NEW s \in Session, Write(s) PROVE SoundStep
    <2>1. PICK ok \in BOOLEAN, p \in SettingsArray : Backed(p) /\ WriteOperationsL(s, ok, p)
        BY <1>5, WriteBacked
    <2>2. Touch \/ DoCommitTransactionSettings(s, {}, p)
        BY <2>1 DEF WriteOperationsL, FailTransaction
    <2> QED BY <1>1, <2>1, <2>2, DoCommitSound
<1>6. ASSUME NEW s \in Session, \/ OpenL(s) \/ LoadFallsBack(s) \/ Close(s) \/ RequestFails(s)
                                \/ ReadOperationsL(s) \/ Watch(s)
      PROVE  SoundStep
    BY <1>1, <1>2, <1>3, <1>6
       DEF OpenL, LoadFallsBack, Close, RequestFails, Fault, ReadOperationsL, FailTransaction,
           Watch, NotifyRequest, NotifyCancel, NotifyCancelAll
<1>7. ASSUME \/ \E b \in BurState : TestBURstatusL(b)
             \/ OpenFails(Session) \/ Evict \/ InitialiseGetProxyBackupDataL \/ Restart \/ UNCHANGED vars
      PROVE  SoundStep
    BY <1>2, <1>3, <1>7
       DEF OpenFails, TestBURstatusL, Evict, InitialiseGetProxyBackupDataL, Restart, vars
<1> QED BY <1>4, <1>5, <1>6, <1>7, ResetSound DEF Next, Steps

\* What a transaction notes down stays marked.
LEMMA PendingBacked ==
    ASSUME TypeOK, SoundLists, Moves = {}, [Next]_vars, NEW t \in Session
    PROVE  Backed(pending'[t])
<1>0. Backed(EmptyArray) /\ Backed(pending[t]) /\ pending \in [Session -> SettingsArray]
    BY PolicyAssumption DEF Backed, EmptyArray, SoundLists, TypeOK, TxnTypeOK
<1>1. ASSUME NEW S, NEW D, EndTransactions(S, D) PROVE Backed(pending'[t])
    <2>1. pending'[t] = EmptyArray \/ pending'[t] = pending[t]
        BY <1>1 DEF EndTransactions
    <2> QED BY <1>0, <2>1
<1>2. CASE pending' = pending
    BY <1>0, <1>2
<1>3. ASSUME NEW s \in Session, NEW md, StartTransaction(s, md) PROVE Backed(pending'[t])
    <2>1. pending'[t] = EmptyArray \/ pending'[t] = pending[t]
        BY <1>0, <1>3 DEF StartTransaction
    <2> QED BY <1>0, <2>1
<1>4. ASSUME NEW s, NEW D, NEW p, DoCommitTransactionSettings(s, D, p) PROVE Backed(pending'[t])
    BY <1>1, <1>4 DEF DoCommitTransactionSettings
<1>5. ASSUME NEW s \in Session, Write(s) PROVE Backed(pending'[t])
    <2>1. PICK ok \in BOOLEAN, p \in SettingsArray : Backed(p) /\ WriteOperationsL(s, ok, p)
        BY <1>5, WriteBacked
    <2>2. ASSUME KeepSettings(s, p) PROVE Backed(pending'[t])
        BY <1>0, <2>1, <2>2 DEF KeepSettings
    <2>3. ASSUME FailTransaction(s) PROVE Backed(pending'[t])
        BY <1>1, <2>3 DEF FailTransaction
    <2> QED BY <1>2, <1>4, <2>1, <2>2, <2>3 DEF WriteOperationsL, txnVars
<1>6. ASSUME NEW s \in Session, Transact(s) PROVE Backed(pending'[t])
    BY <1>1, <1>2, <1>3, <1>4, <1>6
       DEF Transact, TransactionStart, TransactionCommitL, TransactionCancel, TransactionFail,
           FailTransaction, txnVars
<1>7. ASSUME NEW s \in Session, Reset(s) \/ ReadOperationsL(s) PROVE Backed(pending'[t])
    BY <1>1, <1>2, <1>7
       DEF Reset, ResetAllL, ResetL, ResetRefused, ReadOperationsL, FailTransaction, txnVars
<1>8. ASSUME NEW s \in Session, OpenL(s) \/ LoadFallsBack(s) \/ Close(s) \/ RequestFails(s) \/ Watch(s)
      PROVE  Backed(pending'[t])
    BY <1>1, <1>2, <1>8
       DEF OpenL, LoadFallsBack, Connect, Close, RequestFails, Watch, NotifyRequest, NotifyCancel, NotifyCancelAll, txnVars
<1>9. ASSUME \/ \E b \in BurState : TestBURstatusL(b)
             \/ OpenFails(Session) \/ Evict \/ InitialiseGetProxyBackupDataL \/ Restart \/ UNCHANGED vars
      PROVE  Backed(pending'[t])
    BY <1>1, <1>2, <1>9
       DEF OpenFails, TestBURstatusL, Evict, InitialiseGetProxyBackupDataL, Restart, vars, txnVars
<1> QED BY <1>5, <1>6, <1>7, <1>8, <1>9 DEF Next, Steps

\* The invariant behind the deleted list, when nothing fails and nothing moves.
THEOREM ListsSound == ASSUME FaultKind = {}, Moves = {} PROVE Spec => []SoundLists
<1>1. Init => SoundLists
    <2> SUFFICES ASSUME Init PROVE SoundLists
        OBVIOUS
    <2>1. mem = Closed /\ file = NoFile /\ \A s \in Session : pending[s] = EmptyArray
        BY DEF Init
    <2>2. Backed(EmptyArray)
        BY PolicyAssumption DEF Backed, EmptyArray
    <2>3. file.settings = RomArray /\ file.deleted = {} /\ ~mem.open /\ ~mem.inconsistent
        BY <2>1 DEF NoFile, Closed
    <2> QED BY <2>1, <2>2, <2>3, RomFits DEF SoundLists, MemoryIsFile
<1>2. TypeOK /\ SoundLists /\ [Next]_vars => SoundLists'
    <2> SUFFICES ASSUME TypeOK, SoundLists, [Next]_vars PROVE SoundLists'
        OBVIOUS
    <2>1. SoundStep /\ \A t \in Session : Backed(pending'[t])
        BY NextSound, PendingBacked
    <2>2. Fitting(file.settings, file.deleted) /\ ~mem.inconsistent /\ MemoryIsFile
        BY DEF SoundLists
    <2>3. CASE mem' \in {mem, Accessed, Closed} /\ file' = file
        <3>1. /\ ~mem'.inconsistent
              /\ mem'.open => mem'.settings = file.settings /\ mem'.deleted = file.deleted
            BY <2>2, <2>3, AccessedSound DEF Closed, MemoryIsFile
        <3>2. Fitting(file'.settings, file'.deleted)
            BY <2>2, <2>3
        <3> QED BY <2>1, <2>3, <3>1, <3>2 DEF SoundLists, MemoryIsFile, Fitting, Backed
    <2>4. ASSUME NEW n \in Memory, Fitting(n.settings, n.deleted), CommitChanges(n)
          PROVE  SoundLists'
        <3>1. /\ file' = [exists |-> TRUE, settings |-> n.settings, deleted |-> n.deleted]
              /\ mem' = [n EXCEPT !.inconsistent = FALSE]
            BY <2>4 DEF CommitChanges, Fault
        <3>2. /\ ~mem'.inconsistent /\ mem'.settings = file'.settings /\ mem'.deleted = file'.deleted
              /\ file'.settings = n.settings /\ file'.deleted = n.deleted
            BY <3>1 DEF Memory
        <3> QED BY <2>1, <2>4, <3>2 DEF SoundLists, MemoryIsFile, Fitting, Backed
    <2> QED BY <2>1, <2>3, <2>4 DEF SoundStep
<1> QED BY <1>1, <1>2, TypeCorrect, PTL DEF Spec

\* The values of a stored array are not absent.
LEMMA AbsentValue ==
    ASSUME NEW a \in StoredArray, NEW k \in Key
    PROVE  ValueIn(a, k) = Absent <=> a[k] = Absent
<1>1. a[k] \in StoredEntry \cup {Absent}
    BY DEF StoredArray
<1>2. a[k] # Absent => a[k].val \in Value
    BY <1>1 DEF StoredEntry
<1> QED BY <1>2, ValueAssumption DEF ValueIn

\* When nothing fails and nothing is moved, memory that can be used is what the
\* file holds, with its metadata and its deleted list.
THEOREM MemoryFollowsFile == ASSUME FaultKind = {}, Moves = {} PROVE Spec => []MemoryIsFile
<1>1. SoundLists => MemoryIsFile
    BY DEF SoundLists
<1> QED BY <1>1, ListsSound, PTL

\* Then, too, a ROM setting marked for backup that is gone is in the deleted
\* list, from which a restore learns of it.
THEOREM DeletionsAreRecorded == ASSUME FaultKind = {}, Moves = {} PROVE Spec => []DeletionsRecorded
<1>1. TypeOK /\ SoundLists => DeletionsRecorded
    <2> SUFFICES ASSUME TypeOK, SoundLists, NEW k \in BackupKey, Rom[k] # Absent, Content[k] = Absent
                 PROVE  k \in file.deleted
        BY DEF DeletionsRecorded
    <2>1. k \in Key /\ file.settings \in StoredArray
        BY PolicyAssumption DEF TypeOK, StoreTypeOK, File
    <2>2. file.settings[k] = Absent
        BY <2>1, AbsentValue DEF Content
    <2> QED BY <2>2 DEF SoundLists, Fitting
<1> QED BY <1>1, TypeCorrect, ListsSound, PTL

\* And no setting that exists is in the deleted list: a restore deletes nothing
\* that was there.
THEOREM DeletedStayAbsent == ASSUME FaultKind = {}, Moves = {} PROVE Spec => []DeletedAreAbsent
<1>1. TypeOK /\ SoundLists => DeletedAreAbsent
    <2> SUFFICES ASSUME TypeOK, SoundLists, NEW k \in file.deleted
                 PROVE  Content[k] = Absent
        BY DEF DeletedAreAbsent
    <2>1. k \in Key /\ file.settings \in StoredArray
        BY DEF TypeOK, StoreTypeOK, File
    <2>2. file.settings[k] = Absent
        BY DEF SoundLists, Fitting
    <2> QED BY <2>1, <2>2 DEF Content, ValueIn
<1> QED BY <1>1, TypeCorrect, ListsSound, PTL

-----------------------------------------------------------------------------
(* When the shared transaction information is there *)

\* Only an open that fails takes it away from others.
LEMMA StepsKeepInfo ==
    ASSUME TypeOK, InfoWhileConnected, [Steps]_vars
    PROVE  InfoWhileConnected'
<1>1. CASE UNCHANGED <<connected, infoPresent>>
    BY <1>1 DEF InfoWhileConnected
<1>2. ASSUME NEW s \in Session, OpenL(s) \/ LoadFallsBack(s) \/ Close(s) PROVE InfoWhileConnected'
    BY <1>2 DEF OpenL, LoadFallsBack, Connect, Close, InfoWhileConnected
<1>3. ASSUME InitialiseGetProxyBackupDataL \/ Restart PROVE InfoWhileConnected'
    BY <1>3 DEF InitialiseGetProxyBackupDataL, Restart, InfoWhileConnected
<1>4. ASSUME NEW s \in Session, \/ RequestFails(s) \/ Transact(s) \/ ReadOperationsL(s)
                                \/ Reset(s) \/ Watch(s)
      PROVE  UNCHANGED <<connected, infoPresent>>
    BY <1>4 DEF RequestFails, Transact, TransactionStart, TransactionCommitL, TransactionCancel,
                TransactionFail, ReadOperationsL, Reset, ResetL, ResetAllL, Watch, NotifyRequest,
                NotifyCancel, NotifyCancelAll, Request
<1>5. ASSUME NEW s \in Session, Write(s) PROVE UNCHANGED <<connected, infoPresent>>
    <2>1. PICK ok \in BOOLEAN, p \in SettingsArray : WriteOperationsL(s, ok, p)
        BY <1>5, WriteIsWriteOperation
    <2> QED BY <2>1 DEF WriteOperationsL, Request
<1>6. ASSUME (\E b \in BurState : TestBURstatusL(b)) \/ Evict \/ UNCHANGED vars
      PROVE  UNCHANGED <<connected, infoPresent>>
    BY <1>6 DEF TestBURstatusL, Evict, vars
<1> QED BY <1>1, <1>2, <1>3, <1>4, <1>5, <1>6 DEF Steps

\* If the files can always be read, and the persists file is never deleted,
\* every connected client finds the shared information it needs.
THEOREM InfoKept ==
    ASSUME FaultKind \cap {"load", "read"} = {}
    PROVE  Spec /\ FileNeverLost => []InfoWhileConnected
<1>1. Init => InfoWhileConnected
    BY DEF Init, InfoWhileConnected
<1>2. /\ TypeOK /\ NoFileIsRom /\ InfoWhileConnected /\ [Next]_vars
      /\ [file.exists => file'.exists]_vars
      => InfoWhileConnected'
    <2> SUFFICES ASSUME TypeOK, NoFileIsRom, InfoWhileConnected, [Next]_vars,
                        file.exists => file'.exists \/ UNCHANGED vars
                 PROVE  InfoWhileConnected'
        OBVIOUS
    <2>1. ASSUME OpenFails(Session) PROVE FALSE
        <3>1. ~AccessOK /\ file' = NoFile
            BY <2>1 DEF OpenFails, AccessFails, Fault
        <3>2. file.deleted # {}
            BY <3>1 DEF AccessOK, DuplicateDeleted
        <3>3. file.exists /\ file' # file
            BY <3>1, <3>2 DEF NoFileIsRom, NoFile
        <3> QED BY <3>1, <3>3 DEF vars, NoFile
    <2>2. [Steps]_vars
        BY <2>1 DEF Next
    <2> QED BY <2>2, StepsKeepInfo
<1> QED BY <1>1, <1>2, TypeCorrect, FileForm, PTL DEF Spec, FileNeverLost

\* Where no opening fails under another client's feet they all find it, whatever
\* else fails.
LEMMA InfoShared == SharedInfoSpec => Spec /\ []InfoWhileConnected
<1>1. Init => InfoWhileConnected
    BY DEF Init, InfoWhileConnected
<1>2. [Steps \/ OpenFails({})]_vars => [Next]_vars
    <2>1. OpenFails({}) => OpenFails(Session)
        BY DEF OpenFails
    <2> QED BY <2>1 DEF Next
<1>3. /\ TypeOK /\ InfoWhileConnected /\ [Steps \/ OpenFails({})]_vars
      => InfoWhileConnected'
    <2> SUFFICES ASSUME TypeOK, InfoWhileConnected, [Steps \/ OpenFails({})]_vars
                 PROVE  InfoWhileConnected'
        OBVIOUS
    <2>1. CASE OpenFails({})
        BY <2>1 DEF OpenFails, InfoWhileConnected
    <2>2. CASE Steps \/ UNCHANGED vars
        BY <2>2, StepsKeepInfo
    <2> QED BY <2>1, <2>2
<1> QED BY <1>1, <1>2, <1>3, TypeCorrect, PTL DEF Spec, SharedInfoSpec

\* Where nothing fails and nothing is moved the provisos of the theorems above
\* hold: no file is lost and the shared information is always there.
THEOREM ProvisosHold ==
    ASSUME FaultKind = {}, Moves = {} PROVE Spec => FileNeverLost /\ []InfoWhileConnected
<1>1. TypeOK /\ NoFileIsRom /\ SoundLists /\ [Next]_vars => [file.exists => file'.exists]_vars
    <2> SUFFICES ASSUME TypeOK, SoundLists, [Next]_vars, file.exists PROVE file'.exists
        OBVIOUS
    <2>1. SoundStep
        BY NextSound
    <2>2. ASSUME NEW n \in Memory, CommitChanges(n) PROVE file'.exists
        BY <2>2 DEF CommitChanges
    <2> QED BY <2>1, <2>2 DEF SoundStep
<1>2. Spec => FileNeverLost
    BY <1>1, TypeCorrect, FileForm, ListsSound, PTL DEF Spec, FileNeverLost
<1>3. Spec /\ FileNeverLost => []InfoWhileConnected
    BY InfoKept
<1> QED BY <1>2, <1>3, PTL

=============================================================================
