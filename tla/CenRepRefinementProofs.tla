------------------------ MODULE CenRepRefinementProofs ------------------------
(* CenRepTransactions implements CenRepStore: the proof, step by step. *)
EXTENDS CenRepRefinement, CenRepTransactionsProofs

\* What the abstract store sees of a session.
LEMMA Abstraction ==
    ASSUME TypeOK, LockInv, NEW s \in Session
    PROVE  /\ TxnOf[s] \in Mode \cup {"none", "failed"}
           /\ TxnOf[s] \in Mode <=> Active(s)
           /\ Active(s) => TxnOf[s] = mode[s]
           /\ TxnOf[s] = "none" <=> ~InTransaction(s)
           /\ WritesOf[s] \in [Key -> Value \cup {Absent, Untouched}]
<1>1. mode[s] \in Mode \cup {"ENoTransaction"} /\ pending[s] \in SettingsArray
    BY DEF TypeOK, TxnTypeOK
<1>2. s \in failed => InTransaction(s)
    BY DEF LockInv, QueueInv
<1>3. TxnOf[s] = IF s \in failed THEN "failed" ELSE IF InTransaction(s) THEN mode[s] ELSE "none"
    BY DEF TxnOf
<1>4. WritesOf[s] \in [Key -> Value \cup {Absent, Untouched}]
    <2>1. \A k \in Key : pending[s][k] = Absent \/ pending[s][k].val \in Value \cup {Deleted}
        BY <1>1 DEF SettingsArray, Entry
    <2> QED BY <2>1 DEF WritesOf
<1> QED BY <1>1, <1>2, <1>3, <1>4 DEF Active, InTransaction, Mode

\* A session without uncommitted settings writes nothing.
LEMMA NothingToWrite ==
    ASSUME NEW s \in Session, pending[s] = EmptyArray
    PROVE  WritesOf[s] = Store!NoWrites
BY DEF WritesOf, EmptyArray, Store!NoWrites

\* The content of the files is a store.
LEMMA ContentType == TypeOK => Content \in [Key -> Value \cup {Absent}]
<1> SUFFICES ASSUME TypeOK, NEW k \in Key PROVE ValueIn(file.settings, k) \in Value \cup {Absent}
    BY DEF Content
<1>1. file.settings[k] \in StoredEntry \cup {Absent}
    BY DEF TypeOK, StoreTypeOK, File, StoredArray
<1> QED BY <1>1 DEF ValueIn, StoredEntry

\* Without persists file the content is that of the ROM.
LEMMA RomContent == [k \in Key |-> ValueIn(NoFile.settings, k)] = Rom
<1>1. NoFile.settings = RomArray
    BY DEF NoFile
<1>2. ASSUME NEW k \in Key PROVE ValueIn(RomArray, k) = Rom[k]
    <2>1. Rom[k] # Absent => RomEntry(k) \in StoredEntry
        BY RomAssumption DEF RomEntry, StoredEntry
    <2>2. Rom[k] # Absent => RomEntry(k) # Absent /\ RomEntry(k).val = Rom[k]
        BY <2>1, AbsentIsNoEntry DEF RomEntry
    <2> QED BY <2>2 DEF ValueIn, RomArray
<1>3. [k \in Key |-> ValueIn(NoFile.settings, k)] = [k \in Key |-> Rom[k]]
    BY <1>1, <1>2
<1> QED BY <1>3, RomAssumption

\* The server starts as the store does.
LEMMA StoreInitially == Init => Store!StoreInit
<1> SUFFICES ASSUME Init PROVE Store!StoreInit
    OBVIOUS
<1>1. Content = Rom
    BY RomContent DEF Init, Content
<1>2. TxnOf = [s \in Session |-> "none"]
    BY DEF Init, TxnOf, InTransaction
<1>3. WritesOf = [s \in Session |-> Store!NoWrites]
    BY DEF Init, WritesOf, EmptyArray, Store!NoWrites
<1> QED BY <1>1, <1>2, <1>3 DEF Store!StoreInit

\* Transactions that fail or are over fail or are over in the store.
LEMMA EndIsFinish ==
    ASSUME TypeOK, LockInv, NEW S \in SUBSET Session, NEW D \in SUBSET Session,
           EndTransactions(S, D), \A t \in S : Active(t)
    PROVE  Store!Finish(S, D)
<1>1. /\ mode' = [s \in Session |-> IF s \in D THEN "ENoTransaction" ELSE mode[s]]
      /\ failed' = (failed \cup S) \ D
      /\ pending' = [s \in Session |-> IF s \in S \cup D THEN EmptyArray ELSE pending[s]]
    BY DEF EndTransactions
<1>2. ASSUME NEW s \in Session
      PROVE  TxnOf'[s] = IF s \in D THEN "none"
                         ELSE IF s \in S /\ TxnOf[s] \in Store!Modes THEN "failed" ELSE TxnOf[s]
    <2>1. Store!Modes = Mode
        BY DEF Store!Modes, Mode
    <2>2. TxnOf'[s] = IF s \in failed' THEN "failed"
                      ELSE IF mode'[s] # "ENoTransaction" THEN mode'[s] ELSE "none"
        BY DEF TxnOf, InTransaction
    <2>3. TxnOf[s] = IF s \in failed THEN "failed"
                     ELSE IF mode[s] # "ENoTransaction" THEN mode[s] ELSE "none"
        BY DEF TxnOf, InTransaction
    <2>4. s \in S => TxnOf[s] \in Mode
        BY Abstraction
    <2> QED BY <1>1, <2>1, <2>2, <2>3, <2>4
<1>3. ASSUME NEW s \in Session
      PROVE  WritesOf'[s] = IF s \in S \cup D THEN Store!NoWrites ELSE WritesOf[s]
    BY <1>1 DEF WritesOf, EmptyArray, Store!NoWrites
<1>4. /\ TxnOf' = [s \in Session |-> TxnOf'[s]]
      /\ WritesOf' = [s \in Session |-> WritesOf'[s]]
    BY DEF TxnOf, WritesOf
<1> QED BY <1>2, <1>3, <1>4 DEF Store!Finish, Store!Running

\* The modes and the holders of the store are those of the server.
LEMMA HoldersAreActive ==
    ASSUME TypeOK, LockInv, NEW modes \in SUBSET Mode
    PROVE  Store!Modes = Mode /\ Store!Holders(modes) = {s \in Session : Active(s) /\ mode[s] \in modes}
<1>1. Store!Modes = Mode
    BY DEF Store!Modes, Mode
<1>2. ASSUME NEW s \in Session PROVE TxnOf[s] \in modes <=> Active(s) /\ mode[s] \in modes
    BY Abstraction
<1>3. Store!Holders(modes) = {s \in Session : TxnOf[s] \in modes}
    BY DEF Store!Holders
<1> QED BY <1>1, <1>2, <1>3

\* A transaction that the counters let start may start in the store.
LEMMA StartIsBegin ==
    ASSUME TypeOK, LockInv, NoStaleSettings, NEW s \in Session, NEW md \in Mode,
           ~InTransaction(s), MayStart(md), StartTransaction(s, md), file' = file
    PROVE  Store!Begin(s, md)
<1>1. TxnOf[s] = "none"
    BY Abstraction
<1>2. ASSUME NEW m \in Mode PROVE Store!Holders({m}) = ActiveIn(m)
    <2>1. {m} \in SUBSET Mode
        OBVIOUS
    <2>2. Store!Holders({m}) = {t \in Session : Active(t) /\ mode[t] \in {m}}
        BY <2>1, HoldersAreActive
    <2> QED BY <2>2 DEF ActiveIn, Active, InTransaction, Mode
<1>3. md = "EReadTransaction" => Store!Holders({"EReadWriteTransaction"}) = {}
    BY <1>2 DEF MayStart, LockInv, LockCountInv, Mode
<1>4. md = "EReadWriteTransaction" =>
          ActiveIn("EReadTransaction") = {} /\ ActiveIn("EReadWriteTransaction") = {}
    <2>1. IsFiniteSet(ActiveIn("EReadTransaction"))
        BY CountType
    <2> QED BY <2>1, FS_EmptySet DEF MayStart, LockInv, LockCountInv
<1>5. md = "EReadWriteTransaction" =>
          Store!Holders({"EReadTransaction", "EReadWriteTransaction"}) = {}
    <2>1. {"EReadTransaction", "EReadWriteTransaction"} \in SUBSET Mode
        BY DEF Mode
    <2>2. Store!Holders({"EReadTransaction", "EReadWriteTransaction"})
              = {t \in Session : Active(t) /\ mode[t] \in {"EReadTransaction", "EReadWriteTransaction"}}
        BY <2>1, HoldersAreActive
    <2> QED BY <1>4, <2>2 DEF ActiveIn, Active
<1>6. mode' = [mode EXCEPT ![s] = md] /\ failed' = failed /\ pending' = [pending EXCEPT ![s] = EmptyArray]
    BY DEF StartTransaction
<1>7. s \notin failed /\ pending[s] = EmptyArray /\ mode[s] = "ENoTransaction"
    BY DEF LockInv, QueueInv, NoStaleSettings, Active, InTransaction
<1>8. pending' = pending
    BY <1>6, <1>7 DEF TypeOK, TxnTypeOK
<1>9. TxnOf' = [TxnOf EXCEPT ![s] = md]
    <2>1. \A t \in Session : TxnOf'[t] = IF t = s THEN md ELSE TxnOf[t]
        BY <1>6, <1>7 DEF TxnOf, InTransaction, Mode, TypeOK, TxnTypeOK
    <2>2. TxnOf' = [t \in Session |-> TxnOf'[t]] /\ TxnOf = [t \in Session |-> TxnOf[t]]
        BY DEF TxnOf
    <2> QED BY <2>1, <2>2
<1>10. WritesOf' = WritesOf /\ Content' = Content
    BY <1>8 DEF WritesOf, Content, ValueIn
<1> QED BY <1>1, <1>3, <1>5, <1>9, <1>10 DEF Store!Begin

\* Noting a write, and the promotion that may go with it, is an update.
LEMMA KeepIsUpdate ==
    ASSUME TypeOK, LockInv, NEW s \in Session, NEW p \in SettingsArray,
           Active(s), mode[s] = "EReadTransaction" => Promotable(s), KeepSettings(s, p),
           file' = file
    PROVE  Store!Update(s)
<1>1. Store!Modes = Mode
    BY DEF Store!Modes, Mode
<1>2. TxnOf[s] = mode[s] /\ mode[s] \in Mode
    BY Abstraction
<1>3. /\ mode' = [mode EXCEPT ![s] = IF Promotable(s) THEN "EReadWriteTransaction" ELSE mode[s]]
      /\ pending' = [pending EXCEPT ![s] = p] /\ failed' = failed
    BY DEF KeepSettings
<1>4. mode'[s] = IF mode[s] = "EReadTransaction" THEN "EReadWriteTransaction" ELSE mode[s]
    BY <1>3 DEF Promotable, TypeOK, TxnTypeOK
<1>5. \A t \in Session : TxnOf'[t] = IF t = s /\ mode[s] = "EReadTransaction"
                                     THEN "EReadWriteTransaction" ELSE TxnOf[t]
    BY <1>2, <1>3, <1>4 DEF TxnOf, InTransaction, Active, TypeOK, TxnTypeOK, Mode
<1>6. /\ TxnOf' = [t \in Session |-> TxnOf'[t]] /\ TxnOf = [t \in Session |-> TxnOf[t]]
      /\ WritesOf' = [t \in Session |-> WritesOf'[t]] /\ WritesOf = [t \in Session |-> WritesOf[t]]
    BY DEF TxnOf, WritesOf
<1>7. TxnOf' = IF TxnOf[s] # "EReadTransaction" THEN TxnOf
               ELSE [TxnOf EXCEPT ![s] = "EReadWriteTransaction"]
    BY <1>2, <1>5, <1>6
<1>8. \A t \in Session \ {s} : WritesOf'[t] = WritesOf[t]
    BY <1>3 DEF WritesOf, TypeOK, TxnTypeOK
<1>9. WritesOf' = [WritesOf EXCEPT ![s] = WritesOf'[s]]
    BY <1>6, <1>8
<1>10. WritesOf'[s] \in [Key -> Value \cup {Absent, Untouched}]
    <2>1. pending'[s] \in SettingsArray
        BY <1>3 DEF TypeOK, TxnTypeOK
    <2>2. \A k \in Key : pending'[s][k] = Absent \/ pending'[s][k].val \in Value \cup {Deleted}
        BY <2>1 DEF SettingsArray, Entry
    <2> QED BY <2>2 DEF WritesOf
<1>11. TxnOf[s] = "EReadTransaction" => Store!Holders({"EReadTransaction"}) = {s}
    <2> SUFFICES ASSUME mode[s] = "EReadTransaction"
                 PROVE  Store!Holders({"EReadTransaction"}) = {s}
        BY <1>2
    <2>1. {"EReadTransaction"} \in SUBSET Mode
        BY DEF Mode
    <2>2. Store!Holders({"EReadTransaction"})
              = {t \in Session : Active(t) /\ mode[t] \in {"EReadTransaction"}}
        BY <2>1, HoldersAreActive
    <2>3. s \in ActiveIn("EReadTransaction") /\ lockCount = 1
        BY DEF ActiveIn, Active, Promotable
    <2>4. Cardinality(ActiveIn("EReadTransaction")) = 1 /\ IsFiniteSet(ActiveIn("EReadTransaction"))
        BY <2>3, CountType DEF LockInv, LockCountInv
    <2>5. ActiveIn("EReadTransaction") = {s}
        <3>1. PICK t : ActiveIn("EReadTransaction") = {t}
            BY <2>4, FS_Singleton
        <3> QED BY <2>3, <3>1
    <2> QED BY <2>2, <2>5 DEF ActiveIn, Active, InTransaction
<1>12. Content' = Content
    BY DEF Content, ValueIn
<1> QED BY <1>1, <1>2, <1>7, <1>9, <1>10, <1>11, <1>12
        DEF Store!Update, Store!Running, Store!WriteSets

\* Failing the others in the queue fails everybody who is running.
LEMMA OthersAreAll ==
    ASSUME TypeOK, LockInv, NoStaleSettings, NEW s \in Session, NEW D \in SUBSET Session,
           s \in D \/ ~InTransaction(s), EndTransactions(Others(s), D)
    PROVE  Store!Finish(Session, D)
<1>1. Others(s) \in SUBSET Session /\ \A t \in Others(s) : Active(t)
    BY DEF Others, TypeOK, TxnTypeOK
<1>2. Store!Finish(Others(s), D)
    BY <1>1, EndIsFinish
<1>3. ASSUME NEW t \in Session \ D PROVE t \in Others(s) <=> TxnOf[t] \in Store!Modes
    <2>1. Store!Modes = Mode
        BY DEF Store!Modes, Mode
    <2>2. Active(t) => t \in Others(s)
        BY DEF Others, LockInv, QueueInv, Active
    <2> QED BY <1>1, <2>1, <2>2, Abstraction
<1>4. ASSUME NEW t \in Session \ D, t \notin Others(s) PROVE WritesOf[t] = Store!NoWrites
    <2>1. ~Active(t)
        BY <1>4 DEF Others, LockInv, QueueInv, Active
    <2>2. pending[t] = EmptyArray
        BY <2>1 DEF NoStaleSettings
    <2> QED BY <2>2, NothingToWrite
<1>5. TxnOf' = [t \in Session |-> IF t \in D THEN "none"
                                  ELSE IF t \in Others(s) /\ TxnOf[t] \in Store!Modes
                                       THEN "failed" ELSE TxnOf[t]]
    BY <1>2 DEF Store!Finish, Store!Running
<1>6. WritesOf' = [t \in Session |-> IF t \in Others(s) \cup D THEN Store!NoWrites ELSE WritesOf[t]]
    BY <1>2 DEF Store!Finish
<1>7. TxnOf' = [t \in Session |-> IF t \in D THEN "none"
                                  ELSE IF t \in Session /\ TxnOf[t] \in Store!Modes
                                       THEN "failed" ELSE TxnOf[t]]
    BY <1>3, <1>5
<1>8. WritesOf' = [t \in Session |-> IF t \in Session \cup D THEN Store!NoWrites ELSE WritesOf[t]]
    BY <1>4, <1>6
<1> QED BY <1>7, <1>8 DEF Store!Finish, Store!Running

\* The commit of a transaction that changes something is a commit of the store:
\* all of its writes, and the end of all other transactions.
LEMMA SaveIsCommit ==
    ASSUME TypeOK, LockInv, NoStaleSettings, CacheCoherent, NEW s \in Session, NEW n \in Memory,
           NEW K \in SUBSET Key, Differences(n.settings, Accessed.settings, K),
           InTransaction(s), K # {}, Saves(s, {s}, n, K),
           \A k \in Key : ValueIn(n.settings, k) = Merging(Accessed, pending[s], k)
    PROVE  Store!Commit(s)
<1>1. Active(s)
    <2>1. PICK k \in K : TRUE
        OBVIOUS
    <2>2. ValueIn(n.settings, k) # ValueIn(Accessed.settings, k) /\ k \in Key
        BY <2>1 DEF Differences
    <2>3. pending[s][k] # Absent
        BY <2>2 DEF Merging
    <2>4. pending[s] # EmptyArray
        BY <2>2, <2>3 DEF EmptyArray
    <2> QED BY <2>4 DEF NoStaleSettings
<1>2. Store!Running(s)
    <2>1. Store!Modes = Mode
        BY DEF Store!Modes, Mode
    <2> QED BY <1>1, <2>1, Abstraction DEF Store!Running
<1>3. ASSUME NEW k \in Key
      PROVE  Content'[k] = IF WritesOf[s][k] = Untouched THEN Content[k] ELSE WritesOf[s][k]
    <2>1. Content'[k] = Merging(Accessed, pending[s], k) /\ ValueIn(Accessed.settings, k) = Content[k]
        BY FileStepContent, AccessedCoherent
    <2>2. WritesOf[s][k] = IF pending[s][k] = Absent THEN Untouched
                           ELSE IF pending[s][k].val = Deleted THEN Absent ELSE pending[s][k].val
        BY DEF WritesOf
    <2>3. pending[s][k] # Absent => pending[s][k].val \in Value \cup {Deleted}
        <3>1. pending[s][k] \in Entry \cup {Absent}
            BY DEF TypeOK, TxnTypeOK, SettingsArray
        <3> QED BY <3>1 DEF Entry
    <2> HIDE DEF Content
    <2> QED BY <2>1, <2>2, <2>3, UntouchedAssumption DEF Merging
<1>4. Content' = [k \in Key |-> Content'[k]]
    BY DEF Content
<1>5. Content' = [k \in Key |-> IF WritesOf[s][k] = Untouched THEN Content[k] ELSE WritesOf[s][k]]
    BY <1>3, <1>4
<1>6. Content' # Content
    <2>1. PICK k \in K : TRUE
        OBVIOUS
    <2>2. Content'[k] # Content[k]
        BY <2>1, FileStepContent
    <2> QED BY <2>2
<1>7. Store!Finish(Session, {s})
    <2>1. {s} \in SUBSET Session /\ EndTransactions(Others(s), {s})
        BY DEF Saves
    <2> QED BY <2>1, OthersAreAll
<1> QED BY <1>2, <1>5, <1>6, <1>7 DEF Store!Commit

\* A write or a reset outside transactions is a change of the store.
LEMMA SaveIsChange ==
    ASSUME TypeOK, TypeOK', LockInv, NoStaleSettings, NEW s \in Session, NEW n, NEW K,
           ~InTransaction(s), Saves(s, {}, n, K)
    PROVE  Store!Change
<1>1. Store!Finish(Session, {})
    <2>1. {} \in SUBSET Session /\ EndTransactions(Others(s), {})
        BY DEF Saves
    <2> QED BY <2>1, OthersAreAll
<1>2. Content' \in [Key -> Value \cup {Absent}]
    <2> SUFFICES ASSUME NEW k \in Key PROVE ValueIn(file'.settings, k) \in Value \cup {Absent}
        BY DEF Content, ValueIn
    <2>1. file'.settings[k] \in StoredEntry \cup {Absent}
        BY DEF TypeOK, StoreTypeOK, File, StoredArray
    <2> QED BY <2>1 DEF ValueIn, StoredEntry
<1> QED BY <1>1, <1>2 DEF Store!Change

\* A step that leaves the files alone starts, updates or ends transactions, or
\* is not seen at all.
LEMMA TxnStepIsStep ==
    ASSUME TypeOK, LockInv, NoStaleSettings, TxnStep, file' = file
    PROVE  Store!StoreNext \/ UNCHANGED Store!storeVars
<1>0. connected \subseteq Session /\ Content' = Content
    BY DEF TypeOK, Content, ValueIn
<1>1. CASE UNCHANGED <<mode, failed, pending>>
    BY <1>0, <1>1 DEF TxnOf, WritesOf, InTransaction, Store!storeVars
<1>2. ASSUME NEW S \in SUBSET Session, NEW D \in SUBSET Session, EndTransactions(S, D),
             \A t \in S : Active(t)
      PROVE  Store!StoreNext
    <2>1. Store!Finish(S, D)
        BY <1>2, EndIsFinish
    <2>2. Store!GiveUp
        BY <1>0, <2>1 DEF Store!GiveUp
    <2> QED BY <2>2 DEF Store!StoreNext
<1>3. ASSUME NEW s \in connected, NEW md \in Mode, ~InTransaction(s), MayStart(md),
             StartTransaction(s, md)
      PROVE  Store!StoreNext
    <2>1. Store!Begin(s, md) /\ s \in Session /\ md \in Store!Modes
        BY <1>0, <1>3, StartIsBegin DEF Store!Modes, Mode
    <2> QED BY <2>1 DEF Store!StoreNext
<1>4. ASSUME NEW s \in connected, NEW p \in SettingsArray, Active(s),
             mode[s] = "EReadTransaction" => Promotable(s), KeepSettings(s, p)
      PROVE  Store!StoreNext
    <2>1. Store!Update(s) /\ s \in Session
        BY <1>0, <1>4, KeepIsUpdate
    <2> QED BY <2>1 DEF Store!StoreNext
<1> QED BY <1>1, <1>2, <1>3, <1>4 DEF TxnStep, txnVars

\* Losing the persists file is losing what was stored.
LEMMA LostIsLose ==
    ASSUME TypeOK, LockInv, LostStep
    PROVE  Store!Lose
<1>1. Content' = Rom
    <2>1. file' = NoFile
        BY DEF LostStep
    <2>2. Content' = [k \in Key |-> ValueIn(NoFile.settings, k)]
        BY <2>1 DEF Content, ValueIn
    <2> QED BY <2>2, RomContent
<1>2. CASE UNCHANGED <<mode, failed, pending>>
    <2>1. TxnOf' = TxnOf /\ WritesOf' = WritesOf
        BY <1>2 DEF TxnOf, WritesOf, InTransaction
    <2>2. \A s \in Session : TxnOf[s] = TxnOf'[s] /\ WritesOf[s] = WritesOf'[s]
        BY <2>1
    <2>3. TxnOf = [s \in Session |-> TxnOf[s]] /\ WritesOf = [s \in Session |-> WritesOf[s]]
        BY DEF TxnOf, WritesOf
    <2>4. Store!Finish({}, {})
        BY <2>1, <2>3 DEF Store!Finish
    <2>5. {} \in SUBSET Session
        OBVIOUS
    <2> QED BY <1>1, <2>4, <2>5 DEF Store!Lose
<1>3. ASSUME NEW S \in SUBSET Session, EndTransactions(S, {}), \A t \in S : Active(t)
      PROVE  Store!Lose
    <2>1. {} \in SUBSET Session
        OBVIOUS
    <2>2. Store!Finish(S, {})
        BY <1>3, <2>1, EndIsFinish
    <2> QED BY <1>1, <2>2 DEF Store!Lose
<1> QED BY <1>2, <1>3 DEF LostStep

\* Every step of the server is a step of the store, or loses it.
LEMMA StepRefined ==
    ASSUME TypeOK, TypeOK', LockInv, NoStaleSettings, CacheCoherent, NoFileIsRom, [Next]_vars
    PROVE  Store!StoreNext \/ UNCHANGED Store!storeVars \/ (LostStep /\ Store!Lose)
<1>1. CASE QuietStep
    BY <1>1, NextTxnStep, TxnStepIsStep DEF QuietStep
<1>2. CASE FileStep
    <2>1. PICK s \in Session, n \in Memory, K \in SUBSET Key :
              /\ Differences(n.settings, Accessed.settings, K)
              /\ \/ /\ InTransaction(s) /\ K # {} /\ Saves(s, {s}, n, K)
                    /\ \A k \in Key : ValueIn(n.settings, k) = Merging(Accessed, pending[s], k)
                 \/ ~InTransaction(s) /\ Saves(s, {}, n, K)
        BY <1>2 DEF FileStep
    <2>2. Store!Commit(s) \/ Store!Change
        BY <2>1, SaveIsCommit, SaveIsChange
    <2> QED BY <2>2 DEF Store!StoreNext
<1>3. CASE LostStep
    BY <1>3, LostIsLose
<1> QED BY <1>1, <1>2, <1>3, NextSaves

\* The server implements the store: commits are all or nothing whatever fails
\* in them, no transaction outlives a change, and loading, evicting and
\* restoring are invisible, provided that the shared information stays with the
\* connected sessions and the persists file is never deleted.
THEOREM Refinement == Spec /\ []InfoWhileConnected /\ FileNeverLost => StoreRefinement
<1>1. Init => Store!StoreInit
    BY StoreInitially
<1>2. /\ TypeOK /\ TypeOK' /\ LockInv /\ NoStaleSettings /\ CacheCoherent /\ NoFileIsRom
      /\ [Next]_vars /\ [file.exists => file'.exists]_vars
      => [Store!StoreNext]_(Store!storeVars)
    <2> SUFFICES ASSUME TypeOK, TypeOK', LockInv, NoStaleSettings, CacheCoherent, NoFileIsRom,
                        [Next]_vars, (file.exists => file'.exists) \/ UNCHANGED vars
                 PROVE  [Store!StoreNext]_(Store!storeVars)
        OBVIOUS
    <2>1. ~LostStep
        BY KeptFile DEF LostStep, NoFile, vars
    <2> QED BY <2>1, StepRefined
<1> QED BY <1>1, <1>2, TypeCorrect, LocksCorrect, NothingStale, CacheCorrect, FileForm, PTL
        DEF Spec, StoreRefinement, Store!StoreSpec, FileNeverLost

\* Whatever fails, the deletion of the persists file included: what the
\* repository holds are whole commits made since it was last lost, as long as
\* the shared information stays with the connected sessions.
THEOREM RefinementWithLoss == Spec /\ []InfoWhileConnected => LossyRefinement
<1>1. Init => Store!StoreInit
    BY StoreInitially
<1>2. /\ TypeOK /\ TypeOK' /\ LockInv /\ NoStaleSettings /\ CacheCoherent /\ NoFileIsRom
      /\ [Next]_vars
      => [Store!StoreNext \/ Store!Lose]_(Store!storeVars)
    BY StepRefined
<1> QED BY <1>1, <1>2, TypeCorrect, LocksCorrect, NothingStale, CacheCorrect, FileForm, PTL
        DEF Spec, LossyRefinement, Store!LossyStoreSpec

\* It does where no opening fails under another client's feet.
THEOREM RefinementWhileShared == SharedInfoSpec => LossyRefinement
BY InfoShared, RefinementWithLoss, PTL

\* Where nothing fails and nothing is moved there are no provisos.
THEOREM RefinementWithoutFaults ==
    ASSUME FaultKind = {}, Moves = {} PROVE Spec => StoreRefinement
<1>1. Spec => FileNeverLost /\ []InfoWhileConnected
    BY ProvisosHold
<1> QED BY <1>1, Refinement, PTL

=============================================================================
