------------------------ MODULE DbTransactionProofs ------------------------
(* Proofs about DbTransaction, for every value of its constants. *)
EXTENDS DbTransaction, FiniteSetTheorems, SequenceTheorems, TLAPS

-----------------------------------------------------------------------------
(***************************************************************************)
(* Types that every step keeps whatever state it starts from: counts that  *)
(* the code decrements without asking are integers here.                   *)
(***************************************************************************)
LockType == [holder : Clients, isTxn : BOOLEAN, reads : Int]
ContentType == [done : Nat, torn : SUBSET (Clients \cup Cursors),
                copied : SUBSET Cursors, stray : BOOLEAN]
TxnType == [action : LockTypes, lockState : LockTypes, failed : BOOLEAN,
            locks : Seq(LockType), maxLock : Nat, updaters : Int, damaged : BOOLEAN,
            working : ContentType, stable : ContentType]
CursorType == [mode : {"closed", "ready", "update"}, dirty : BOOLEAN,
               reads : 0 .. MaxReads, stale : BOOLEAN, connected : BOOLEAN]
CurType == [Cursors -> CursorType]
IncType == [Clients -> [kind : {"none", "dml", "ddl", "compact", "recover"}, failed : BOOLEAN]]
ObserverType == [pending : {WaitUnlock, WaitChange} \cup Events,
                 answer : {NoAnswer, KErrCancel} \cup Events,
                 behind : BOOLEAN, detached : BOOLEAN]
Typed == txn \in TxnType /\ cur \in CurType /\ inc \in IncType /\ begun \subseteq Clients
         /\ observer \in ObserverType

-----------------------------------------------------------------------------
(* The operators on the state of the transaction *)

\* The values of the enumerations.
LEMMA Enumerations ==
    /\ EDbReadLock = 0 /\ EDbXReadLock = 1 /\ EDbWriteLock = 2 /\ EDbCompactLock = 3
    /\ EDbRecoveryLock = 4 /\ EDbSchemaLock = 5 /\ LockTypes = 0 .. 5
    /\ EClose = 0 /\ EUnlock = 1 /\ ECommit = 2 /\ ERollback = 3 /\ ERecover = 4
    /\ Events = 0 .. 4 /\ WaitUnlock = -1 /\ WaitChange = -2 /\ NoAnswer = -1 /\ KErrCancel = -3
BY DEF EDbReadLock, EDbXReadLock, EDbWriteLock, EDbCompactLock, EDbRecoveryLock, EDbSchemaLock,
       LockTypes, EClose, EUnlock, ECommit, ERollback, ERecover, Events, WaitUnlock, WaitChange,
       NoAnswer, KErrCancel

\* Unlock(TEvent) ends the locks and nothing else.
LEMMA UnlockedFields ==
    ASSUME NEW t \in TxnType
    PROVE  LET u == Unlocked(t)
           IN  /\ u \in TxnType
               /\ u.action = EDbReadLock /\ u.lockState = EDbReadLock /\ ~u.failed
               /\ u.locks = <<>> /\ u.updaters = 0 /\ u.maxLock = t.maxLock
               /\ u.damaged = t.damaged /\ u.working = t.working /\ u.stable = t.stable
<1>1. EDbReadLock \in LockTypes /\ <<>> \in Seq(LockType) /\ 0 \in Int
    BY Enumerations, EmptySeq
<1>2. ASSUME NEW a \in LockTypes, NEW s \in Seq(LockType), NEW n \in Int
      PROVE  [t EXCEPT !.action = a, !.lockState = a, !.failed = FALSE, !.locks = s, !.updaters = n]
                \in TxnType
    BY DEF TxnType
<1>3. Unlocked(t) \in TxnType
    BY <1>1, <1>2, Zenon DEF Unlocked
<1>4. /\ Unlocked(t).action = EDbReadLock /\ Unlocked(t).lockState = EDbReadLock
      /\ Unlocked(t).failed = FALSE /\ Unlocked(t).locks = <<>> /\ Unlocked(t).updaters = 0
      /\ Unlocked(t).maxLock = t.maxLock /\ Unlocked(t).damaged = t.damaged
      /\ Unlocked(t).working = t.working /\ Unlocked(t).stable = t.stable
    BY DEF Unlocked, TxnType
<1> QED BY <1>3, <1>4

\* The store below is committed by a write lock or more.
LEMMA SavedFields ==
    ASSUME NEW t \in TxnType
    PROVE  LET u == Saved(t)
           IN  /\ u \in TxnType
               /\ u.stable = IF t.lockState >= EDbWriteLock THEN t.working ELSE t.stable
               /\ u.action = t.action /\ u.lockState = t.lockState /\ u.failed = t.failed
               /\ u.locks = t.locks /\ u.updaters = t.updaters /\ u.maxLock = t.maxLock
               /\ u.damaged = t.damaged /\ u.working = t.working
BY DEF Saved, TxnType

\* Revert takes the store back from a write lock on.
LEMMA RevertFields ==
    ASSUME NEW t \in TxnType, NEW u \in Revert(t)
    PROVE  /\ u \in TxnType
           /\ u.working = IF t.lockState < EDbWriteLock THEN t.working ELSE t.stable
           /\ u.action = t.action /\ u.lockState = t.lockState /\ u.failed = t.failed
           /\ u.locks = t.locks /\ u.updaters = t.updaters /\ u.maxLock = t.maxLock
           /\ u.stable = t.stable
BY ZenonT(60) DEF Revert, TxnType

\* A touched transaction holds a write lock and is failed.
LEMMA TouchFields ==
    ASSUME NEW t \in TxnType
    PROVE  LET u == DMLTouch(t)
           IN  /\ u \in TxnType
               /\ u.lockState = (IF t.lockState = EDbXReadLock THEN EDbWriteLock ELSE t.lockState)
               /\ u.failed
               /\ u.action = t.action /\ u.locks = t.locks /\ u.updaters = t.updaters
               /\ u.maxLock = t.maxLock /\ u.damaged = t.damaged
               /\ u.working = t.working /\ u.stable = t.stable
<1>1. (IF t.lockState = EDbXReadLock THEN EDbWriteLock ELSE t.lockState) \in LockTypes
    BY Enumerations DEF TxnType
<1> QED BY <1>1 DEF DMLTouch, TxnType

\* One update less.
LEMMA LessFields ==
    ASSUME NEW t \in TxnType
    PROVE  LET u == LessUpdater(t)
           IN  /\ u \in TxnType
               /\ u.action = (IF t.updaters = 1 THEN EDbReadLock ELSE t.action)
               /\ u.updaters = t.updaters - 1
               /\ u.lockState = t.lockState /\ u.failed = t.failed /\ u.locks = t.locks
               /\ u.maxLock = t.maxLock /\ u.damaged = t.damaged
               /\ u.working = t.working /\ u.stable = t.stable
<1>1. /\ (IF t.updaters = 1 THEN EDbReadLock ELSE t.action) \in LockTypes
      /\ t.updaters - 1 \in Int
    BY Enumerations DEF TxnType
<1> QED BY <1>1 DEF LessUpdater, TxnType

\* A count is none, one or more.
LEMMA NoneOneMany == \A n \in Nat : (n > 1 => n # 1 /\ n # 0) /\ (~(n > 1) /\ n # 0 => n = 1)
OBVIOUS

\* A sequence of one.
LEMMA OneElement ==
    ASSUME NEW S, NEW x \in S
    PROVE  <<x>> \in Seq(S) /\ Len(<<x>>) = 1 /\ <<x>>[1] = x /\ <<x>> # <<>>
OBVIOUS

\* A lock of a client's own.
LEMMA ExcludeType ==
    ASSUME NEW t \in TxnType, NEW c \in Clients
    PROVE  Exclude(t, c) \in Seq(LockType)
<1>1. Lock(c, FALSE, 0) \in LockType
    BY DEF Lock, LockType
<1>2. <<Lock(c, FALSE, 0)>> \in Seq(LockType)
    BY <1>1, OneElement
<1> QED BY <1>2 DEF Exclude, TxnType

\* DMLBegin takes the lock and counts the update.
LEMMA BeginFields ==
    ASSUME NEW t \in TxnType, NEW c \in Clients
    PROVE  LET u == DMLBegin(t, c)
           IN  /\ u \in TxnType
               /\ u.action = (IF t.action = EDbReadLock THEN EDbWriteLock ELSE t.action)
               /\ u.lockState = (IF t.lockState = EDbReadLock THEN EDbXReadLock ELSE t.lockState)
               /\ u.updaters = t.updaters + 1 /\ u.locks = Exclude(t, c)
               /\ u.failed = t.failed /\ u.maxLock = t.maxLock /\ u.damaged = t.damaged
               /\ u.working = t.working /\ u.stable = t.stable
<1>1. Exclude(t, c) \in Seq(LockType)
    BY ExcludeType
<1>2. /\ (IF t.action = EDbReadLock THEN EDbWriteLock ELSE t.action) \in LockTypes
      /\ (IF t.lockState = EDbReadLock THEN EDbXReadLock ELSE t.lockState) \in LockTypes
      /\ t.updaters + 1 \in Int
    BY Enumerations DEF TxnType
<1> QED BY <1>1, <1>2 DEF DMLBegin, TxnType

\* DDLBegin takes the schema lock.
LEMMA DDLBeginFields ==
    ASSUME NEW t \in TxnType, NEW c \in Clients
    PROVE  LET u == DDLBegin(t, c)
           IN  /\ u \in TxnType
               /\ u.action = EDbSchemaLock /\ u.lockState = EDbSchemaLock
               /\ u.locks = Exclude(t, c) /\ u.updaters = t.updaters
               /\ u.failed = t.failed /\ u.maxLock = t.maxLock /\ u.damaged = t.damaged
               /\ u.working = t.working /\ u.stable = t.stable
<1>1. Exclude(t, c) \in Seq(LockType)
    BY ExcludeType
<1>2. EDbSchemaLock \in LockTypes
    BY Enumerations
<1> QED BY <1>1, <1>2 DEF DDLBegin, TxnType

\* A change of the content changes nothing else.
LEMMA WorkingFields ==
    ASSUME NEW t \in TxnType, NEW w \in ContentType
    PROVE  LET u == [t EXCEPT !.working = w]
           IN  /\ u \in TxnType
               /\ u.working = w /\ u.stable = t.stable
               /\ u.action = t.action /\ u.lockState = t.lockState /\ u.failed = t.failed
               /\ u.locks = t.locks /\ u.updaters = t.updaters /\ u.maxLock = t.maxLock
               /\ u.damaged = t.damaged
BY DEF TxnType

\* A finished and a torn change are contents.
LEMMA ContentFields ==
    ASSUME NEW w \in ContentType, NEW x \in Clients \cup Cursors
    PROVE  /\ Finished(w, x) \in ContentType
           /\ Finished(w, x).done = w.done + 1 /\ Finished(w, x).torn = w.torn \ {x}
           /\ Finished(w, x).copied = w.copied \ {x}
           /\ Torn(w, x) \in ContentType
           /\ Torn(w, x).done = w.done /\ Torn(w, x).torn = w.torn \cup {x}
           /\ Torn(w, x).copied = w.copied
<1>1. /\ Finished(w, x) \in ContentType
      /\ Finished(w, x).done = w.done + 1 /\ Finished(w, x).torn = w.torn \ {x}
      /\ Finished(w, x).copied = w.copied \ {x}
    <2> DEFINE d == w.done + 1
               s == w.torn \ {x}
               p == w.copied \ {x}
    <2>1. d \in Nat /\ s \in SUBSET (Clients \cup Cursors) /\ p \in SUBSET Cursors
        BY DEF ContentType
    <2>2. Finished(w, x) = [w EXCEPT !.done = d, !.torn = s, !.copied = p]
        BY DEF Finished
    <2> HIDE DEF d, s, p
    <2>3. /\ Finished(w, x) \in ContentType
          /\ Finished(w, x).done = d /\ Finished(w, x).torn = s /\ Finished(w, x).copied = p
        BY <2>1, <2>2 DEF ContentType
    <2> QED BY <2>3 DEF d, s, p
<1>2. /\ Torn(w, x) \in ContentType
      /\ Torn(w, x).done = w.done /\ Torn(w, x).torn = w.torn \cup {x}
      /\ Torn(w, x).copied = w.copied
    BY DEF Torn, ContentType
<1> QED BY <1>1, <1>2

\* Blobs that are copied, left or stray touch nothing.
LEMMA BlobFields ==
    ASSUME NEW w \in ContentType, NEW k \in Cursors
    PROVE  /\ Copied(w, k) \in ContentType /\ Copied(w, k).done = w.done
           /\ Copied(w, k).torn = w.torn /\ Copied(w, k).copied = w.copied \cup {k}
           /\ LeftCopy(w, k) \in ContentType /\ LeftCopy(w, k).done = w.done
           /\ LeftCopy(w, k).torn = w.torn /\ LeftCopy(w, k).copied = w.copied \ {k}
<1>1. Copied(w, k) \in ContentType /\ Copied(w, k).done = w.done
      /\ Copied(w, k).torn = w.torn /\ Copied(w, k).copied = w.copied \cup {k}
    BY DEF Copied, ContentType
<1>2. (w.stray \/ k \in w.copied) \in BOOLEAN
    BY DEF ContentType
<1>3. ASSUME NEW s \in BOOLEAN, NEW l, l = [w EXCEPT !.copied = @ \ {k}, !.stray = s]
      PROVE  l \in ContentType /\ l.done = w.done /\ l.torn = w.torn /\ l.copied = w.copied \ {k}
    BY <1>3 DEF ContentType
<1>4. LeftCopy(w, k) = [w EXCEPT !.copied = @ \ {k}, !.stray = (w.stray \/ k \in w.copied)]
    BY DEF LeftCopy
<1> HIDE DEF LeftCopy
<1> QED BY <1>1, <1>2, <1>3, <1>4, Zenon

LEMMA StrayFields ==
    ASSUME NEW w \in ContentType
    PROVE  /\ Strayed(w) \in ContentType /\ Strayed(w).done = w.done
           /\ Strayed(w).torn = w.torn /\ Strayed(w).copied = w.copied
BY DEF Strayed, ContentType

\* The same changes have been touched for when their count and what is torn are the same.
LEMMA TouchedSame ==
    \A v, w : Touched(v) = Touched(w) <=> v.done = w.done /\ v.torn = w.torn
BY DEF Touched

-----------------------------------------------------------------------------
(* The list of locks *)

\* No client has two locks in the list.
Distinct(t) == \A i, j \in 1 .. Len(t.locks) : t.locks[i].holder = t.locks[j].holder => i = j

\* Nothing but the list, and what MayChange names, differs between t and u.
SameButLocks(t, u) ==
    /\ u.action = t.action /\ u.lockState = t.lockState /\ u.failed = t.failed
    /\ u.updaters = t.updaters /\ u.damaged = t.damaged
    /\ u.working = t.working /\ u.stable = t.stable

\* The types of the list.
LEMMA ListTypes ==
    ASSUME NEW t \in TxnType
    PROVE  /\ t.locks \in Seq(LockType) /\ Len(t.locks) \in Nat
           /\ t.locks = <<>> <=> Len(t.locks) = 0
           /\ \A i \in 1 .. Len(t.locks) :
                  /\ t.locks[i] \in LockType /\ t.locks[i].holder \in Clients
                  /\ t.locks[i].isTxn \in BOOLEAN /\ t.locks[i].reads \in Int
                  /\ t.locks[i].holder \in Lockers(t)
           /\ Lockers(t) \subseteq Clients
           /\ t.locks = <<>> => Lockers(t) = {}
<1>1. t.locks \in Seq(LockType)
    BY DEF TxnType
<1>2. Len(t.locks) \in Nat /\ (t.locks = <<>> <=> Len(t.locks) = 0)
    BY <1>1, EmptySeq
<1>3. ASSUME NEW i \in 1 .. Len(t.locks)
      PROVE  /\ t.locks[i] \in LockType /\ t.locks[i].holder \in Clients
             /\ t.locks[i].isTxn \in BOOLEAN /\ t.locks[i].reads \in Int
             /\ t.locks[i].holder \in Lockers(t)
    <2>1. t.locks[i] \in LockType
        BY <1>1, ElementOfSeq
    <2> QED BY <2>1 DEF LockType, Lockers
<1>4. Lockers(t) \subseteq Clients
    BY <1>3 DEF Lockers
<1>5. t.locks = <<>> => Lockers(t) = {}
    BY <1>2 DEF Lockers
<1> QED BY <1>1, <1>2, <1>3, <1>4, <1>5

\* GetLock finds the lock of a client that has one.
LEMMA GetLockFields ==
    ASSUME NEW t \in TxnType, NEW c \in Lockers(t)
    PROVE  /\ GetLock(t, c) \in 1 .. Len(t.locks) /\ t.locks[GetLock(t, c)].holder = c
           /\ Distinct(t) => \A j \in 1 .. Len(t.locks) : t.locks[j].holder = c => j = GetLock(t, c)
<1>1. \E i \in 1 .. Len(t.locks) : t.locks[i].holder = c
    BY DEF Lockers
<1>2. GetLock(t, c) \in 1 .. Len(t.locks) /\ t.locks[GetLock(t, c)].holder = c
    BY <1>1 DEF GetLock
<1> QED BY <1>2 DEF Distinct

\* The count of reads of one lock changes.
LEMMA ReadsFields ==
    ASSUME NEW t \in TxnType, NEW i \in 1 .. Len(t.locks), NEW n \in Int
    PROVE  LET u == [t EXCEPT !.locks[i].reads = n]
           IN  /\ u \in TxnType /\ SameButLocks(t, u) /\ u.maxLock = t.maxLock
               /\ Len(u.locks) = Len(t.locks)
               /\ \A j \in 1 .. Len(t.locks) :
                      /\ u.locks[j].holder = t.locks[j].holder /\ u.locks[j].isTxn = t.locks[j].isTxn
                      /\ u.locks[j].reads = IF j = i THEN n ELSE t.locks[j].reads
<1> DEFINE l == [t.locks[i] EXCEPT !.reads = n]
           s == [t.locks EXCEPT ![i] = l]
           u == [t EXCEPT !.locks = s]
<1>1. t.locks \in Seq(LockType) /\ t.locks[i] \in LockType
    BY ListTypes
<1>2. l \in LockType /\ l.holder = t.locks[i].holder /\ l.isTxn = t.locks[i].isTxn /\ l.reads = n
    BY <1>1 DEF LockType
<1> HIDE DEF l
<1>3. s \in Seq(LockType) /\ Len(s) = Len(t.locks)
      /\ \A j \in 1 .. Len(t.locks) : s[j] = IF j = i THEN l ELSE t.locks[j]
    BY <1>1, <1>2, ExceptSeq
<1> HIDE DEF s
<1>4. u \in TxnType /\ SameButLocks(t, u) /\ u.maxLock = t.maxLock /\ u.locks = s
    BY <1>3 DEF TxnType, SameButLocks
<1>5. [t EXCEPT !.locks[i].reads = n] = u
    BY DEF s, l
<1> QED BY <1>2, <1>3, <1>4, <1>5

\* A shared lock is put at the end of the list.
LEMMA ShareFields ==
    ASSUME NEW t \in TxnType, NEW l \in LockType
    PROVE  LET u == Share(t, l)
           IN  /\ u \in TxnType /\ SameButLocks(t, u)
               /\ Len(u.locks) = Len(t.locks) + 1 /\ u.locks[Len(t.locks) + 1] = l
               /\ \A j \in 1 .. Len(t.locks) : u.locks[j] = t.locks[j]
               /\ u.maxLock = (IF Len(t.locks) = t.maxLock THEN t.maxLock + ELockListGranularity
                               ELSE t.maxLock)
<1> DEFINE s == Append(t.locks, l)
           m == IF Len(t.locks) = t.maxLock THEN t.maxLock + ELockListGranularity ELSE t.maxLock
<1>1. t.locks \in Seq(LockType) /\ m \in Nat
    BY DbAssumption DEF TxnType
<1>2. /\ s \in Seq(LockType) /\ Len(s) = Len(t.locks) + 1 /\ s[Len(t.locks) + 1] = l
      /\ \A j \in 1 .. Len(t.locks) : s[j] = t.locks[j]
    BY <1>1, AppendProperties
<1>3. Share(t, l) = [t EXCEPT !.locks = s, !.maxLock = m]
    BY DEF Share
<1> HIDE DEF s, m
<1>4. LET u == [t EXCEPT !.locks = s, !.maxLock = m]
      IN  u \in TxnType /\ SameButLocks(t, u) /\ u.locks = s /\ u.maxLock = m
    BY <1>1, <1>2 DEF TxnType, SameButLocks
<1> QED BY <1>2, <1>3, <1>4 DEF m

\* u is t with lock i, and no other, taken off the list.
Unlisted(t, i, u) ==
    /\ u \in TxnType /\ SameButLocks(t, u) /\ u.maxLock = t.maxLock
    /\ Len(u.locks) = Len(t.locks) - 1
    /\ \A j \in 1 .. Len(u.locks) :
          \E m \in 1 .. Len(t.locks) : m # i /\ u.locks[j] = t.locks[m]
    /\ Lockers(u) = Lockers(t) \ {t.locks[i].holder}
    /\ Distinct(u)

\* Releasing a shared lock takes the holder, and nobody else, off the list.
LEMMA UnlockSharedFields ==
    ASSUME NEW t \in TxnType, Distinct(t), NEW i \in 1 .. Len(t.locks),
           NEW u, u = UnlockShared(t, i)
    PROVE  Unlisted(t, i, u)
<1> DEFINE n == Len(t.locks)
           s == [j \in 1 .. n - 1 |-> IF j = i THEN t.locks[n] ELSE t.locks[j]]
<1>1. n \in Nat /\ n >= 1 /\ \A j \in 1 .. n : t.locks[j] \in LockType
    BY ListTypes
<1>2. s \in Seq(LockType) /\ Len(s) = n - 1
    <2>1. \A j \in 1 .. n - 1 : (IF j = i THEN t.locks[n] ELSE t.locks[j]) \in LockType
        BY <1>1
    <2>2. s \in [1 .. n - 1 -> LockType]
        BY <2>1
    <2> HIDE DEF s, n
    <2> QED BY <1>1, <2>2
<1>3. u \in TxnType /\ SameButLocks(t, u) /\ u.maxLock = t.maxLock /\ u.locks = s
    <2>1. u = [t EXCEPT !.locks = s]
        BY DEF UnlockShared
    <2> HIDE DEF s
    <2> QED BY <1>2, <2>1 DEF TxnType, SameButLocks
<1> DEFINE from(j) == IF j = i THEN n ELSE j
<1>5. \A j \in 1 .. n - 1 : from(j) \in 1 .. n /\ from(j) # i /\ s[j] = t.locks[from(j)]
    BY <1>1
<1>6. \A m \in 1 .. n : m # i => \E j \in 1 .. n - 1 : from(j) = m
    <2> SUFFICES ASSUME NEW m \in 1 .. n, m # i PROVE \E j \in 1 .. n - 1 : from(j) = m
        OBVIOUS
    <2>1. CASE m = n
        BY <1>1, <2>1
    <2>2. CASE m # n
        BY <1>1, <2>2
    <2> QED BY <2>1, <2>2
<1>7. \A j, m \in 1 .. n - 1 : from(j) = from(m) => j = m
    BY <1>1
<1> HIDE DEF from, s, n
<1>8. Lockers(u) = Lockers(t) \ {t.locks[i].holder}
    <2>1. ASSUME NEW c \in Lockers(u) PROVE c \in Lockers(t) /\ c # t.locks[i].holder
        <3>1. PICK j \in 1 .. n - 1 : c = s[j].holder
            BY <1>2, <1>3 DEF Lockers
        <3> QED BY <3>1, <1>5 DEF Lockers, Distinct, n
    <2>2. ASSUME NEW c \in Lockers(t), c # t.locks[i].holder PROVE c \in Lockers(u)
        <3>1. PICK m \in 1 .. n : c = t.locks[m].holder
            BY DEF Lockers, n
        <3>2. PICK j \in 1 .. n - 1 : from(j) = m
            BY <3>1, <2>2, <1>6
        <3> QED BY <3>1, <3>2, <1>5, <1>2, <1>3 DEF Lockers
    <2> QED BY <2>1, <2>2
<1>9. Distinct(u)
    <2> SUFFICES ASSUME NEW j \in 1 .. n - 1, NEW m \in 1 .. n - 1, s[j].holder = s[m].holder
                 PROVE  j = m
        BY <1>2, <1>3 DEF Distinct
    <2>1. from(j) \in 1 .. n /\ from(m) \in 1 .. n
          /\ t.locks[from(j)].holder = t.locks[from(m)].holder
        BY <1>5
    <2>2. from(j) = from(m)
        BY <2>1 DEF Distinct, n
    <2> QED BY <2>2, <1>7
<1> QED BY <1>2, <1>3, <1>5, <1>8, <1>9 DEF n, Unlisted

-----------------------------------------------------------------------------
(* The objects at work *)

\* The streams, updates and statements of cursors cu and operations ic, and who has any.
StreamsOf(cu, c) == {s \in Cursors \X (1 .. MaxReads) : Owner[s[1]] = c /\ s[2] <= cu[s[1]].reads}
Upd(cu) == {k \in Cursors : cu[k].mode = "update"}
Dml(ic) == {c \in Clients : ic[c].kind = "dml"}
Working(cu, ic, b, c) ==
    \/ c \in b
    \/ \E k \in Cursors : Owner[k] = c /\ (cu[k].reads > 0 \/ cu[k].mode = "update")
    \/ ic[c].kind # "none"

\* The fields of a cursor and of an operation.
LEMMA ObjectTypes ==
    /\ \A cu \in CurType, k \in Cursors :
          /\ cu[k].mode \in {"closed", "ready", "update"} /\ cu[k].dirty \in BOOLEAN
          /\ cu[k].reads \in 0 .. MaxReads /\ cu[k].reads \in Nat
          /\ cu[k].stale \in BOOLEAN /\ cu[k].connected \in BOOLEAN
    /\ \A ic \in IncType, c \in Clients :
          ic[c].kind \in {"none", "dml", "ddl", "compact", "recover"} /\ ic[c].failed \in BOOLEAN
    /\ \A k \in Cursors : Owner[k] \in Clients
    /\ MaxReads \in Nat /\ MaxOps \in Nat /\ ELockListGranularity \in Nat /\ ELockListGranularity >= 1
<1>1. ASSUME NEW cu \in CurType, NEW k \in Cursors
      PROVE  /\ cu[k].mode \in {"closed", "ready", "update"} /\ cu[k].dirty \in BOOLEAN
             /\ cu[k].reads \in 0 .. MaxReads /\ cu[k].reads \in Nat
             /\ cu[k].stale \in BOOLEAN /\ cu[k].connected \in BOOLEAN
    BY DbAssumption DEF CurType, CursorType
<1>2. ASSUME NEW ic \in IncType, NEW c \in Clients
      PROVE  ic[c].kind \in {"none", "dml", "ddl", "compact", "recover"} /\ ic[c].failed \in BOOLEAN
    BY DEF IncType
<1> QED BY <1>1, <1>2, DbAssumption

\* The streams of a client are finitely many, and none exactly if no cursor of its has one.
LEMMA StreamsFacts ==
    ASSUME NEW cu \in CurType, NEW c \in Clients
    PROVE  /\ IsFiniteSet(StreamsOf(cu, c)) /\ Cardinality(StreamsOf(cu, c)) \in Nat
           /\ Cardinality(StreamsOf(cu, c)) = 0 <=>
                 \A k \in Cursors : Owner[k] = c => cu[k].reads = 0
<1> DEFINE S == StreamsOf(cu, c)
<1>1. IsFiniteSet(Cursors \X (1 .. MaxReads))
    <2>1. IsFiniteSet(1 .. MaxReads)
        BY DbAssumption, FS_Interval
    <2> QED BY <2>1, DbAssumption, FS_Product
<1>2. IsFiniteSet(S)
    BY <1>1, FS_Subset DEF StreamsOf
<1>3. Cardinality(S) \in Nat /\ (Cardinality(S) = 0 <=> S = {})
    BY <1>2, FS_CardinalityType, FS_EmptySet
<1>4. ASSUME NEW k \in Cursors, Owner[k] = c, cu[k].reads # 0 PROVE S # {}
    <2>1. cu[k].reads \in 1 .. MaxReads
        BY <1>4, ObjectTypes
    <2>2. <<k, cu[k].reads>> \in S
        BY <1>4, <2>1 DEF StreamsOf
    <2> QED BY <2>2
<1>5. ASSUME NEW s \in S PROVE \E k \in Cursors : Owner[k] = c /\ cu[k].reads # 0
    <2>1. s[1] \in Cursors /\ Owner[s[1]] = c /\ s[2] \in 1 .. MaxReads /\ s[2] <= cu[s[1]].reads
        BY DEF StreamsOf
    <2> QED BY <2>1, ObjectTypes
<1> QED BY <1>2, <1>3, <1>4, <1>5

\* The updating cursors and the statements are finitely many.
LEMMA UpdFacts ==
    ASSUME NEW cu \in CurType, NEW ic \in IncType
    PROVE  /\ IsFiniteSet(Upd(cu)) /\ Cardinality(Upd(cu)) \in Nat
           /\ Cardinality(Upd(cu)) = 0 <=> \A k \in Cursors : cu[k].mode # "update"
           /\ IsFiniteSet(Dml(ic)) /\ Cardinality(Dml(ic)) \in Nat
           /\ Cardinality(Dml(ic)) = 0 <=> \A c \in Clients : ic[c].kind # "dml"
<1>1. IsFiniteSet(Upd(cu)) /\ IsFiniteSet(Dml(ic))
    BY DbAssumption, FS_Subset DEF Upd, Dml
<1>2. /\ Cardinality(Upd(cu)) \in Nat /\ (Cardinality(Upd(cu)) = 0 <=> Upd(cu) = {})
      /\ Cardinality(Dml(ic)) \in Nat /\ (Cardinality(Dml(ic)) = 0 <=> Dml(ic) = {})
    BY <1>1, FS_CardinalityType, FS_EmptySet
<1>3. /\ Upd(cu) = {} <=> \A k \in Cursors : cu[k].mode # "update"
      /\ Dml(ic) = {} <=> \A c \in Clients : ic[c].kind # "dml"
    BY DEF Upd, Dml
<1> QED BY <1>1, <1>2, <1>3

\* A stream that is opened counts once, for the owner of the cursor.
LEMMA StreamsMore ==
    ASSUME NEW cu \in CurType, NEW dv \in CurType, NEW k \in Cursors,
           dv[k].reads = cu[k].reads + 1,
           \A j \in Cursors : j # k => dv[j].reads = cu[j].reads
    PROVE  /\ Cardinality(StreamsOf(dv, Owner[k])) = Cardinality(StreamsOf(cu, Owner[k])) + 1
           /\ \A c \in Clients : c # Owner[k] => StreamsOf(dv, c) = StreamsOf(cu, c)
<1> DEFINE c == Owner[k]
           s == <<k, cu[k].reads + 1>>
           S == StreamsOf(cu, c)
           T == StreamsOf(dv, c)
<1>1. c \in Clients /\ cu[k].reads \in Nat /\ cu[k].reads + 1 \in 1 .. MaxReads
    BY ObjectTypes
<1>2. s \in Cursors \X (1 .. MaxReads) /\ s[1] = k /\ s[2] = cu[k].reads + 1
    BY <1>1
<1>3. ASSUME NEW x \in Cursors \X (1 .. MaxReads), x # s
      PROVE  x[2] <= dv[x[1]].reads <=> x[2] <= cu[x[1]].reads
    <2>1. x[1] \in Cursors /\ x[2] \in 1 .. MaxReads /\ x = <<x[1], x[2]>>
        OBVIOUS
    <2>2. CASE x[1] = k
        <3>1. x[2] # cu[k].reads + 1
            BY <2>1, <2>2, <1>3
        <3> QED BY <1>1, <2>1, <2>2, <3>1
    <2>3. CASE x[1] # k
        BY <2>1, <2>3
    <2> QED BY <2>2, <2>3
<1>4. s \in T /\ s \notin S
    BY <1>1, <1>2 DEF StreamsOf
<1>5. T = S \cup {s}
    BY <1>2, <1>3, <1>4 DEF StreamsOf
<1>6. Cardinality(T) = Cardinality(S) + 1
    BY <1>1, <1>4, <1>5, StreamsFacts, FS_AddElement, ZenonT(60)
<1>7. ASSUME NEW e \in Clients, e # c PROVE StreamsOf(dv, e) = StreamsOf(cu, e)
    BY <1>2, <1>3, <1>7 DEF StreamsOf
<1> QED BY <1>6, <1>7

\* Streams are counted by the reads of the cursors.
LEMMA StreamsSame ==
    ASSUME NEW cu, NEW dv, NEW c, \A k \in Cursors : Owner[k] = c => dv[k].reads = cu[k].reads
    PROVE  StreamsOf(dv, c) = StreamsOf(cu, c)
BY DEF StreamsOf

\* An update that begins counts once.
LEMMA UpdMore ==
    ASSUME NEW cu \in CurType, NEW dv \in CurType, NEW k \in Cursors,
           cu[k].mode # "update", dv[k].mode = "update",
           \A j \in Cursors : j # k => (dv[j].mode = "update" <=> cu[j].mode = "update")
    PROVE  Cardinality(Upd(dv)) = Cardinality(Upd(cu)) + 1
<1>1. Upd(dv) = Upd(cu) \cup {k} /\ k \notin Upd(cu)
    BY DEF Upd
<1>2. IsFiniteSet(Upd(cu))
    BY DbAssumption, FS_Subset DEF Upd
<1> QED BY <1>1, <1>2, FS_AddElement

\* Updates are counted by the modes of the cursors.
LEMMA UpdSame ==
    ASSUME NEW cu, NEW dv, \A k \in Cursors : dv[k].mode = "update" <=> cu[k].mode = "update"
    PROVE  Upd(dv) = Upd(cu)
BY DEF Upd

\* A statement that begins counts once.
LEMMA DmlMore ==
    ASSUME NEW ic \in IncType, NEW jc \in IncType, NEW c \in Clients,
           ic[c].kind # "dml", jc[c].kind = "dml",
           \A e \in Clients : e # c => jc[e].kind = ic[e].kind
    PROVE  Cardinality(Dml(jc)) = Cardinality(Dml(ic)) + 1
<1>1. Dml(jc) = Dml(ic) \cup {c} /\ c \notin Dml(ic)
    BY DEF Dml
<1>2. IsFiniteSet(Dml(ic))
    BY DbAssumption, FS_Subset DEF Dml
<1> QED BY <1>1, <1>2, FS_AddElement

\* Statements are counted by the kinds of the operations.
LEMMA DmlSame ==
    ASSUME NEW ic, NEW jc, \A c \in Clients : jc[c].kind = "dml" <=> ic[c].kind = "dml"
    PROVE  Dml(jc) = Dml(ic)
BY DEF Dml

-----------------------------------------------------------------------------
(***************************************************************************)
(* The inductive invariant, of a transaction t, cursors cu, operations ic  *)
(* and clients b in a transaction.  Ledger: the list of locks and the      *)
(* count of updates are those of the objects at work.                      *)
(***************************************************************************)
Ledger(t, cu, ic, b) ==
    /\ Distinct(t)
    /\ \A c \in Clients : c \in Lockers(t) <=> Working(cu, ic, b, c)
    /\ \A i \in 1 .. Len(t.locks) :
          /\ t.locks[i].isTxn <=> t.locks[i].holder \in b
          /\ t.locks[i].reads = Cardinality(StreamsOf(cu, t.locks[i].holder))
    /\ t.updaters = Cardinality(Upd(cu)) + Cardinality(Dml(ic))

\* Fit: what is going on fits the kind of the lock.
Fit(t) ==
    /\ Len(t.locks) = 0 => t.lockState = EDbReadLock
    /\ t.lockState = EDbReadLock => t.action = EDbReadLock /\ Len(t.locks) <= t.maxLock
    /\ t.lockState # EDbReadLock => Len(t.locks) = 1
    /\ t.action # EDbXReadLock
    /\ t.action = EDbWriteLock <=> t.updaters # 0
    /\ (t.action \in {EDbCompactLock, EDbRecoveryLock}
            \/ t.lockState \in {EDbCompactLock, EDbRecoveryLock})
          => /\ t.action = t.lockState /\ ~t.locks[1].isTxn /\ t.locks[1].reads = 0
             /\ Touched(t.working) = Touched(t.stable)
    /\ t.action = EDbSchemaLock => t.lockState = EDbSchemaLock
    /\ t.action = EDbWriteLock /\ t.lockState = EDbSchemaLock => t.locks[1].isTxn
    /\ t.action = EDbReadLock /\ t.lockState # EDbReadLock => t.locks[1].isTxn

(***************************************************************************)
(* Objects: an incremental operation is what is going on, a change of the  *)
(* schema or a recovery leaves no cursor connected to its table, and busy  *)
(* cursors are connected.                                                  *)
(***************************************************************************)
Connected(cu) ==
    \A k \in Cursors : /\ cu[k].mode = "update" \/ cu[k].reads > 0 => cu[k].connected
                       /\ cu[k].mode = "closed" => cu[k].reads = 0 /\ ~cu[k].connected
Objects(t, cu, ic) ==
    /\ \A c \in Clients :
          /\ ic[c].kind = "ddl" => t.action = EDbSchemaLock
          /\ ic[c].kind = "compact" => t.action = EDbCompactLock
          /\ ic[c].kind = "recover" => t.action = EDbRecoveryLock
    /\ t.action \in {EDbSchemaLock, EDbRecoveryLock} => \A k \in Cursors : ~cu[k].connected
    /\ Connected(cu)

\* Bounded: a change of the schema was begun with room for its operation.
Bounded(t, ic) ==
    /\ t.working.done <= MaxOps /\ t.stable.done <= MaxOps
    /\ \A c \in Clients : ic[c].kind = "ddl" => t.working.done < MaxOps

(***************************************************************************)
(* Undoable: what was touched and is not committed is under a write lock,  *)
(* or a cursor's changed blobs.  Copying: copies of blobs are those of     *)
(* cursors that insert a row.                                              *)
(***************************************************************************)
Copying(t, cu) ==
    /\ t.stable.copied = {}
    /\ \A k \in Cursors : k \in t.working.copied => cu[k].mode = "update"
Undoable(t, cu) ==
    /\ Touched(t.working) # Touched(t.stable) =>
          t.lockState >= EDbWriteLock \/ \E k \in Cursors : cu[k].mode = "update" /\ cu[k].dirty
    /\ Copying(t, cu)

Types(t, cu, ic, b) == t \in TxnType /\ cu \in CurType /\ ic \in IncType /\ b \subseteq Clients
Inv(t, cu, ic, b) ==
    /\ Types(t, cu, ic, b) /\ Ledger(t, cu, ic, b) /\ Fit(t) /\ Objects(t, cu, ic)
    /\ Bounded(t, ic) /\ Undoable(t, cu)
IInv == Inv(txn, cur, inc, begun)

(***************************************************************************)
(* Torn changes have somebody to finish or undo them: the transaction has  *)
(* failed, so that it will be rolled back, or the cursor or operation that *)
(* made the change is still there.  Whole holds of careful clients.        *)
(***************************************************************************)
Owned(t, cu, ic, x) ==
    \/ t.failed
    \/ x \in Cursors /\ cu[x].mode = "update" /\ cu[x].dirty
    \/ x \in Clients /\ ic[x].kind \in {"dml", "ddl"}
Whole(t, cu, ic) ==
    /\ t.stable.torn = {}
    /\ \A x \in t.working.torn : Owned(t, cu, ic, x)
    /\ \A c \in Clients : ic[c].kind = "ddl" /\ ~ic[c].failed => ~t.failed

\* A step from t to u changes the content only under one client's lock.
Alone(t, u) ==
    u.working # t.working \/ u.stable # t.stable =>
        \E c : Lockers(t) \subseteq {c} /\ Lockers(u) \subseteq {c}

-----------------------------------------------------------------------------
(* What the invariant says of one state *)

\* While nothing is going on nobody updates and there is no incremental operation.
LEMMA Idle ==
    ASSUME NEW t, NEW cu, NEW ic, NEW b, Inv(t, cu, ic, b)
    PROVE  /\ t.updaters \in Nat
           /\ t.updaters = 0 => /\ \A k \in Cursors : cu[k].mode # "update"
                                /\ \A c \in Clients : ic[c].kind # "dml"
           /\ t.action # EDbWriteLock => t.updaters = 0
           /\ t.action \in {EDbReadLock, EDbWriteLock} =>
                 \A c \in Clients : ic[c].kind \in {"none", "dml"}
<1>1. t \in TxnType /\ cu \in CurType /\ ic \in IncType /\ Ledger(t, cu, ic, b) /\ Fit(t)
      /\ Objects(t, cu, ic)
    BY DEF Inv, Types
<1>2. /\ t.updaters \in Nat
      /\ t.updaters = 0 => /\ \A k \in Cursors : cu[k].mode # "update"
                           /\ \A c \in Clients : ic[c].kind # "dml"
    <2>1. t.updaters = Cardinality(Upd(cu)) + Cardinality(Dml(ic))
        BY <1>1 DEF Ledger
    <2> QED BY <1>1, <2>1, UpdFacts
<1>3. t.action # EDbWriteLock => t.updaters = 0
    BY <1>1 DEF Fit
<1>4. t.action \in {EDbReadLock, EDbWriteLock} => \A c \in Clients : ic[c].kind \in {"none", "dml"}
    BY <1>1, ObjectTypes, Enumerations DEF Objects
<1> QED BY <1>2, <1>3, <1>4

\* One update left is the cursor's or the statement's that has one.
LEMMA LastOne ==
    ASSUME NEW t, NEW cu, NEW ic, NEW b, Inv(t, cu, ic, b)
    PROVE  /\ \A k \in Cursors : cu[k].mode = "update" =>
                 /\ t.updaters > 0 /\ t.action = EDbWriteLock /\ t.lockState # EDbReadLock
                 /\ t.updaters = 1 => /\ \A j \in Cursors : cu[j].mode = "update" => j = k
                                      /\ \A c \in Clients : ic[c].kind # "dml"
           /\ \A c \in Clients : ic[c].kind = "dml" =>
                 /\ t.updaters > 0 /\ t.action = EDbWriteLock /\ t.lockState # EDbReadLock
                 /\ t.updaters = 1 => /\ \A e \in Clients : ic[e].kind = "dml" => e = c
                                      /\ \A k \in Cursors : cu[k].mode # "update"
<1>1. t \in TxnType /\ cu \in CurType /\ ic \in IncType /\ Ledger(t, cu, ic, b) /\ Fit(t)
    BY DEF Inv, Types
<1>2. t.updaters = Cardinality(Upd(cu)) + Cardinality(Dml(ic))
    BY <1>1 DEF Ledger
<1>3. ASSUME NEW k \in Cursors, cu[k].mode = "update"
      PROVE  /\ t.updaters > 0
             /\ t.updaters = 1 => /\ \A j \in Cursors : cu[j].mode = "update" => j = k
                                  /\ \A c \in Clients : ic[c].kind # "dml"
    <2>1. Cardinality(Upd(cu)) > 0
        BY <1>1, <1>3, UpdFacts
    <2>2. ASSUME t.updaters = 1 PROVE Cardinality(Upd(cu)) = 1 /\ Cardinality(Dml(ic)) = 0
        BY <1>1, <1>2, <2>1, <2>2, UpdFacts
    <2>3. ASSUME Cardinality(Upd(cu)) = 1, NEW j \in Cursors, cu[j].mode = "update" PROVE j = k
        <3>1. PICK x : Upd(cu) = {x}
            BY <1>1, <2>3, UpdFacts, FS_Singleton
        <3> QED BY <1>3, <2>3, <3>1 DEF Upd
    <2> QED BY <1>1, <1>2, <2>1, <2>2, <2>3, UpdFacts
<1>4. ASSUME NEW c \in Clients, ic[c].kind = "dml"
      PROVE  /\ t.updaters > 0
             /\ t.updaters = 1 => /\ \A e \in Clients : ic[e].kind = "dml" => e = c
                                  /\ \A k \in Cursors : cu[k].mode # "update"
    <2>1. Cardinality(Dml(ic)) > 0
        BY <1>1, <1>4, UpdFacts
    <2>2. ASSUME t.updaters = 1 PROVE Cardinality(Dml(ic)) = 1 /\ Cardinality(Upd(cu)) = 0
        BY <1>1, <1>2, <2>1, <2>2, UpdFacts
    <2>3. ASSUME Cardinality(Dml(ic)) = 1, NEW e \in Clients, ic[e].kind = "dml" PROVE e = c
        <3>1. PICK x : Dml(ic) = {x}
            BY <1>1, <2>3, UpdFacts, FS_Singleton
        <3> QED BY <1>4, <2>3, <3>1 DEF Dml
    <2> QED BY <1>1, <1>2, <2>1, <2>2, <2>3, UpdFacts
<1>5. t.updaters > 0 => t.action = EDbWriteLock /\ t.lockState # EDbReadLock
    BY <1>1, Enumerations DEF Fit
<1> QED BY <1>3, <1>4, <1>5

\* Whoever is at work under an exclusive lock is the one holder.
LEMMA Sole ==
    ASSUME NEW t, NEW cu, NEW ic, NEW b, Inv(t, cu, ic, b), Len(t.locks) = 1
    PROVE  /\ t.locks[1] \in LockType /\ t.locks[1].holder \in Clients
           /\ Lockers(t) = {t.locks[1].holder} /\ t.locks # <<>>
           /\ \A c \in Clients : Working(cu, ic, b, c) <=> c = t.locks[1].holder
           /\ t.locks[1].isTxn <=> t.locks[1].holder \in b
           /\ t.locks[1].reads = 0 <=> \A k \in Cursors : cu[k].reads = 0
<1>1. t \in TxnType /\ cu \in CurType /\ Ledger(t, cu, ic, b)
    BY DEF Inv, Types
<1>2. t.locks[1] \in LockType /\ t.locks[1].holder \in Clients /\ t.locks # <<>>
    BY <1>1, ListTypes
<1>3. Lockers(t) = {t.locks[1].holder}
    BY DEF Lockers
<1>4. \A c \in Clients : Working(cu, ic, b, c) <=> c = t.locks[1].holder
    BY <1>1, <1>2, <1>3 DEF Ledger
<1>5. /\ t.locks[1].isTxn <=> t.locks[1].holder \in b
      /\ t.locks[1].reads = Cardinality(StreamsOf(cu, t.locks[1].holder))
    BY <1>1 DEF Ledger
<1>6. ASSUME NEW k \in Cursors, cu[k].reads # 0 PROVE Owner[k] = t.locks[1].holder
    <2>1. Owner[k] \in Clients /\ cu[k].reads > 0
        BY <1>1, <1>6, ObjectTypes
    <2>2. Working(cu, ic, b, Owner[k])
        BY <2>1 DEF Working
    <2> QED BY <1>4, <2>1, <2>2
<1>7. t.locks[1].reads = 0 <=> \A k \in Cursors : cu[k].reads = 0
    BY <1>1, <1>2, <1>5, <1>6, StreamsFacts
<1> QED BY <1>2, <1>3, <1>4, <1>5, <1>7

\* Nobody is at work while there is no lock.
LEMMA Nobody ==
    ASSUME NEW t, NEW cu, NEW ic, NEW b, Inv(t, cu, ic, b), Len(t.locks) = 0
    PROVE  /\ Lockers(t) = {} /\ \A c \in Clients : ~Working(cu, ic, b, c)
           /\ \A k \in Cursors : cu[k].reads = 0 /\ cu[k].mode # "update"
           /\ \A c \in Clients : ic[c].kind = "none" /\ c \notin b
           /\ t.lockState = EDbReadLock /\ t.action = EDbReadLock /\ t.updaters = 0
<1>1. t \in TxnType /\ cu \in CurType /\ Ledger(t, cu, ic, b) /\ Fit(t)
    BY DEF Inv, Types
<1>2. Lockers(t) = {}
    BY DEF Lockers
<1>3. \A c \in Clients : ~Working(cu, ic, b, c)
    BY <1>1, <1>2 DEF Ledger
<1>4. \A c \in Clients : ic[c].kind = "none" /\ c \notin b
    BY <1>3 DEF Working
<1>5. \A k \in Cursors : cu[k].reads = 0 /\ cu[k].mode # "update"
    <2> SUFFICES ASSUME NEW k \in Cursors PROVE cu[k].reads = 0 /\ cu[k].mode # "update"
        OBVIOUS
    <2>1. Owner[k] \in Clients /\ cu[k].reads \in Nat
        BY <1>1, ObjectTypes
    <2> QED BY <1>3, <2>1 DEF Working
<1>6. t.lockState = EDbReadLock /\ t.action = EDbReadLock /\ t.updaters = 0
    BY <1>1, Enumerations DEF Fit
<1> QED BY <1>2, <1>3, <1>4, <1>5, <1>6

\* Without an update there are no copies of blobs.
LEMMA NoCopies ==
    ASSUME NEW t \in TxnType, NEW cu, Undoable(t, cu), \A k \in Cursors : cu[k].mode # "update"
    PROVE  /\ t.working.copied = {} /\ t.stable.copied = {}
           /\ Touched(t.working) # Touched(t.stable) => t.lockState >= EDbWriteLock
<1>1. t.working.copied \subseteq Cursors
    BY DEF TxnType, ContentType
<1>2. t.working.copied = {} /\ t.stable.copied = {}
    BY <1>1 DEF Undoable, Copying
<1>3. Touched(t.working) # Touched(t.stable) => t.lockState >= EDbWriteLock
    BY DEF Undoable
<1> QED BY <1>2, <1>3

-----------------------------------------------------------------------------
(* What the kinds of step do to the invariant *)

\* A state without locks in which nobody is at work.
LEMMA Released ==
    ASSUME NEW u \in TxnType, NEW dv \in CurType, NEW jc \in IncType, NEW d,
           d = {}, u.locks = <<>>, u.updaters = 0,
           u.action = EDbReadLock, u.lockState = EDbReadLock,
           \A k \in Cursors : dv[k].reads = 0 /\ dv[k].mode # "update",
           \A c \in Clients : jc[c].kind = "none", Connected(dv),
           Touched(u.working) = Touched(u.stable), u.stable.done <= MaxOps,
           u.working.copied = {}, u.stable.copied = {}
    PROVE  Inv(u, dv, jc, d) /\ Lockers(u) = {}
<1>1. Len(u.locks) = 0 /\ Lockers(u) = {} /\ u.maxLock \in Nat
    BY ListTypes DEF TxnType
<1>2. Cardinality(Upd(dv)) = 0 /\ Cardinality(Dml(jc)) = 0
    BY UpdFacts
<1>3. \A c \in Clients : ~Working(dv, jc, d, c)
    BY ObjectTypes DEF Working
<1>4. Ledger(u, dv, jc, d)
    BY <1>1, <1>2, <1>3 DEF Ledger, Distinct
<1>5. Fit(u)
    BY <1>1, Enumerations DEF Fit
<1>6. Objects(u, dv, jc) /\ Undoable(u, dv)
    BY Enumerations DEF Objects, Undoable, Copying
<1>7. Bounded(u, jc)
    BY TouchedSame DEF Bounded
<1> QED BY <1>1, <1>4, <1>5, <1>6, <1>7 DEF Inv, Types

\* The list stays, and so do the clients at work and their streams.
LEMMA SameList ==
    ASSUME NEW t, NEW cu, NEW ic, NEW b, Ledger(t, cu, ic, b), t \in TxnType,
           NEW u \in TxnType, NEW dv, NEW jc, u.locks = t.locks,
           \A k \in Cursors : dv[k].reads = cu[k].reads,
           \A c \in Clients : Working(dv, jc, b, c) <=> Working(cu, ic, b, c),
           u.updaters = Cardinality(Upd(dv)) + Cardinality(Dml(jc))
    PROVE  Ledger(u, dv, jc, b) /\ Lockers(u) = Lockers(t)
<1>1. Lockers(u) = Lockers(t) /\ Distinct(u)
    BY DEF Lockers, Distinct, Ledger
<1>2. \A c \in Clients : StreamsOf(dv, c) = StreamsOf(cu, c)
    BY StreamsSame
<1>3. \A i \in 1 .. Len(t.locks) : t.locks[i].holder \in Clients
    BY ListTypes
<1> QED BY <1>1, <1>2, <1>3 DEF Ledger

\* Nothing the ledger is about changes.
LEMMA SameWork ==
    ASSUME NEW t, NEW cu, NEW ic, NEW b, Ledger(t, cu, ic, b), t \in TxnType,
           NEW u \in TxnType, NEW dv, NEW jc, u.locks = t.locks, u.updaters = t.updaters,
           \A k \in Cursors : /\ dv[k].reads = cu[k].reads
                              /\ dv[k].mode = "update" <=> cu[k].mode = "update",
           \A c \in Clients : jc[c].kind = ic[c].kind
    PROVE  Ledger(u, dv, jc, b) /\ Lockers(u) = Lockers(t)
<1>1. \A c \in Clients : Working(dv, jc, b, c) <=> Working(cu, ic, b, c)
    BY DEF Working
<1>2. Upd(dv) = Upd(cu) /\ Dml(jc) = Dml(ic)
    BY UpdSame, DmlSame
<1>3. u.updaters = Cardinality(Upd(dv)) + Cardinality(Dml(jc))
    BY <1>2 DEF Ledger
<1> QED BY <1>1, <1>3, SameList

\* What PrepareXLockL lets through: nobody but c has a lock.
LEMMA MayExcludeFacts ==
    ASSUME NEW t, NEW cu, NEW ic, NEW b, Inv(t, cu, ic, b), NEW c \in Clients, MayExclude(t, c)
    PROVE  /\ Lockers(t) \subseteq {c} /\ \A e \in Clients : Working(cu, ic, b, e) => e = c
           /\ Len(t.locks) = 0 \/ (Len(t.locks) = 1 /\ t.locks[1].holder = c)
<1>1. t \in TxnType /\ Ledger(t, cu, ic, b)
    BY DEF Inv, Types
<1>2. Len(t.locks) = 0 \/ (Len(t.locks) = 1 /\ t.locks[1].holder = c)
    BY <1>1, ListTypes DEF MayExclude, Primary
<1>3. Lockers(t) \subseteq {c}
    BY <1>2 DEF Lockers
<1> QED BY <1>1, <1>2, <1>3 DEF Ledger

\* The client that may exclude the others gets, or already has, the only lock.
LEMMA Excluded ==
    ASSUME NEW t, NEW cu, NEW ic, NEW b, Inv(t, cu, ic, b), NEW c \in Clients, MayExclude(t, c)
    PROVE  LET s == Exclude(t, c)
           IN  /\ s \in Seq(LockType) /\ Len(s) = 1
               /\ s[1].holder = c /\ s[1].isTxn \in BOOLEAN
               /\ s[1].isTxn <=> c \in b
               /\ s[1].reads = Cardinality(StreamsOf(cu, c)) /\ s[1].reads \in Nat
               /\ Len(t.locks) = 1 => s = t.locks
               /\ Len(t.locks) = 0 => ~s[1].isTxn /\ s[1].reads = 0
<1> DEFINE s == Exclude(t, c)
<1>1. t \in TxnType /\ cu \in CurType /\ Ledger(t, cu, ic, b)
    BY DEF Inv, Types
<1>2. Len(t.locks) = 0 \/ (Len(t.locks) = 1 /\ t.locks[1].holder = c)
    BY MayExcludeFacts
<1>3. s \in Seq(LockType)
    BY <1>1, ExcludeType
<1>4. CASE Len(t.locks) = 0
    <2>1. s = <<Lock(c, FALSE, 0)>>
        BY <1>1, <1>4, ListTypes DEF Exclude
    <2>2. Len(s) = 1 /\ s # <<>> /\ s[1] = Lock(c, FALSE, 0)
        BY <2>1, OneElement
    <2>3. s[1].holder = c /\ s[1].isTxn = FALSE /\ s[1].reads = 0
        BY <2>2 DEF Lock
    <2>4. c \notin b /\ \A k \in Cursors : cu[k].reads = 0
        BY <1>4, Nobody
    <2>5. Cardinality(StreamsOf(cu, c)) = 0
        BY <1>1, <2>4, StreamsFacts
    <2>6. s[1].isTxn \in BOOLEAN /\ ~s[1].isTxn /\ (s[1].isTxn <=> c \in b)
        BY <2>3, <2>4
    <2>7. s[1].reads = 0 /\ s[1].reads \in Nat /\ s[1].reads = Cardinality(StreamsOf(cu, c))
        BY <2>3, <2>5
    <2>8. ~(Len(t.locks) = 1)
        BY <1>4
    <2> QED BY <1>3, <2>2, <2>3, <2>6, <2>7, <2>8, Zenon
<1>5. CASE Len(t.locks) = 1 /\ t.locks[1].holder = c
    <2>1. s = t.locks /\ s # <<>>
        BY <1>1, <1>5, ListTypes DEF Exclude
    <2>2. s[1].isTxn \in BOOLEAN
        BY <1>1, <1>5, <2>1, ListTypes
    <2>3. s[1].isTxn <=> c \in b
        BY <1>1, <1>5, <2>1 DEF Ledger
    <2>4. s[1].reads = Cardinality(StreamsOf(cu, c))
        BY <1>1, <1>5, <2>1 DEF Ledger
    <2>5. s[1].reads \in Nat
        BY <1>1, <2>4, StreamsFacts
    <2> QED BY <1>3, <1>5, <2>1, <2>2, <2>3, <2>4, <2>5
<1> QED BY <1>2, <1>4, <1>5

\* The ledger of a state with one holder.
LEMMA OneHolder ==
    ASSUME NEW u \in TxnType, NEW dv, NEW jc, NEW b, NEW h \in Clients,
           Len(u.locks) = 1, u.locks[1].holder = h, u.locks[1].isTxn <=> h \in b,
           u.locks[1].reads = Cardinality(StreamsOf(dv, h)),
           \A c \in Clients : Working(dv, jc, b, c) <=> c = h,
           u.updaters = Cardinality(Upd(dv)) + Cardinality(Dml(jc))
    PROVE  Ledger(u, dv, jc, b) /\ Lockers(u) = {h}
<1>1. Lockers(u) = {h}
    BY DEF Lockers
<1>2. Distinct(u)
    BY DEF Distinct
<1> QED BY <1>1, <1>2 DEF Ledger

-----------------------------------------------------------------------------
(* The end of an update *)

\* Cursors that lose their table stay as they are otherwise.
LEMMA CursorsLose ==
    ASSUME NEW cu \in CurType, NEW all
    PROVE  /\ Disconnected(cu, all) \in CurType
           /\ \A k \in Cursors :
                 /\ Disconnected(cu, all)[k].mode = cu[k].mode
                 /\ Disconnected(cu, all)[k].reads = cu[k].reads
                 /\ Disconnected(cu, all)[k].dirty = cu[k].dirty
                 /\ Disconnected(cu, all)[k].connected <=>
                       cu[k].connected /\ (cu[k].mode = "closed" \/ ~all)
<1>1. Disconnected(cu, all) \in CurType
    BY DEF Disconnected, CurType, CursorType
<1>2. ASSUME NEW k \in Cursors
      PROVE  /\ Disconnected(cu, all)[k].mode = cu[k].mode
             /\ Disconnected(cu, all)[k].reads = cu[k].reads
             /\ Disconnected(cu, all)[k].dirty = cu[k].dirty
    BY DEF Disconnected, CurType, CursorType
<1>3. ASSUME NEW k \in Cursors
      PROVE  Disconnected(cu, all)[k].connected <=>
                cu[k].connected /\ (cu[k].mode = "closed" \/ ~all)
    <2>1. CASE cu[k].mode = "closed" \/ ~all
        BY <2>1 DEF Disconnected
    <2>2. CASE ~(cu[k].mode = "closed" \/ ~all)
        <3>1. Disconnected(cu, all)[k] = [cu[k] EXCEPT !.connected = FALSE]
            BY <2>2 DEF Disconnected
        <3>2. [cu[k] EXCEPT !.connected = FALSE].connected = FALSE
            BY DEF CurType, CursorType
        <3> QED BY <2>2, <3>1, <3>2
    <2> QED BY <2>1, <2>2
<1> QED BY <1>1, <1>2, <1>3

\* Cursors that notice a rollback stay as they are otherwise.
LEMMA CursorsNotice ==
    ASSUME NEW t, NEW cu \in CurType
    PROVE  /\ Abandoned(t, cu) \in CurType
           /\ \A k \in Cursors :
                 /\ Abandoned(t, cu)[k].mode = cu[k].mode
                 /\ Abandoned(t, cu)[k].reads = cu[k].reads
                 /\ Abandoned(t, cu)[k].dirty = cu[k].dirty
                 /\ Abandoned(t, cu)[k].connected = cu[k].connected
BY DEF Abandoned, CurType, CursorType

\* After a rollback the cursors do what they did.
LEMMA CursorsAfter ==
    ASSUME NEW t, NEW cu \in CurType, NEW dw,
           dw = Disconnected(Abandoned(t, cu), t.lockState = EDbSchemaLock)
    PROVE  /\ dw \in CurType
           /\ \A k \in Cursors : /\ dw[k].mode = cu[k].mode /\ dw[k].reads = cu[k].reads
                                 /\ dw[k].connected => cu[k].connected
<1> DEFINE m == Abandoned(t, cu)
           all == t.lockState = EDbSchemaLock
<1>1. /\ m \in CurType
      /\ \A k \in Cursors : /\ m[k].mode = cu[k].mode /\ m[k].reads = cu[k].reads
                            /\ m[k].connected = cu[k].connected
    BY CursorsNotice
<1>2. dw = Disconnected(m, all)
    OBVIOUS
<1> HIDE DEF m, all
<1>3. /\ Disconnected(m, all) \in CurType
      /\ \A k \in Cursors : /\ Disconnected(m, all)[k].mode = m[k].mode
                            /\ Disconnected(m, all)[k].reads = m[k].reads
                            /\ Disconnected(m, all)[k].connected => m[k].connected
    BY <1>1, CursorsLose
<1> QED BY <1>1, <1>2, <1>3

\* Nobody is at work.
AtRest(cu, ic, b) ==
    /\ cu \in CurType /\ ic \in IncType /\ b = {}
    /\ \A k \in Cursors : cu[k].reads = 0 /\ cu[k].mode # "update"
    /\ \A c \in Clients : ic[c].kind = "none"
    /\ Connected(cu)

\* Cursors that stay as they are, but for losing their table.
LEMMA StillConnected ==
    ASSUME NEW cu \in CurType, NEW dw \in CurType, Connected(cu),
           \A k \in Cursors : /\ cu[k].reads = 0 /\ cu[k].mode # "update"
                              /\ dw[k].mode = cu[k].mode /\ dw[k].reads = cu[k].reads
                              /\ dw[k].connected => cu[k].connected
    PROVE  Connected(dw)
BY ObjectTypes DEF Connected

\* Revert where nobody is left at work: what is not committed is undone.
LEMMA Reverted ==
    ASSUME NEW t \in TxnType, NEW dw, NEW jc, NEW d, AtRest(dw, jc, d),
           Touched(t.working) # Touched(t.stable) => t.lockState >= EDbWriteLock,
           t.stable.done <= MaxOps, t.working.copied = {}, t.stable.copied = {},
           NEW r \in Revert(t), NEW u, u = Unlocked(r)
    PROVE  /\ Inv(u, dw, jc, d) /\ Lockers(u) = {}
           /\ u.stable = t.stable /\ u.working.torn = t.stable.torn
<1>1. /\ r \in TxnType /\ r.stable = t.stable
      /\ r.working = IF t.lockState < EDbWriteLock THEN t.working ELSE t.stable
    BY RevertFields
<1>2. /\ u \in TxnType /\ u.locks = <<>> /\ u.updaters = 0 /\ u.action = EDbReadLock
      /\ u.lockState = EDbReadLock /\ u.working = r.working /\ u.stable = t.stable /\ ~u.failed
    BY <1>1, UnlockedFields
<1>3. Touched(u.working) = Touched(t.stable) /\ u.working.copied = {}
    <2>1. t.lockState \in 0 .. 5
        BY Enumerations DEF TxnType
    <2>2. CASE t.lockState < EDbWriteLock
        BY <1>1, <1>2, <2>1, <2>2, Enumerations
    <2>3. CASE ~(t.lockState < EDbWriteLock)
        BY <1>1, <1>2, <2>3
    <2> QED BY <2>2, <2>3
<1>4. Inv(u, dw, jc, d) /\ Lockers(u) = {}
    <2>1. /\ dw \in CurType /\ jc \in IncType /\ d = {}
          /\ \A k \in Cursors : dw[k].reads = 0 /\ dw[k].mode # "update"
          /\ (\A c \in Clients : jc[c].kind = "none") /\ Connected(dw)
        BY DEF AtRest
    <2> QED BY <1>2, <1>3, <2>1, Released
<1>5. u.working.torn = t.stable.torn
    BY <1>3, TouchedSame
<1> QED BY <1>2, <1>4, <1>5

(***************************************************************************)
(* An update of client h under way in t, with the objects there will be    *)
(* once it has ended: h holds the only lock, and t counts one update more. *)
(***************************************************************************)
InUpdate(t, h, dv, jc, b) ==
    /\ Types(t, dv, jc, b) /\ h \in Clients
    /\ Len(t.locks) = 1 /\ t.locks[1].holder = h /\ (t.locks[1].isTxn <=> h \in b)
    /\ t.locks[1].reads = Cardinality(StreamsOf(dv, h))
    /\ t.updaters = Cardinality(Upd(dv)) + Cardinality(Dml(jc)) + 1
    /\ \A c \in Clients : Working(dv, jc, b, c) => c = h
    /\ t.action = EDbWriteLock /\ t.lockState \in {EDbXReadLock, EDbWriteLock, EDbSchemaLock}
    /\ t.lockState = EDbSchemaLock => t.locks[1].isTxn
    /\ \A c \in Clients : jc[c].kind \in {"none", "dml"}
    /\ Connected(dv)
    /\ t.working.done <= MaxOps /\ t.stable.done <= MaxOps /\ Copying(t, dv)

\* It was the last update of an automatic transaction: nobody is left at work.
LEMMA LastUpdateFacts ==
    ASSUME NEW t, NEW h, NEW dv, NEW jc, NEW b, InUpdate(t, h, dv, jc, b),
           LastUpdate(t), Primary(t).reads = 0
    PROVE  /\ b = {} /\ t.lockState # EDbSchemaLock
           /\ \A k \in Cursors : dv[k].reads = 0 /\ dv[k].mode # "update"
           /\ \A c \in Clients : jc[c].kind = "none"
<1>1. t \in TxnType /\ dv \in CurType /\ jc \in IncType /\ b \subseteq Clients /\ h \in Clients
    BY DEF InUpdate, Types
<1>2. t.updaters = 1 /\ ~t.locks[1].isTxn /\ t.locks[1].reads = 0
    BY DEF LastUpdate, Primary
<1>3. h \notin b /\ t.lockState # EDbSchemaLock
    BY <1>2 DEF InUpdate
<1>4. Cardinality(Upd(dv)) = 0 /\ Cardinality(Dml(jc)) = 0
    BY <1>1, <1>2, UpdFacts DEF InUpdate
<1>5. \A k \in Cursors : dv[k].mode # "update"
    BY <1>1, <1>4, UpdFacts
<1>6. \A c \in Clients : jc[c].kind = "none"
    BY <1>1, <1>4, UpdFacts DEF InUpdate
<1>7. \A c \in Clients : Working(dv, jc, b, c) => c = h
    BY DEF InUpdate
<1>8. b = {}
    BY <1>1, <1>3, <1>7 DEF Working
<1>9. \A k \in Cursors : dv[k].reads = 0
    <2> SUFFICES ASSUME NEW k \in Cursors PROVE dv[k].reads = 0
        OBVIOUS
    <2>1. Owner[k] \in Clients /\ dv[k].reads \in Nat
        BY <1>1, ObjectTypes
    <2>2. dv[k].reads > 0 => Owner[k] = h
        BY <2>1, <1>7 DEF Working
    <2>3. Cardinality(StreamsOf(dv, h)) = 0
        BY <1>2 DEF InUpdate
    <2> QED BY <1>1, <2>1, <2>2, <2>3, StreamsFacts
<1> QED BY <1>3, <1>5, <1>6, <1>8, <1>9

\* Other updates, or the user's transaction, keep the lock.
LEMMA UpdateGoesOn ==
    ASSUME NEW t, NEW h, NEW dv, NEW jc, NEW b, InUpdate(t, h, dv, jc, b), ~LastUpdate(t),
           NEW u \in TxnType, u.locks = t.locks, u.updaters = t.updaters - 1,
           u.action = (IF t.updaters = 1 THEN EDbReadLock ELSE t.action),
           u.lockState = t.lockState, u.working = t.working, u.stable = t.stable,
           Undoable(u, dv)
    PROVE  Inv(u, dv, jc, b) /\ Lockers(u) = {h}
<1>1. t \in TxnType /\ dv \in CurType /\ jc \in IncType /\ b \subseteq Clients /\ h \in Clients
    BY DEF InUpdate, Types
<1>2. /\ u.updaters = Cardinality(Upd(dv)) + Cardinality(Dml(jc))
      /\ Len(u.locks) = 1 /\ u.locks[1].holder = h /\ (u.locks[1].isTxn <=> h \in b)
      /\ u.locks[1].reads = Cardinality(StreamsOf(dv, h))
    BY <1>1, UpdFacts DEF InUpdate
<1>3. t.locks[1].isTxn \/ t.updaters # 1
    BY DEF LastUpdate, Primary
<1>4. Working(dv, jc, b, h)
    <2>1. CASE t.locks[1].isTxn
        BY <2>1 DEF InUpdate, Working
    <2>2. CASE t.updaters # 1
        <3>1. Cardinality(Upd(dv)) # 0 \/ Cardinality(Dml(jc)) # 0
            BY <2>2, <1>1, UpdFacts DEF InUpdate
        <3>2. CASE Cardinality(Upd(dv)) # 0
            <4>1. PICK k \in Cursors : dv[k].mode = "update"
                BY <3>2, <1>1, UpdFacts
            <4>2. Owner[k] \in Clients /\ Working(dv, jc, b, Owner[k])
                BY <4>1, ObjectTypes DEF Working
            <4> QED BY <4>2 DEF InUpdate
        <3>3. CASE Cardinality(Dml(jc)) # 0
            <4>1. PICK c \in Clients : jc[c].kind = "dml"
                BY <3>3, <1>1, UpdFacts
            <4>2. Working(dv, jc, b, c)
                BY <4>1 DEF Working
            <4> QED BY <4>2 DEF InUpdate
        <3> QED BY <3>1, <3>2, <3>3
    <2> QED BY <1>3, <2>1, <2>2
<1>5. \A c \in Clients : Working(dv, jc, b, c) <=> c = h
    BY <1>4 DEF InUpdate
<1>6. Ledger(u, dv, jc, b) /\ Lockers(u) = {h}
    BY <1>1, <1>2, <1>5, OneHolder
<1>7. Fit(u)
    <2>1. u.updaters \in Nat /\ t.updaters = u.updaters + 1
        BY <1>1, <1>2, UpdFacts DEF InUpdate
    <2>2. t.action = EDbWriteLock /\ t.lockState \in {EDbXReadLock, EDbWriteLock, EDbSchemaLock}
          /\ (t.lockState = EDbSchemaLock => t.locks[1].isTxn)
        BY DEF InUpdate
    <2> QED BY <1>2, <1>3, <2>1, <2>2, Enumerations DEF Fit
<1>8. Objects(u, dv, jc)
    <2>1. u.action \in {EDbReadLock, EDbWriteLock}
        BY DEF InUpdate
    <2> QED BY <2>1, Enumerations DEF Objects, InUpdate
<1>9. Bounded(u, jc)
    BY DEF Bounded, InUpdate
<1> QED BY <1>1, <1>6, <1>7, <1>8, <1>9 DEF Inv, Types

\* Torn changes whose makers are still there.
Attended(w, cu, ic) ==
    \A x \in w.torn : \/ x \in Cursors /\ cu[x].mode = "update" /\ cu[x].dirty
                      \/ x \in Clients /\ ic[x].kind \in {"dml", "ddl"}

\* DMLCommitL ends an update that has been touched.
LEMMA CommitEnds ==
    ASSUME NEW t, NEW h, NEW dv, NEW jc, NEW b, InUpdate(t, h, dv, jc, b),
           t.lockState >= EDbWriteLock, NEW u,
           IF LastUpdate(t) THEN Primary(t).reads = 0 /\ u = Unlocked(Saved(t))
           ELSE u = [LessUpdater(t) EXCEPT !.failed = FALSE]
    PROVE  /\ Inv(u, dv, jc, b) /\ Lockers(u) \subseteq {h}
           /\ t.stable.torn = {} /\ Attended(t.working, dv, jc) => Whole(u, dv, jc)
<1>1. t \in TxnType /\ dv \in CurType /\ jc \in IncType /\ b \subseteq Clients
    BY DEF InUpdate, Types
<1>2. CASE LastUpdate(t)
    <2>1. Saved(t) \in TxnType /\ Saved(t).stable = t.working /\ Saved(t).working = t.working
        BY <1>1, SavedFields
    <2>2. /\ u \in TxnType /\ u.locks = <<>> /\ u.updaters = 0 /\ u.action = EDbReadLock
          /\ u.lockState = EDbReadLock /\ u.working = t.working /\ u.stable = t.working /\ ~u.failed
        BY <1>2, <2>1, UnlockedFields
    <2>3. /\ b = {} /\ \A k \in Cursors : dv[k].reads = 0 /\ dv[k].mode # "update"
          /\ \A c \in Clients : jc[c].kind = "none"
        BY <1>2, LastUpdateFacts
    <2>4. /\ u.working.done <= MaxOps /\ Connected(dv) /\ u.stable.done <= MaxOps
          /\ Touched(u.working) = Touched(u.stable)
        BY <2>2 DEF InUpdate
    <2>8. t.working.copied = {}
        <3>1. t.working.copied \subseteq Cursors
            BY <1>1 DEF TxnType, ContentType
        <3> QED BY <2>3, <3>1 DEF InUpdate, Copying
    <2>5. Inv(u, dv, jc, b) /\ Lockers(u) = {}
        BY <1>1, <2>2, <2>3, <2>4, <2>8, Released
    <2>6. Attended(t.working, dv, jc) => t.working.torn = {}
        BY <2>3 DEF Attended
    <2>7. t.working.torn = {} => Whole(u, dv, jc)
        BY <2>2 DEF Whole
    <2> QED BY <2>5, <2>6, <2>7
<1>3. CASE ~LastUpdate(t)
    <2> DEFINE v == LessUpdater(t)
    <2>1. /\ v \in TxnType /\ v.action = (IF t.updaters = 1 THEN EDbReadLock ELSE t.action)
          /\ v.updaters = t.updaters - 1 /\ v.lockState = t.lockState /\ v.locks = t.locks
          /\ v.working = t.working /\ v.stable = t.stable
        BY <1>1, LessFields
    <2>2. u = [v EXCEPT !.failed = FALSE]
        BY <1>3
    <2> HIDE DEF v
    <2>3. /\ u \in TxnType /\ u.action = v.action /\ u.updaters = v.updaters
          /\ u.lockState = v.lockState /\ u.locks = v.locks
          /\ u.working = v.working /\ u.stable = v.stable
        BY <2>1, <2>2 DEF TxnType
    <2>4. Undoable(u, dv)
        BY <2>1, <2>3 DEF Undoable, InUpdate, Copying
    <2>5. Inv(u, dv, jc, b) /\ Lockers(u) = {h}
        BY <1>3, <2>1, <2>3, <2>4, UpdateGoesOn
    <2>6. ASSUME t.stable.torn = {}, Attended(t.working, dv, jc) PROVE Whole(u, dv, jc)
        BY <2>1, <2>3, <2>6 DEF Whole, Attended, Owned, InUpdate
    <2> QED BY <2>5, <2>6
<1> QED BY <1>2, <1>3

\* DMLRollback ends an update; the rest of a transaction keeps what it has failed to do.
LEMMA RollbackEnds ==
    ASSUME NEW t, NEW h, NEW dv, NEW jc, NEW b, InUpdate(t, h, dv, jc, b), Undoable(t, dv), NEW u, NEW dw,
           IF LastUpdate(t)
           THEN /\ Primary(t).reads = 0 /\ (\E r \in Revert(t) : u = Unlocked(r))
                /\ dw = Disconnected(Abandoned(t, dv), t.lockState = EDbSchemaLock)
           ELSE u = LessUpdater(t) /\ dw = dv
    PROVE  /\ Inv(u, dw, jc, b) /\ Lockers(u) \subseteq {h}
           /\ t.stable.torn = {} /\ (LastUpdate(t) \/ \A x \in t.working.torn : Owned(t, dv, jc, x))
                 => Whole(u, dw, jc)
<1>1. t \in TxnType /\ dv \in CurType /\ jc \in IncType /\ b \subseteq Clients
    BY DEF InUpdate, Types
<1>2. CASE LastUpdate(t)
    <2>1. /\ b = {} /\ \A k \in Cursors : dv[k].reads = 0 /\ dv[k].mode # "update"
          /\ \A c \in Clients : jc[c].kind = "none"
        BY <1>2, LastUpdateFacts
    <2>2. /\ Touched(t.working) # Touched(t.stable) => t.lockState >= EDbWriteLock
          /\ t.working.copied = {} /\ t.stable.copied = {}
        <3>1. t.working.copied \subseteq Cursors
            BY <1>1 DEF TxnType, ContentType
        <3> QED BY <2>1, <3>1 DEF Undoable, Copying
    <2>3. t.stable.done <= MaxOps
        BY DEF InUpdate
    <2>4. Inv(u, dw, jc, b) /\ Lockers(u) = {} /\ u.stable = t.stable /\ u.working.torn = t.stable.torn
        <3>1. PICK r \in Revert(t) : u = Unlocked(r)
            BY <1>2
        <3>2. dw = Disconnected(Abandoned(t, dv), t.lockState = EDbSchemaLock)
            BY <1>2
        <3>3. /\ dw \in CurType
              /\ \A k \in Cursors : /\ dw[k].reads = dv[k].reads /\ dw[k].mode = dv[k].mode
                                    /\ dw[k].connected => dv[k].connected
            BY <1>1, <3>2, CursorsAfter
        <3>5. Connected(dv)
            BY DEF InUpdate
        <3>6. Connected(dw)
            BY <1>1, <2>1, <3>3, <3>5, StillConnected
        <3>4. AtRest(dw, jc, b)
            BY <1>1, <2>1, <3>3, <3>6 DEF AtRest
        <3> QED BY <1>1, <2>2, <2>3, <3>1, <3>4, Reverted, Zenon
    <2>5. t.stable.torn = {} => Whole(u, dw, jc)
        BY <2>1, <2>4 DEF Whole
    <2> QED BY <2>4, <2>5
<1>3. CASE ~LastUpdate(t)
    <2>1. /\ u \in TxnType /\ u.action = (IF t.updaters = 1 THEN EDbReadLock ELSE t.action)
          /\ u.updaters = t.updaters - 1 /\ u.lockState = t.lockState /\ u.locks = t.locks
          /\ u.working = t.working /\ u.stable = t.stable /\ u.failed = t.failed
        BY <1>1, <1>3, LessFields
    <2>2. dw = dv /\ Undoable(u, dv)
        BY <1>3, <2>1 DEF Undoable, Copying
    <2>3. Inv(u, dv, jc, b) /\ Lockers(u) = {h}
        BY <1>3, <2>1, <2>2, UpdateGoesOn
    <2>4. ASSUME t.stable.torn = {}, \A x \in t.working.torn : Owned(t, dv, jc, x)
          PROVE  Whole(u, dv, jc)
        BY <2>1, <2>4 DEF Whole, Owned, InUpdate
    <2> QED BY <1>3, <2>2, <2>3, <2>4
<1> QED BY <1>2, <1>3

\* The update of cursor k, once k has left it.
LEMMA CursorUpdate ==
    ASSUME NEW t, NEW cu, NEW ic, NEW b, Inv(t, cu, ic, b), NEW k \in Cursors,
           cu[k].mode = "update", NEW dv \in CurType, dv[k].mode # "update",
           dv[k].mode = "closed" => ~dv[k].connected, dv[k].reads = cu[k].reads, dv[k].reads = 0,
           \A j \in Cursors : j # k => dv[j] = cu[j],
           NEW v \in TxnType, v.locks = t.locks, v.updaters = t.updaters, v.action = t.action,
           v.lockState \in {t.lockState, IF t.lockState = EDbXReadLock THEN EDbWriteLock ELSE t.lockState},
           v.working.done <= MaxOps, v.stable = t.stable,
           v.working.copied \subseteq t.working.copied \ {k}
    PROVE  InUpdate(v, t.locks[1].holder, dv, ic, b) /\ Lockers(t) = {t.locks[1].holder}
<1> DEFINE h == t.locks[1].holder
<1>1. /\ t \in TxnType /\ cu \in CurType /\ ic \in IncType /\ b \subseteq Clients
      /\ Ledger(t, cu, ic, b) /\ Fit(t) /\ Objects(t, cu, ic)
    BY DEF Inv, Types
<1>2. t.updaters > 0 /\ t.action = EDbWriteLock /\ t.lockState # EDbReadLock
    BY LastOne
<1>3. Len(t.locks) = 1
    BY <1>1, <1>2 DEF Fit
<1>4. /\ h \in Clients /\ Lockers(t) = {h} /\ (t.locks[1].isTxn <=> h \in b)
      /\ \A c \in Clients : Working(cu, ic, b, c) <=> c = h
    BY <1>3, Sole
<1>5. t.locks[1].reads = Cardinality(StreamsOf(cu, h))
    BY <1>1, <1>3 DEF Ledger
<1>6. StreamsOf(dv, h) = StreamsOf(cu, h)
    <2>1. \A j \in Cursors : dv[j].reads = cu[j].reads
        OBVIOUS
    <2> QED BY <2>1, StreamsSame
<1>7. t.updaters = Cardinality(Upd(dv)) + Cardinality(Dml(ic)) + 1
    <2>1. Cardinality(Upd(cu)) = Cardinality(Upd(dv)) + 1
        BY <1>1, UpdMore
    <2>2. t.updaters = Cardinality(Upd(cu)) + Cardinality(Dml(ic))
        BY <1>1 DEF Ledger
    <2> QED BY <1>1, <2>1, <2>2, UpdFacts
<1>8. \A c \in Clients : Working(dv, ic, b, c) => c = h
    <2> SUFFICES ASSUME NEW c \in Clients, Working(dv, ic, b, c) PROVE Working(cu, ic, b, c)
        BY <1>4
    <2> QED BY DEF Working
<1>9. /\ v.lockState \in {EDbXReadLock, EDbWriteLock, EDbSchemaLock}
      /\ v.lockState = EDbSchemaLock => t.locks[1].isTxn
    <2>1. t.lockState \in {EDbXReadLock, EDbWriteLock, EDbSchemaLock}
          /\ (t.lockState = EDbSchemaLock => t.locks[1].isTxn)
        BY <1>1, <1>2, Enumerations DEF Fit, TxnType
    <2> QED BY <2>1, Enumerations
<1>10. \A c \in Clients : ic[c].kind \in {"none", "dml"}
    BY <1>2, Idle
<1>11. Connected(dv)
    BY <1>1 DEF Objects, Connected
<1> HIDE DEF h
<1>13. Copying(v, dv) /\ v.stable.done <= MaxOps
    BY DEF Inv, Undoable, Copying, Bounded
<1>12. InUpdate(v, h, dv, ic, b)
    BY <1>1, <1>2, <1>3, <1>4, <1>5, <1>6, <1>7, <1>8, <1>9, <1>10, <1>11, <1>13 DEF InUpdate, Types, h
<1> QED BY <1>4, <1>12 DEF h

\* The update of client c's statement, once the statement is gone.
LEMMA StatementUpdate ==
    ASSUME NEW t, NEW cu, NEW ic, NEW b, Inv(t, cu, ic, b), NEW c \in Clients,
           ic[c].kind = "dml", NEW jc \in IncType, jc[c].kind = "none",
           \A e \in Clients : e # c => jc[e] = ic[e],
           NEW v \in TxnType, v.locks = t.locks, v.updaters = t.updaters, v.action = t.action,
           v.lockState = t.lockState \/ (t.lockState = EDbXReadLock /\ v.lockState = EDbWriteLock),
           v.working.done <= MaxOps, v.stable = t.stable, v.working.copied = t.working.copied
    PROVE  InUpdate(v, c, cu, jc, b) /\ Lockers(t) = {c}
<1>1. /\ t \in TxnType /\ cu \in CurType /\ ic \in IncType /\ b \subseteq Clients
      /\ Ledger(t, cu, ic, b) /\ Fit(t) /\ Objects(t, cu, ic)
    BY DEF Inv, Types
<1>2. t.updaters > 0 /\ t.action = EDbWriteLock /\ t.lockState # EDbReadLock
    BY LastOne
<1>3. Len(t.locks) = 1
    BY <1>1, <1>2 DEF Fit
<1>4. /\ t.locks[1].holder = c /\ Lockers(t) = {c} /\ (t.locks[1].isTxn <=> c \in b)
      /\ \A e \in Clients : Working(cu, ic, b, e) <=> e = c
    <2>1. Working(cu, ic, b, c)
        BY DEF Working
    <2> QED BY <1>3, <2>1, Sole
<1>5. t.locks[1].reads = Cardinality(StreamsOf(cu, c))
    BY <1>1, <1>3, <1>4 DEF Ledger
<1>6. t.updaters = Cardinality(Upd(cu)) + Cardinality(Dml(jc)) + 1
    <2>1. Cardinality(Dml(ic)) = Cardinality(Dml(jc)) + 1
        BY <1>1, DmlMore
    <2>2. t.updaters = Cardinality(Upd(cu)) + Cardinality(Dml(ic))
        BY <1>1 DEF Ledger
    <2> QED BY <1>1, <2>1, <2>2, UpdFacts
<1>7. \A e \in Clients : Working(cu, jc, b, e) => e = c
    <2> SUFFICES ASSUME NEW e \in Clients, Working(cu, jc, b, e) PROVE Working(cu, ic, b, e)
        BY <1>4
    <2> QED BY DEF Working
<1>8. /\ v.lockState \in {EDbXReadLock, EDbWriteLock, EDbSchemaLock}
      /\ v.lockState = EDbSchemaLock => t.locks[1].isTxn
    <2>1. t.lockState \in {EDbXReadLock, EDbWriteLock, EDbSchemaLock}
          /\ (t.lockState = EDbSchemaLock => t.locks[1].isTxn)
        BY <1>1, <1>2, Enumerations DEF Fit, TxnType
    <2> QED BY <2>1, Enumerations
<1>9. \A e \in Clients : jc[e].kind \in {"none", "dml"}
    BY <1>2, Idle
<1>10. Connected(cu)
    BY <1>1 DEF Objects
<1>12. Copying(v, cu) /\ v.stable.done <= MaxOps
    BY DEF Inv, Undoable, Copying, Bounded
<1>11. InUpdate(v, c, cu, jc, b)
    BY <1>1, <1>2, <1>3, <1>4, <1>5, <1>6, <1>7, <1>8, <1>9, <1>10, <1>12 DEF InUpdate, Types
<1> QED BY <1>4, <1>11

\* What DMLBegin leaves: client c holds the only lock, and the update is counted.
LEMMA BegunUpdate ==
    ASSUME NEW t, NEW cu, NEW ic, NEW b, Inv(t, cu, ic, b), NEW c \in Clients,
           MayExclude(t, c), t.action <= EDbWriteLock, NEW w \in ContentType, w.done <= MaxOps,
           w.copied \subseteq t.working.copied
    PROVE  LET v == [DMLTouch(DMLBegin(t, c)) EXCEPT !.working = w]
           IN  /\ InUpdate(v, c, cu, ic, b) /\ v.lockState >= EDbWriteLock /\ v.failed
               /\ v.working = w /\ v.stable = t.stable /\ Lockers(t) \subseteq {c}
<1>1. /\ t \in TxnType /\ cu \in CurType /\ ic \in IncType /\ b \subseteq Clients
      /\ Ledger(t, cu, ic, b) /\ Fit(t) /\ Objects(t, cu, ic) /\ Bounded(t, ic)
    BY DEF Inv, Types
<1> DEFINE m == DMLBegin(t, c)
           n == DMLTouch(m)
           v == [n EXCEPT !.working = w]
           s == Exclude(t, c)
<1>2. /\ Lockers(t) \subseteq {c} /\ \A e \in Clients : Working(cu, ic, b, e) => e = c
      /\ Len(t.locks) = 0 \/ (Len(t.locks) = 1 /\ t.locks[1].holder = c)
    BY MayExcludeFacts
<1>3. /\ Len(s) = 1 /\ s[1].holder = c /\ (s[1].isTxn <=> c \in b)
      /\ s[1].reads = Cardinality(StreamsOf(cu, c))
      /\ Len(t.locks) = 1 => s = t.locks
    BY Excluded
<1>4. /\ m \in TxnType
      /\ m.action = (IF t.action = EDbReadLock THEN EDbWriteLock ELSE t.action)
      /\ m.lockState = (IF t.lockState = EDbReadLock THEN EDbXReadLock ELSE t.lockState)
      /\ m.updaters = t.updaters + 1 /\ m.locks = s /\ m.stable = t.stable
    BY <1>1, BeginFields
<1> HIDE DEF m, s
<1>5. /\ n \in TxnType
      /\ n.lockState = (IF m.lockState = EDbXReadLock THEN EDbWriteLock ELSE m.lockState)
      /\ n.failed /\ n.action = m.action /\ n.locks = m.locks /\ n.updaters = m.updaters
      /\ n.stable = m.stable
    BY <1>4, TouchFields
<1> HIDE DEF n
<1>6. /\ v \in TxnType /\ v.working = w /\ v.stable = n.stable /\ v.action = n.action
      /\ v.lockState = n.lockState /\ v.failed = n.failed /\ v.locks = n.locks /\ v.updaters = n.updaters
    BY <1>5, WorkingFields
<1> HIDE DEF v
<1>7. t.action \in {EDbReadLock, EDbWriteLock}
    <2>1. t.action # EDbXReadLock
        BY <1>1, Enumerations DEF Fit, TxnType
    <2> QED BY <1>1, <2>1, Enumerations DEF TxnType
<1>8. t.lockState \in {EDbReadLock, EDbXReadLock, EDbWriteLock, EDbSchemaLock}
      /\ (t.lockState = EDbSchemaLock => s[1].isTxn)
    <2>1. t.lockState \in {EDbReadLock, EDbXReadLock, EDbWriteLock, EDbSchemaLock}
        BY <1>1, <1>7, Enumerations DEF Fit, TxnType
    <2>2. ASSUME t.lockState = EDbSchemaLock PROVE s[1].isTxn
        <3>1. Len(t.locks) = 1 /\ t.locks[1].isTxn
            BY <1>1, <1>7, <2>2, Enumerations DEF Fit
        <3> QED BY <3>1, <1>3
    <2> QED BY <2>1, <2>2
<1>9. v.action = EDbWriteLock /\ v.lockState \in {EDbWriteLock, EDbSchemaLock}
      /\ (v.lockState = EDbSchemaLock => s[1].isTxn)
    BY <1>4, <1>5, <1>6, <1>7, <1>8, Enumerations
<1>10. v.updaters = Cardinality(Upd(cu)) + Cardinality(Dml(ic)) + 1
    BY <1>1, <1>4, <1>5, <1>6 DEF Ledger
<1>11. \A e \in Clients : ic[e].kind \in {"none", "dml"}
    BY <1>7, Idle
<1>12. Connected(cu)
    BY <1>1 DEF Objects
<1>13. v.stable.done <= MaxOps /\ v.stable = t.stable /\ v.locks = s
    BY <1>1, <1>4, <1>5, <1>6 DEF Bounded
<1>16. Copying(v, cu)
    BY <1>6, <1>13 DEF Inv, Undoable, Copying
<1>14. InUpdate(v, c, cu, ic, b)
    BY <1>1, <1>2, <1>3, <1>6, <1>9, <1>10, <1>11, <1>12, <1>13, <1>16 DEF InUpdate, Types
<1>15. v.lockState >= EDbWriteLock /\ v.failed /\ v.working = w
    BY <1>5, <1>6, <1>9, Enumerations
<1> QED BY <1>2, <1>13, <1>14, <1>15 DEF v, n, m

-----------------------------------------------------------------------------
(* The steps of the cursors *)

\* What every step is shown to do.
Kept ==
    /\ Inv(txn', cur', inc', begun') /\ Alone(txn, txn')
    /\ Careless = {} /\ Whole(txn, cur, inc) => Whole(txn', cur', inc')

\* A step that leaves the locks, what is going on and the objects at work.
LEMMA Stays ==
    ASSUME NEW t, NEW cu, NEW ic, NEW b, Inv(t, cu, ic, b),
           NEW u \in TxnType, NEW dv \in CurType, NEW jc \in IncType,
           u.locks = t.locks, u.updaters = t.updaters, u.action = t.action, u.maxLock = t.maxLock,
           \/ u.lockState = t.lockState
           \/ t.action = EDbWriteLock /\ t.lockState = EDbXReadLock /\ u.lockState = EDbWriteLock,
           t.action = EDbWriteLock \/ (u.working = t.working /\ u.stable = t.stable),
           \A k \in Cursors : /\ dv[k].reads = cu[k].reads
                              /\ dv[k].mode = "update" <=> cu[k].mode = "update",
           \A c \in Clients : jc[c].kind = ic[c].kind,
           Connected(dv), \A k \in Cursors : dv[k].connected => cu[k].connected,
           Bounded(u, jc), Undoable(u, dv)
    PROVE  Inv(u, dv, jc, b) /\ Lockers(u) = Lockers(t)
<1>1. /\ t \in TxnType /\ cu \in CurType /\ ic \in IncType /\ b \subseteq Clients
      /\ Ledger(t, cu, ic, b) /\ Fit(t) /\ Objects(t, cu, ic)
    BY DEF Inv, Types
<1>2. Ledger(u, dv, jc, b) /\ Lockers(u) = Lockers(t)
    BY <1>1, SameWork
<1>3. Fit(u)
    BY <1>1, Enumerations DEF Fit
<1>4. Objects(u, dv, jc)
    BY <1>1 DEF Objects
<1> QED BY <1>1, <1>2, <1>3, <1>4 DEF Inv, Types

\* A step that leaves txn keeps the content alone.
LEMMA AloneTrivially ==
    ASSUME NEW t, NEW u, u.working = t.working, u.stable = t.stable
    PROVE  Alone(t, u)
BY DEF Alone

\* Before and after the step the client c alone has locks.
LEMMA AloneBy ==
    ASSUME NEW t, NEW u, NEW c, Lockers(t) \subseteq {c}, Lockers(u) \subseteq {c}
    PROVE  Alone(t, u)
BY DEF Alone

\* OpenCursor: rowsets are not opened while tables are away.
LEMMA OpenCursorKept == ASSUME IInv, NEW k \in Cursors, OpenCursor(k) PROVE Kept
<1> DEFINE r == [Closed EXCEPT !.mode = "ready", !.connected = TRUE]
<1>1. /\ Inv(txn, cur, inc, begun) /\ txn \in TxnType /\ cur \in CurType /\ inc \in IncType
      /\ Objects(txn, cur, inc) /\ begun \subseteq Clients /\ Ledger(txn, cur, inc, begun) /\ Fit(txn)
      /\ Bounded(txn, inc) /\ Undoable(txn, cur)
    BY DEF IInv, Inv, Types
<1>2. /\ cur[k].mode = "closed" /\ txn.action <= EDbCompactLock /\ cur' = [cur EXCEPT ![k] = r]
      /\ txn' = txn /\ inc' = inc /\ begun' = begun
    BY DEF OpenCursor, DMLCheckL
<1>3. r \in CursorType /\ r.mode = "ready" /\ r.reads = 0 /\ r.connected = TRUE
    <2>1. 0 \in 0 .. MaxReads
        BY DbAssumption
    <2> QED BY <2>1 DEF Closed, CursorType
<1> HIDE DEF r
<1>4. cur' \in CurType /\ cur'[k] = r /\ \A j \in Cursors : j # k => cur'[j] = cur[j]
    BY <1>1, <1>2, <1>3 DEF CurType
<1>5. cur[k].reads = 0
    BY <1>1, <1>2 DEF Objects, Connected
<1>6. Ledger(txn', cur', inc', begun')
    <2>1. \A j \in Cursors : /\ cur'[j].reads = cur[j].reads
                             /\ cur'[j].mode = "update" <=> cur[j].mode = "update"
        BY <1>2, <1>3, <1>4, <1>5
    <2> QED BY <1>1, <1>2, <2>1, SameWork
<1>7. Objects(txn', cur', inc')
    <2>1. Connected(cur')
        BY <1>1, <1>3, <1>4 DEF Objects, Connected
    <2>2. txn.action \notin {EDbSchemaLock, EDbRecoveryLock}
        BY <1>2, Enumerations
    <2> QED BY <1>1, <1>2, <2>1, <2>2 DEF Objects
<1>8. Undoable(txn', cur')
    BY <1>1, <1>2, <1>3, <1>4 DEF Undoable, Copying
<1>9. Inv(txn', cur', inc', begun')
    BY <1>1, <1>2, <1>4, <1>6, <1>7, <1>8 DEF Inv, Types
<1>10. Whole(txn, cur, inc) => Whole(txn', cur', inc')
    BY <1>2, <1>3, <1>4 DEF Whole, Owned
<1> QED BY <1>2, <1>9, <1>10, AloneTrivially DEF Kept

\* Reset positions a ready cursor afresh.
LEMMA ResetKept == ASSUME IInv, NEW k \in Cursors, Reset(k) PROVE Kept
<1>1. /\ Inv(txn, cur, inc, begun) /\ txn \in TxnType /\ cur \in CurType /\ inc \in IncType
      /\ Objects(txn, cur, inc) /\ Bounded(txn, inc) /\ Undoable(txn, cur)
    BY DEF IInv, Inv, Types
<1>2. /\ cur' = [cur EXCEPT ![k].stale = FALSE]
      /\ txn' = txn /\ inc' = inc /\ begun' = begun
    BY DEF Reset
<1>3. /\ cur' \in CurType
      /\ \A j \in Cursors : /\ cur'[j].mode = cur[j].mode /\ cur'[j].reads = cur[j].reads
                            /\ cur'[j].dirty = cur[j].dirty /\ cur'[j].connected = cur[j].connected
    BY <1>1, <1>2 DEF CurType, CursorType
<1>4. Connected(cur') /\ Undoable(txn', cur') /\ Bounded(txn', inc')
    BY <1>1, <1>2, <1>3 DEF Objects, Connected, Undoable, Copying
<1>5. Inv(txn', cur', inc', begun')
    BY <1>1, <1>2, <1>3, <1>4, Stays, ZenonT(60)
<1>6. Whole(txn, cur, inc) => Whole(txn', cur', inc')
    BY <1>2, <1>3 DEF Whole, Owned
<1> QED BY <1>2, <1>5, <1>6, AloneTrivially DEF Kept

\* The parts of the invariant.
LEMMA Unpacked ==
    ASSUME IInv
    PROVE  /\ Inv(txn, cur, inc, begun) /\ txn \in TxnType /\ cur \in CurType /\ inc \in IncType
           /\ begun \subseteq Clients /\ Ledger(txn, cur, inc, begun) /\ Fit(txn)
           /\ Objects(txn, cur, inc) /\ Bounded(txn, inc) /\ Undoable(txn, cur)
           /\ txn.working \in ContentType /\ txn.stable \in ContentType
BY DEF IInv, Inv, Types, TxnType

\* DMLBegin for an update that the objects dv and jc now show.
LEMMA UpdateBegins ==
    ASSUME NEW t, NEW cu, NEW ic, NEW b, Inv(t, cu, ic, b), NEW c \in Clients,
           MayExclude(t, c), t.action <= EDbWriteLock,
           NEW dv \in CurType, NEW jc \in IncType,
           Cardinality(Upd(dv)) + Cardinality(Dml(jc)) = t.updaters + 1,
           \A k \in Cursors : dv[k].reads = cu[k].reads,
           Working(dv, jc, b, c),
           \A e \in Clients : e # c /\ Working(dv, jc, b, e) => Working(cu, ic, b, e),
           \A e \in Clients : jc[e].kind \in {"none", "dml"}, Connected(dv),
           \A k \in Cursors : cu[k].mode = "update" =>
              dv[k].mode = "update" /\ (cu[k].dirty => dv[k].dirty)
    PROVE  Inv(DMLBegin(t, c), dv, jc, b)
<1> DEFINE u == DMLBegin(t, c)
           s == Exclude(t, c)
<1>1. /\ t \in TxnType /\ cu \in CurType /\ ic \in IncType /\ b \subseteq Clients
      /\ Ledger(t, cu, ic, b) /\ Fit(t) /\ Objects(t, cu, ic) /\ Bounded(t, ic) /\ Undoable(t, cu)
    BY DEF Inv, Types
<1>2. /\ Lockers(t) \subseteq {c} /\ \A e \in Clients : Working(cu, ic, b, e) => e = c
      /\ Len(t.locks) = 0 \/ (Len(t.locks) = 1 /\ t.locks[1].holder = c)
    BY MayExcludeFacts
<1>3. /\ Len(s) = 1 /\ s[1].holder = c /\ (s[1].isTxn <=> c \in b)
      /\ s[1].reads = Cardinality(StreamsOf(cu, c))
      /\ Len(t.locks) = 1 => s = t.locks
    BY Excluded
<1>4. /\ u \in TxnType
      /\ u.action = (IF t.action = EDbReadLock THEN EDbWriteLock ELSE t.action)
      /\ u.lockState = (IF t.lockState = EDbReadLock THEN EDbXReadLock ELSE t.lockState)
      /\ u.updaters = t.updaters + 1 /\ u.locks = s /\ u.stable = t.stable /\ u.working = t.working
    BY <1>1, BeginFields
<1> HIDE DEF u, s
<1>5. Ledger(u, dv, jc, b)
    <2>1. StreamsOf(dv, c) = StreamsOf(cu, c)
        BY StreamsSame
    <2>2. \A e \in Clients : Working(dv, jc, b, e) <=> e = c
        BY <1>2
    <2> QED BY <1>3, <1>4, <2>1, <2>2, OneHolder
<1>6. t.action \in {EDbReadLock, EDbWriteLock}
    BY <1>1, Enumerations DEF Fit, TxnType
<1>7. Fit(u)
    <2>1. t.lockState \in {EDbReadLock, EDbXReadLock, EDbWriteLock, EDbSchemaLock}
        BY <1>1, <1>6, Enumerations DEF Fit, TxnType
    <2>2. ASSUME t.lockState = EDbSchemaLock PROVE s[1].isTxn
        <3>1. Len(t.locks) = 1 /\ t.locks[1].isTxn
            BY <1>1, <1>6, <2>2, Enumerations DEF Fit
        <3> QED BY <3>1, <1>3
    <2>3. t.updaters \in Nat
        BY Idle
    <2>4. u.action = EDbWriteLock /\ u.updaters # 0 /\ Len(u.locks) = 1 /\ u.locks[1] = s[1]
          /\ u.lockState \in {EDbXReadLock, EDbWriteLock, EDbSchemaLock}
          /\ (u.lockState = EDbSchemaLock => s[1].isTxn)
        BY <1>3, <1>4, <1>6, <2>1, <2>2, <2>3, Enumerations
    <2> QED BY <2>4, Enumerations DEF Fit
<1>8. Objects(u, dv, jc)
    <2>1. u.action = EDbWriteLock
        BY <1>4, <1>6
    <2> QED BY <2>1, Enumerations DEF Objects
<1>9. Bounded(u, jc)
    BY <1>1, <1>4 DEF Bounded
<1>10. Undoable(u, dv)
    <2>1. t.lockState >= EDbWriteLock => u.lockState >= EDbWriteLock
        BY <1>4, Enumerations
    <2>2. \A k \in Cursors : cu[k].mode = "update" => dv[k].mode = "update"
        OBVIOUS
    <2> QED BY <1>1, <1>4, <2>1, <2>2 DEF Undoable, Copying
<1>11. Inv(u, dv, jc, b)
    BY <1>1, <1>4, <1>5, <1>7, <1>8, <1>9, <1>10 DEF Inv, Types
<1> QED BY <1>11 DEF u

\* Only blobs change, and copies are those of updating cursors.
LEMMA BlobsOnly ==
    ASSUME NEW t, NEW cu, NEW ic, NEW b, Inv(t, cu, ic, b), NEW w \in ContentType,
           w.done = t.working.done, w.torn = t.working.torn,
           \A j \in Cursors : j \in w.copied => cu[j].mode = "update",
           NEW u, u = [t EXCEPT !.working = w]
    PROVE  /\ Inv(u, cu, ic, b) /\ Lockers(u) = Lockers(t)
           /\ u.working = w /\ u.stable = t.stable /\ u.failed = t.failed
<1>1. /\ t \in TxnType /\ cu \in CurType /\ ic \in IncType /\ b \subseteq Clients
      /\ Ledger(t, cu, ic, b) /\ Fit(t) /\ Objects(t, cu, ic) /\ Bounded(t, ic) /\ Undoable(t, cu)
    BY DEF Inv, Types
<1>2. /\ u \in TxnType /\ u.working = w /\ u.stable = t.stable
      /\ u.action = t.action /\ u.lockState = t.lockState /\ u.failed = t.failed
      /\ u.locks = t.locks /\ u.updaters = t.updaters /\ u.maxLock = t.maxLock
    BY <1>1, WorkingFields
<1>3. Touched(u.working) = Touched(t.working)
    BY <1>2, TouchedSame
<1>4. Ledger(u, cu, ic, b) /\ Lockers(u) = Lockers(t)
    <2>1. Lockers(u) = Lockers(t)
        BY <1>2 DEF Lockers
    <2>2. Distinct(u)
        BY <1>1, <1>2 DEF Ledger, Distinct
    <2> QED BY <1>1, <1>2, <2>1, <2>2 DEF Ledger
<1>5. Fit(u)
    <2>1. Touched(u.working) = Touched(u.stable) <=> Touched(t.working) = Touched(t.stable)
        BY <1>2, <1>3
    <2> QED BY <1>1, <1>2, <2>1 DEF Fit
<1>6. Objects(u, cu, ic) /\ Bounded(u, ic)
    BY <1>1, <1>2 DEF Objects, Bounded
<1>7. Undoable(u, cu)
    BY <1>1, <1>2, <1>3 DEF Undoable, Copying
<1> QED BY <1>1, <1>2, <1>4, <1>5, <1>6, <1>7 DEF Inv, Types

\* InsertL and UpdateL.
LEMMA BeginUpdateKept == ASSUME IInv, NEW k \in Cursors, BeginUpdate(k) PROVE Kept
<1> DEFINE c == Owner[k]
           m == DMLBegin(txn, c)
<1>1. /\ Inv(txn, cur, inc, begun) /\ txn \in TxnType /\ cur \in CurType /\ inc \in IncType
      /\ Ledger(txn, cur, inc, begun) /\ Fit(txn) /\ Objects(txn, cur, inc) /\ c \in Clients
      /\ Undoable(txn, cur) /\ txn.working \in ContentType
    BY Unpacked, ObjectTypes
<1>2. /\ cur[k].mode = "ready" /\ cur[k].reads = 0 /\ cur[k].connected
      /\ MayExclude(txn, c) /\ txn.action <= EDbWriteLock /\ inc' = inc /\ begun' = begun
      /\ cur' = [cur EXCEPT ![k].mode = "update"]
    BY DEF BeginUpdate, NoStreams, CheckStateL, DMLPrepareL
<1>12. PICK w \in {txn.working, Copied(txn.working, k)} : txn' = [m EXCEPT !.working = w]
    BY DEF BeginUpdate
<1>13. /\ w \in ContentType /\ w.done = txn.working.done /\ w.torn = txn.working.torn
       /\ w.copied \subseteq txn.working.copied \cup {k}
    BY <1>1, <1>12, BlobFields
<1>3. /\ cur' \in CurType /\ cur'[k].mode = "update"
      /\ \A j \in Cursors : /\ cur'[j].reads = cur[j].reads /\ cur'[j].dirty = cur[j].dirty
                            /\ cur'[j].connected = cur[j].connected
                            /\ j # k => cur'[j].mode = cur[j].mode
    BY <1>1, <1>2 DEF CurType, CursorType
<1> HIDE DEF c
<1>4. Cardinality(Upd(cur')) + Cardinality(Dml(inc)) = txn.updaters + 1
    <2>1. cur[k].mode # "update" /\ \A j \in Cursors : j # k => (cur'[j].mode = "update" <=> cur[j].mode = "update")
        BY <1>2, <1>3
    <2>2. Cardinality(Upd(cur')) = Cardinality(Upd(cur)) + 1
        BY <1>1, <1>3, <2>1, UpdMore
    <2> QED BY <1>1, <2>2, UpdFacts DEF Ledger
<1>5. Working(cur', inc, begun, c) /\ \A e \in Clients :
          e # c /\ Working(cur', inc, begun, e) => Working(cur, inc, begun, e)
    BY <1>3 DEF Working, c
<1>6. \A e \in Clients : inc[e].kind \in {"none", "dml"}
    <2>1. txn.action \in {EDbReadLock, EDbWriteLock}
        BY <1>1, <1>2, Enumerations DEF Fit, TxnType
    <2> QED BY <1>1, <2>1, Idle
<1>7. Connected(cur')
    BY <1>1, <1>2, <1>3 DEF Objects, Connected
<1>8. \A j \in Cursors :
          cur[j].mode = "update" => cur'[j].mode = "update" /\ (cur[j].dirty => cur'[j].dirty)
    BY <1>2, <1>3
<1>9. Inv(m, cur', inc', begun')
    BY <1>1, <1>2, <1>3, <1>4, <1>5, <1>6, <1>7, <1>8, UpdateBegins, ZenonT(60)
<1>14. m.working = txn.working /\ m.stable = txn.stable /\ m.failed = txn.failed
       /\ m.locks = Exclude(txn, c)
    BY <1>1, BeginFields
<1> HIDE DEF m
<1>15. \A j \in Cursors : j \in w.copied => cur'[j].mode = "update"
    BY <1>1, <1>3, <1>8, <1>13 DEF Undoable, Copying
<1>10. /\ Inv(txn', cur', inc', begun') /\ Lockers(txn') = Lockers(m)
       /\ txn'.working = w /\ txn'.stable = txn.stable /\ txn'.failed = txn.failed
    BY <1>9, <1>12, <1>13, <1>14, <1>15, BlobsOnly
<1>11. Whole(txn, cur, inc) => Whole(txn', cur', inc')
    BY <1>2, <1>6, <1>8, <1>10, <1>13 DEF Whole, Owned
<1>16. Alone(txn, txn')
    <2>1. Lockers(txn) \subseteq {c}
        BY <1>1, <1>2, MayExcludeFacts
    <2>2. Len(m.locks) = 1 /\ m.locks[1].holder = c
        BY <1>1, <1>2, <1>14, Excluded
    <2>3. Lockers(m) = {c}
        BY <2>2 DEF Lockers
    <2> QED BY <1>1, <1>10, <2>1, <2>3 DEF Alone
<1> QED BY <1>10, <1>11, <1>16 DEF Kept

\* InsertL(ECopy) leaves: blobs have strayed, under nobody else's lock.
LEMMA CopyFailsKept == ASSUME IInv, NEW k \in Cursors, CopyFails(k) PROVE Kept
<1> DEFINE c == Owner[k]
           w == Strayed(txn.working)
<1>1. Inv(txn, cur, inc, begun) /\ c \in Clients /\ Undoable(txn, cur) /\ txn.working \in ContentType
    BY Unpacked, ObjectTypes
<1>2. /\ MayExclude(txn, c) /\ txn' = [txn EXCEPT !.working = w]
      /\ cur' = cur /\ inc' = inc /\ begun' = begun
    BY DEF CopyFails, DMLPrepareL
<1>3. /\ w \in ContentType /\ w.done = txn.working.done /\ w.torn = txn.working.torn
      /\ w.copied = txn.working.copied
    BY <1>1, StrayFields
<1> HIDE DEF w
<1>4. /\ Inv(txn', cur', inc', begun') /\ Lockers(txn') = Lockers(txn)
      /\ txn'.working = w /\ txn'.stable = txn.stable /\ txn'.failed = txn.failed
    BY <1>1, <1>2, <1>3, BlobsOnly DEF Undoable, Copying
<1>5. Alone(txn, txn')
    <2>1. Lockers(txn) \subseteq {c}
        BY <1>1, <1>2, MayExcludeFacts
    <2> QED BY <1>1, <1>4, <2>1 DEF Alone
<1>6. Whole(txn, cur, inc) => Whole(txn', cur', inc')
    BY <1>2, <1>3, <1>4 DEF Whole, Owned
<1> QED BY <1>4, <1>5, <1>6 DEF Kept

\* ColumnSinkL: the blob is torn until the row is put, and the cursor is dirty.
LEMMA WriteBlobKept == ASSUME IInv, NEW k \in Cursors, WriteBlob(k) PROVE Kept
<1>1. /\ Inv(txn, cur, inc, begun) /\ txn \in TxnType /\ cur \in CurType /\ inc \in IncType
      /\ Fit(txn) /\ Objects(txn, cur, inc) /\ Bounded(txn, inc) /\ txn.working \in ContentType
      /\ Undoable(txn, cur)
    BY Unpacked
<1>2. /\ cur[k].mode = "update" /\ txn' = [txn EXCEPT !.working = Torn(txn.working, k)]
      /\ cur' = [cur EXCEPT ![k].dirty = TRUE] /\ inc' = inc /\ begun' = begun
    BY DEF WriteBlob
<1>3. /\ cur' \in CurType /\ cur'[k].dirty
      /\ \A j \in Cursors : /\ cur'[j].reads = cur[j].reads /\ cur'[j].mode = cur[j].mode
                            /\ cur'[j].connected = cur[j].connected
                            /\ j # k => cur'[j].dirty = cur[j].dirty
    BY <1>1, <1>2 DEF CurType, CursorType
<1>4. /\ Torn(txn.working, k) \in ContentType /\ Torn(txn.working, k).done = txn.working.done
      /\ Torn(txn.working, k).torn = txn.working.torn \cup {k}
      /\ Torn(txn.working, k).copied = txn.working.copied
    BY <1>1, ContentFields
<1>5. /\ txn' \in TxnType /\ txn'.working = Torn(txn.working, k) /\ txn'.stable = txn.stable
      /\ txn'.action = txn.action /\ txn'.lockState = txn.lockState /\ txn'.failed = txn.failed
      /\ txn'.locks = txn.locks /\ txn'.updaters = txn.updaters /\ txn'.maxLock = txn.maxLock
    BY <1>1, <1>2, <1>4, WorkingFields
<1>6. Connected(cur') /\ Undoable(txn', cur') /\ Bounded(txn', inc')
    <2>1. Connected(cur')
        BY <1>1, <1>3 DEF Objects, Connected
    <2>2. Undoable(txn', cur')
        BY <1>1, <1>2, <1>3, <1>4, <1>5 DEF Undoable, Copying
    <2>3. Bounded(txn', inc')
        BY <1>1, <1>2, <1>4, <1>5 DEF Bounded
    <2> QED BY <2>1, <2>2, <2>3
<1>7. Inv(txn', cur', inc', begun') /\ Lockers(txn') = Lockers(txn)
    <2>1. /\ \A j \in Cursors : /\ cur'[j].reads = cur[j].reads
                                /\ cur'[j].mode = "update" <=> cur[j].mode = "update"
          /\ \A j \in Cursors : cur'[j].connected => cur[j].connected
          /\ \A c \in Clients : inc'[c].kind = inc[c].kind
          /\ inc' \in IncType /\ begun' = begun
        BY <1>1, <1>2, <1>3
    <2>2. txn.action = EDbWriteLock
        BY <1>1, <1>2, LastOne
    <2> QED BY <1>1, <1>3, <1>5, <1>6, <2>1, <2>2, Stays
<1>8. Alone(txn, txn')
    <2>1. Len(txn.locks) = 1
        BY <1>1, <1>2, LastOne DEF Fit
    <2>2. Lockers(txn) = {txn.locks[1].holder}
        BY <1>1, <2>1, Sole
    <2> QED BY <1>7, <2>2, AloneBy
<1>9. Whole(txn, cur, inc) => Whole(txn', cur', inc')
    BY <1>2, <1>3, <1>4, <1>5 DEF Whole, Owned
<1> QED BY <1>7, <1>8, <1>9 DEF Kept

\* PutL: the row is complete, and with it the update.
LEMMA PutLKept == ASSUME IInv, NEW k \in Cursors, PutL(k) PROVE Kept
<1> DEFINE w == Finished(txn.working, k)
           m == DMLTouch(txn)
           v == [m EXCEPT !.working = w]
           dv == [cur EXCEPT ![k].mode = "ready", ![k].dirty = FALSE]
           h == txn.locks[1].holder
<1>1. /\ Inv(txn, cur, inc, begun) /\ txn \in TxnType /\ cur \in CurType /\ inc \in IncType
      /\ Fit(txn) /\ Objects(txn, cur, inc) /\ Bounded(txn, inc) /\ txn.working \in ContentType
    BY Unpacked
<1>2. /\ cur[k].mode = "update" /\ cur[k].reads = 0 /\ ~txn.failed /\ txn.working.done < MaxOps
      /\ DMLCommitL(v, dv) /\ inc' = inc /\ begun' = begun
    <2>1. [DMLTouch(txn) EXCEPT !.working = Finished(@, k)] = v
        BY <1>1, TouchFields
    <2> QED BY <2>1 DEF PutL, NoStreams, CheckStateL, ReadyL
<1>3. /\ dv \in CurType /\ dv[k].mode = "ready" /\ dv[k].reads = cur[k].reads
      /\ \A j \in Cursors : j # k => dv[j] = cur[j]
    BY <1>1 DEF CurType, CursorType
<1>4. /\ w \in ContentType /\ w.done = txn.working.done + 1 /\ w.torn = txn.working.torn \ {k}
      /\ w.copied = txn.working.copied \ {k}
    BY <1>1, ContentFields
<1>5. /\ m \in TxnType /\ m.action = txn.action /\ m.locks = txn.locks /\ m.updaters = txn.updaters
      /\ m.lockState = (IF txn.lockState = EDbXReadLock THEN EDbWriteLock ELSE txn.lockState)
      /\ m.stable = txn.stable
    BY <1>1, TouchFields
<1> HIDE DEF w, m, dv
<1>6. /\ v \in TxnType /\ v.working = w /\ v.stable = m.stable /\ v.action = m.action
      /\ v.lockState = m.lockState /\ v.locks = m.locks /\ v.updaters = m.updaters
    BY <1>4, <1>5, WorkingFields
<1> HIDE DEF v
<1>7. v.working.done <= MaxOps
    <2>1. txn.working.done \in Nat /\ MaxOps \in Nat
        BY <1>1, DbAssumption DEF Bounded, ContentType
    <2> QED BY <1>2, <1>4, <1>5, <1>6, <2>1
<1>8. InUpdate(v, h, dv, inc, begun) /\ Lockers(txn) = {h} /\ h \in Clients
    <2>1. v.locks = txn.locks /\ v.updaters = txn.updaters /\ v.action = txn.action
          /\ v.lockState = (IF txn.lockState = EDbXReadLock THEN EDbWriteLock ELSE txn.lockState)
          /\ v.stable = txn.stable /\ v.working.copied \subseteq txn.working.copied \ {k}
        BY <1>4, <1>5, <1>6
    <2>2. InUpdate(v, h, dv, inc, begun) /\ Lockers(txn) = {h}
        BY <1>1, <1>2, <1>3, <1>6, <1>7, <2>1, CursorUpdate
    <2> QED BY <2>2 DEF InUpdate
<1>9. v.lockState >= EDbWriteLock
    BY <1>1, <1>2, <1>5, <1>6, LastOne, Enumerations DEF Fit, TxnType
<1>10. cur' = dv /\ (IF LastUpdate(v) THEN Primary(v).reads = 0 /\ txn' = Unlocked(Saved(v))
                     ELSE txn' = [LessUpdater(v) EXCEPT !.failed = FALSE])
    BY <1>2 DEF DMLCommitL, DoCommitL
<1>11. /\ Inv(txn', cur', inc', begun') /\ Lockers(txn') \subseteq {h}
       /\ v.stable.torn = {} /\ Attended(v.working, cur', inc') => Whole(txn', cur', inc')
    BY <1>2, <1>8, <1>9, <1>10, CommitEnds
<1>12. Whole(txn, cur, inc) => v.stable.torn = {} /\ Attended(v.working, cur', inc')
    <2> SUFFICES ASSUME Whole(txn, cur, inc) PROVE v.stable.torn = {} /\ Attended(w, cur', inc')
        BY <1>6
    <2>1. v.stable.torn = {}
        BY <1>5, <1>6 DEF Whole
    <2>2. ASSUME NEW x \in w.torn
          PROVE  \/ x \in Cursors /\ cur'[x].mode = "update" /\ cur'[x].dirty
                 \/ x \in Clients /\ inc'[x].kind \in {"dml", "ddl"}
        <3>1. x \in txn.working.torn /\ x # k
            BY <1>4
        <3>2. Owned(txn, cur, inc, x)
            BY <3>1 DEF Whole
        <3> QED BY <1>2, <1>3, <1>10, <3>1, <3>2 DEF Owned
    <2> QED BY <2>1, <2>2 DEF Attended
<1>13. Alone(txn, txn')
    BY <1>8, <1>11 DEF Alone
<1> QED BY <1>11, <1>12, <1>13 DEF Kept

\* A put that fails leaves the transaction failed, to be rolled back.
LEMMA PutFailsKept == ASSUME IInv, NEW k \in Cursors, PutFails(k) PROVE Kept
<1> DEFINE w == Torn(txn.working, k)
           m == DMLTouch(txn)
<1>1. /\ Inv(txn, cur, inc, begun) /\ txn \in TxnType /\ cur \in CurType /\ inc \in IncType
      /\ Fit(txn) /\ Objects(txn, cur, inc) /\ Bounded(txn, inc) /\ txn.working \in ContentType
      /\ Undoable(txn, cur)
    BY Unpacked
<1>2. /\ m \in TxnType /\ m.action = txn.action /\ m.locks = txn.locks /\ m.updaters = txn.updaters
      /\ m.lockState = (IF txn.lockState = EDbXReadLock THEN EDbWriteLock ELSE txn.lockState)
      /\ m.stable = txn.stable /\ m.working = txn.working /\ m.failed /\ m.maxLock = txn.maxLock
    BY <1>1, TouchFields
<1>3. /\ w \in ContentType /\ w.done = txn.working.done /\ w.torn = txn.working.torn \cup {k}
      /\ w.copied = txn.working.copied
    BY <1>1, ContentFields
<1>4. /\ cur[k].mode = "update" /\ txn' = [m EXCEPT !.working = w]
      /\ cur' = [cur EXCEPT ![k].dirty = FALSE] /\ inc' = inc /\ begun' = begun
    BY <1>2 DEF PutFails
<1> HIDE DEF w, m
<1>5. /\ txn' \in TxnType /\ txn'.working = w /\ txn'.stable = m.stable /\ txn'.action = m.action
      /\ txn'.lockState = m.lockState /\ txn'.failed = m.failed /\ txn'.locks = m.locks
      /\ txn'.updaters = m.updaters /\ txn'.maxLock = m.maxLock
    BY <1>2, <1>3, <1>4, WorkingFields
<1>6. /\ cur' \in CurType
      /\ \A j \in Cursors : /\ cur'[j].reads = cur[j].reads /\ cur'[j].mode = cur[j].mode
                            /\ cur'[j].connected = cur[j].connected
    BY <1>1, <1>4 DEF CurType, CursorType
<1>7. /\ txn.action = EDbWriteLock /\ Len(txn.locks) = 1
      /\ txn.lockState \in {EDbXReadLock, EDbWriteLock, EDbSchemaLock}
    <2>1. txn.action = EDbWriteLock /\ txn.lockState # EDbReadLock
        BY <1>1, <1>4, LastOne
    <2> QED BY <1>1, <2>1, Enumerations DEF Fit, TxnType
<1>8. Connected(cur') /\ Undoable(txn', cur') /\ Bounded(txn', inc')
    <2>1. Connected(cur')
        BY <1>1, <1>6 DEF Objects, Connected
    <2>2. Undoable(txn', cur')
        BY <1>1, <1>2, <1>3, <1>5, <1>6, <1>7, Enumerations DEF Undoable, Copying
    <2>3. Bounded(txn', inc')
        BY <1>1, <1>2, <1>3, <1>4, <1>5 DEF Bounded
    <2> QED BY <2>1, <2>2, <2>3
<1>9. Inv(txn', cur', inc', begun') /\ Lockers(txn') = Lockers(txn)
    <2>1. /\ \A j \in Cursors : /\ cur'[j].reads = cur[j].reads
                                /\ cur'[j].mode = "update" <=> cur[j].mode = "update"
          /\ \A j \in Cursors : cur'[j].connected => cur[j].connected
          /\ \A c \in Clients : inc'[c].kind = inc[c].kind
          /\ inc' \in IncType /\ begun' = begun
        BY <1>1, <1>4, <1>6
    <2>2. /\ txn'.locks = txn.locks /\ txn'.updaters = txn.updaters /\ txn'.action = txn.action
          /\ txn'.maxLock = txn.maxLock
          /\ \/ txn'.lockState = txn.lockState
             \/ /\ txn.action = EDbWriteLock /\ txn.lockState = EDbXReadLock
                /\ txn'.lockState = EDbWriteLock
        BY <1>2, <1>5, <1>7
    <2> QED BY <1>1, <1>5, <1>6, <1>7, <1>8, <2>1, <2>2, Stays
<1>10. Alone(txn, txn')
    <2>1. Lockers(txn) = {txn.locks[1].holder}
        BY <1>1, <1>7, Sole
    <2> QED BY <1>9, <2>1, AloneBy
<1>11. Whole(txn, cur, inc) => Whole(txn', cur', inc')
    <2>1. \A c \in Clients : inc[c].kind \in {"none", "dml"}
        BY <1>1, <1>7, Idle
    <2> QED BY <1>2, <1>4, <1>5, <2>1 DEF Whole, Owned
<1> QED BY <1>9, <1>10, <1>11 DEF Kept

\* Cancel, and the close of an updating cursor.
LEMMA CancelledKept ==
    ASSUME IInv, NEW k \in Cursors, NEW mode \in {"ready", "closed"}, cur[k].mode = "update", NoStreams(k),
           Cancelled(k, mode), UNCHANGED <<inc, begun>>
    PROVE  Kept
<1> DEFINE w == LeftCopy(txn.working, k)
           m == [txn EXCEPT !.working = w]
           v == IF cur[k].dirty THEN DMLTouch(m) ELSE m
           r == IF mode = "closed" THEN Closed ELSE [cur[k] EXCEPT !.mode = mode, !.dirty = FALSE]
           dv == [cur EXCEPT ![k] = r]
           h == txn.locks[1].holder
<1>1. /\ Inv(txn, cur, inc, begun) /\ txn \in TxnType /\ cur \in CurType /\ inc \in IncType
      /\ Fit(txn) /\ Objects(txn, cur, inc) /\ Bounded(txn, inc) /\ Undoable(txn, cur)
      /\ txn.working \in ContentType
    BY Unpacked
<1>13. /\ w \in ContentType /\ w.done = txn.working.done /\ w.torn = txn.working.torn
       /\ w.copied = txn.working.copied \ {k}
    BY <1>1, BlobFields
<1>2. cur[k].reads = 0 /\ DMLRollback(v, dv) /\ inc' = inc /\ begun' = begun
    BY DEF Cancelled, NoStreams
<1>3. r \in CursorType /\ r.mode = mode /\ r.reads = 0 /\ (mode = "closed" => ~r.connected)
    <2>1. cur[k] \in CursorType /\ 0 \in 0 .. MaxReads
        BY <1>1, DbAssumption DEF CurType
    <2> QED BY <1>2, <2>1 DEF Closed, CursorType
<1>4. /\ v \in TxnType /\ v.action = txn.action /\ v.locks = txn.locks /\ v.updaters = txn.updaters
      /\ v.lockState \in {txn.lockState, IF txn.lockState = EDbXReadLock THEN EDbWriteLock ELSE txn.lockState}
      /\ v.stable = txn.stable /\ v.working = w
      /\ cur[k].dirty => v.failed /\ v.lockState >= EDbWriteLock
      /\ ~cur[k].dirty => v.failed = txn.failed /\ v.lockState = txn.lockState
    <2> HIDE DEF w
    <2>1. /\ m \in TxnType /\ m.working = w /\ m.stable = txn.stable
          /\ m.action = txn.action /\ m.lockState = txn.lockState /\ m.failed = txn.failed
          /\ m.locks = txn.locks /\ m.updaters = txn.updaters
        BY <1>1, <1>13, WorkingFields
    <2>2. txn.lockState # EDbReadLock
        BY <1>1, LastOne
    <2> HIDE DEF m
    <2> QED BY <1>1, <2>1, <2>2, TouchFields, Enumerations DEF TxnType
<1>5. Touched(v.working) = Touched(txn.working)
    BY <1>4, <1>13, TouchedSame
<1> HIDE DEF v, r, m, w
<1>6. /\ dv \in CurType /\ dv[k].mode # "update" /\ dv[k].reads = 0
      /\ dv[k].mode = "closed" => ~dv[k].connected
      /\ \A j \in Cursors : j # k => dv[j] = cur[j]
    BY <1>1, <1>3 DEF CurType
<1> HIDE DEF dv
<1>7. InUpdate(v, h, dv, inc, begun) /\ Lockers(txn) = {h} /\ h \in Clients
    <2>1. v.working.done <= MaxOps /\ v.working.copied \subseteq txn.working.copied \ {k}
        BY <1>1, <1>4, <1>13 DEF Bounded
    <2>2. InUpdate(v, h, dv, inc, begun) /\ Lockers(txn) = {h}
        BY <1>1, <1>2, <1>4, <1>6, <2>1, CursorUpdate
    <2> QED BY <2>2 DEF InUpdate
<1>8. Undoable(v, dv)
    BY <1>1, <1>4, <1>5, <1>6, <1>13 DEF Undoable, Copying
<1>9. IF LastUpdate(v)
      THEN /\ Primary(v).reads = 0 /\ (\E q \in Revert(v) : txn' = Unlocked(q))
           /\ cur' = Disconnected(Abandoned(v, dv), v.lockState = EDbSchemaLock)
      ELSE txn' = LessUpdater(v) /\ cur' = dv
    BY <1>2 DEF DMLRollback, DoRollback
<1>10. /\ Inv(txn', cur', inc', begun') /\ Lockers(txn') \subseteq {h}
       /\ v.stable.torn = {} /\ (\A x \in v.working.torn : Owned(v, dv, inc, x)) => Whole(txn', cur', inc')
    BY <1>2, <1>7, <1>8, <1>9, RollbackEnds
<1>11. Whole(txn, cur, inc) => v.stable.torn = {} /\ \A x \in v.working.torn : Owned(v, dv, inc, x)
    BY <1>4, <1>6, <1>13 DEF Whole, Owned
<1>12. Alone(txn, txn')
    BY <1>7, <1>10 DEF Alone
<1> QED BY <1>10, <1>11, <1>12 DEF Kept

\* Cancel gives an update up.
LEMMA CancelKept == ASSUME IInv, NEW k \in Cursors, Cancel(k) PROVE Kept
BY CancelledKept DEF Cancel

\* A cursor that is closed gives its update up.
LEMMA CloseCursorKept == ASSUME IInv, NEW k \in Cursors, CloseCursor(k) PROVE Kept
<1>1. CASE cur[k].mode = "update"
    BY <1>1, CancelledKept DEF CloseCursor
<1>2. CASE cur[k].mode # "update"
    <2>1. /\ Inv(txn, cur, inc, begun) /\ txn \in TxnType /\ cur \in CurType /\ inc \in IncType
          /\ Objects(txn, cur, inc) /\ Bounded(txn, inc) /\ Undoable(txn, cur)
        BY Unpacked
    <2>2. /\ cur[k].reads = 0 /\ cur' = [cur EXCEPT ![k] = Closed]
          /\ txn' = txn /\ inc' = inc /\ begun' = begun
        BY <1>2 DEF CloseCursor, Cancelled, NoStreams
    <2>3. Closed \in CursorType /\ Closed.mode = "closed" /\ Closed.reads = 0 /\ Closed.connected = FALSE
        <3>1. 0 \in 0 .. MaxReads
            BY DbAssumption
        <3> QED BY <3>1 DEF Closed, CursorType
    <2>4. cur' \in CurType /\ cur'[k] = Closed /\ \A j \in Cursors : j # k => cur'[j] = cur[j]
        BY <2>1, <2>2, <2>3 DEF CurType
    <2>5. /\ \A j \in Cursors : /\ cur'[j].reads = cur[j].reads
                                /\ cur'[j].mode = "update" <=> cur[j].mode = "update"
          /\ \A j \in Cursors : cur'[j].connected => cur[j].connected
        BY <1>2, <2>2, <2>3, <2>4
    <2>6. Connected(cur') /\ Undoable(txn', cur') /\ Bounded(txn', inc')
        BY <1>2, <2>1, <2>2, <2>3, <2>4 DEF Objects, Connected, Undoable, Copying
    <2>7. Inv(txn', cur', inc', begun')
        BY <2>1, <2>2, <2>4, <2>5, <2>6, Stays
    <2>8. Whole(txn, cur, inc) => Whole(txn', cur', inc')
        BY <1>2, <2>2, <2>4 DEF Whole, Owned
    <2> QED BY <2>2, <2>7, <2>8, AloneTrivially DEF Kept
<1> QED BY <1>1, <1>2

\* One row changed from begin to end, by a cursor's delete or an INSERT.
LEMMA ChangeRowKept ==
    ASSUME IInv, NEW c \in Clients, NEW x \in Clients \cup Cursors, ~txn.failed, DMLPrepareL(c),
           ChangeRow(c, x) \/ ChangeRowFails(c, x), UNCHANGED <<inc, begun>>
    PROVE  Kept
<1>1. /\ Inv(txn, cur, inc, begun) /\ txn \in TxnType /\ cur \in CurType /\ inc \in IncType
      /\ Bounded(txn, inc) /\ txn.working \in ContentType
    BY Unpacked
<1>2. MayExclude(txn, c) /\ txn.action <= EDbWriteLock /\ inc' = inc /\ begun' = begun
    BY DEF DMLPrepareL
<1>3. DMLTouch(DMLBegin(txn, c)).working = txn.working
    <2>1. DMLBegin(txn, c) \in TxnType /\ DMLBegin(txn, c).working = txn.working
        BY <1>1, BeginFields
    <2> QED BY <2>1, TouchFields
<1>4. CASE ChangeRow(c, x)
    <2> DEFINE w == Finished(txn.working, x)
               v == [DMLTouch(DMLBegin(txn, c)) EXCEPT !.working = w]
    <2>1. /\ w \in ContentType /\ w.done = txn.working.done + 1 /\ w.torn = txn.working.torn \ {x}
          /\ w.copied \subseteq txn.working.copied
        BY <1>1, ContentFields
    <2>2. txn.working.done < MaxOps /\ DMLCommitL(v, cur)
        BY <1>3, <1>4 DEF ChangeRow
    <2> HIDE DEF w
    <2>3. w.done <= MaxOps
        <3>1. txn.working.done \in Nat /\ MaxOps \in Nat
            BY <1>1, DbAssumption DEF ContentType
        <3> QED BY <2>1, <2>2, <3>1
    <2>4. /\ InUpdate(v, c, cur, inc, begun) /\ v.lockState >= EDbWriteLock
          /\ v.working = w /\ v.stable = txn.stable /\ Lockers(txn) \subseteq {c}
        BY <1>1, <1>2, <2>1, <2>3, BegunUpdate
    <2> HIDE DEF v
    <2>5. cur' = cur /\ (IF LastUpdate(v) THEN Primary(v).reads = 0 /\ txn' = Unlocked(Saved(v))
                         ELSE txn' = [LessUpdater(v) EXCEPT !.failed = FALSE])
        BY <2>2 DEF DMLCommitL, DoCommitL
    <2>6. /\ Inv(txn', cur', inc', begun') /\ Lockers(txn') \subseteq {c}
          /\ v.stable.torn = {} /\ Attended(v.working, cur', inc') => Whole(txn', cur', inc')
        BY <1>2, <2>4, <2>5, CommitEnds
    <2>7. Whole(txn, cur, inc) => v.stable.torn = {} /\ Attended(v.working, cur', inc')
        BY <1>2, <2>1, <2>4, <2>5 DEF Whole, Owned, Attended
    <2>8. Alone(txn, txn')
        BY <2>4, <2>6 DEF Alone
    <2> QED BY <2>6, <2>7, <2>8 DEF Kept
<1>5. CASE ChangeRowFails(c, x)
    <2> DEFINE w == Torn(txn.working, x)
               v == [DMLTouch(DMLBegin(txn, c)) EXCEPT !.working = w]
    <2>1. w \in ContentType /\ w.done = txn.working.done /\ w.copied \subseteq txn.working.copied
        BY <1>1, ContentFields
    <2>2. DMLRollback(v, cur)
        BY <1>3, <1>5 DEF ChangeRowFails
    <2> HIDE DEF w
    <2>3. w.done <= MaxOps
        BY <1>1, <2>1 DEF Bounded
    <2>4. /\ InUpdate(v, c, cur, inc, begun) /\ v.lockState >= EDbWriteLock /\ v.failed
          /\ v.stable = txn.stable /\ Lockers(txn) \subseteq {c}
        BY <1>1, <1>2, <2>1, <2>3, BegunUpdate
    <2> HIDE DEF v
    <2>5. IF LastUpdate(v)
          THEN /\ Primary(v).reads = 0 /\ (\E q \in Revert(v) : txn' = Unlocked(q))
               /\ cur' = Disconnected(Abandoned(v, cur), v.lockState = EDbSchemaLock)
          ELSE txn' = LessUpdater(v) /\ cur' = cur
        BY <2>2 DEF DMLRollback, DoRollback
    <2>6. Undoable(v, cur)
        BY <2>4 DEF Undoable, InUpdate
    <2>7. /\ Inv(txn', cur', inc', begun') /\ Lockers(txn') \subseteq {c}
          /\ v.stable.torn = {} /\ (\A y \in v.working.torn : Owned(v, cur, inc, y))
                => Whole(txn', cur', inc')
        BY <1>2, <2>4, <2>5, <2>6, RollbackEnds
    <2>8. Whole(txn, cur, inc) =>
             v.stable.torn = {} /\ \A y \in v.working.torn : Owned(v, cur, inc, y)
        BY <2>4 DEF Whole, Owned
    <2>9. Alone(txn, txn')
        BY <2>4, <2>7 DEF Alone
    <2> QED BY <2>7, <2>8, <2>9 DEF Kept
<1> QED BY <1>4, <1>5

\* DeleteL changes one row from begin to end.
LEMMA DeleteLKept == ASSUME IInv, NEW k \in Cursors, DeleteL(k) PROVE Kept
<1>1. Owner[k] \in Clients /\ k \in Clients \cup Cursors /\ ~txn.failed
    BY ObjectTypes DEF DeleteL, CheckStateL, ReadyL
<1> QED BY <1>1, ChangeRowKept DEF DeleteL

\* An exclusive lock for a utility or the schema is no place for streams.
LEMMA ReaderFacts ==
    ASSUME NEW t, NEW cu, NEW ic, NEW b, Inv(t, cu, ic, b), NEW k \in Cursors, cu[k].connected
    PROVE  /\ t.action \notin {EDbSchemaLock, EDbRecoveryLock}
           /\ t.lockState \in {EDbCompactLock, EDbRecoveryLock} => t.action = EDbCompactLock
<1>1. t \in TxnType /\ Fit(t) /\ Objects(t, cu, ic)
    BY DEF Inv, Types
<1>2. t.action \notin {EDbSchemaLock, EDbRecoveryLock}
    BY <1>1 DEF Objects
<1> QED BY <1>1, <1>2, Enumerations DEF Fit, TxnType

\* A client that had no lock takes a shared one.
LEMMA LockTaken ==
    ASSUME NEW t, NEW cu, NEW ic, NEW b, Inv(t, cu, ic, b), NEW c \in Clients, c \notin Lockers(t),
           NEW l \in LockType, l.holder = c, MayShare(t), NEW u, u = Share(t, l),
           NEW dv, NEW d, l.reads = Cardinality(StreamsOf(dv, c)), l.isTxn <=> c \in d,
           \A e \in Clients : e # c => StreamsOf(dv, e) = StreamsOf(cu, e),
           \A e \in Clients : e # c => (e \in d <=> e \in b),
           Upd(dv) = Upd(cu), Working(dv, ic, d, c),
           \A e \in Clients : e # c => (Working(dv, ic, d, e) <=> Working(cu, ic, b, e))
    PROVE  u \in TxnType /\ SameButLocks(t, u) /\ Ledger(u, dv, ic, d) /\ Fit(u)
<1> DEFINE n == Len(t.locks)
<1>1. t \in TxnType /\ Ledger(t, cu, ic, b) /\ Fit(t)
    BY DEF Inv, Types
<1>2. /\ u \in TxnType /\ SameButLocks(t, u) /\ Len(u.locks) = n + 1 /\ u.locks[n + 1] = l
      /\ \A j \in 1 .. n : u.locks[j] = t.locks[j]
      /\ u.maxLock = (IF n = t.maxLock THEN t.maxLock + ELockListGranularity ELSE t.maxLock)
    BY <1>1, ShareFields
<1>3. n \in Nat /\ t.maxLock \in Nat
    BY <1>1, ListTypes DEF TxnType
<1> HIDE DEF n
<1>4. \A j \in 1 .. n : /\ u.locks[j].holder = t.locks[j].holder /\ u.locks[j].holder \in Lockers(t)
                         /\ u.locks[j].holder # c /\ u.locks[j].holder \in Clients
    BY <1>1, <1>2, ListTypes DEF n
<1>5. \A j \in 1 .. Len(u.locks) : j \in 1 .. n \/ j = n + 1
    BY <1>2, <1>3
<1>6. Lockers(u) = Lockers(t) \cup {c}
    <2>1. Lockers(u) \subseteq Lockers(t) \cup {c}
        BY <1>2, <1>4, <1>5 DEF Lockers
    <2>2. c \in Lockers(u)
        BY <1>2, <1>3 DEF Lockers
    <2>3. ASSUME NEW e \in Lockers(t) PROVE e \in Lockers(u)
        <3>1. PICK j \in 1 .. n : e = t.locks[j].holder
            BY DEF Lockers, n
        <3>2. j \in 1 .. Len(u.locks) /\ u.locks[j].holder = e
            BY <1>2, <1>3, <3>1
        <3> QED BY <3>2 DEF Lockers
    <2> QED BY <2>1, <2>2, <2>3
<1>7. Distinct(u)
    <2> SUFFICES ASSUME NEW j \in 1 .. Len(u.locks), NEW m \in 1 .. Len(u.locks),
                        u.locks[j].holder = u.locks[m].holder
                 PROVE  j = m
        BY DEF Distinct
    <2>1. CASE j \in 1 .. n /\ m \in 1 .. n
        BY <1>1, <1>2, <2>1 DEF Ledger, Distinct, n
    <2>2. CASE j = n + 1 \/ m = n + 1
        BY <1>2, <1>4, <1>5, <2>2
    <2> QED BY <1>5, <2>1, <2>2
<1>8. \A e \in Clients : e \in Lockers(u) <=> Working(dv, ic, d, e)
    BY <1>1, <1>6 DEF Ledger
<1>9. ASSUME NEW j \in 1 .. Len(u.locks)
      PROVE  /\ u.locks[j].isTxn <=> u.locks[j].holder \in d
             /\ u.locks[j].reads = Cardinality(StreamsOf(dv, u.locks[j].holder))
    <2>1. CASE j \in 1 .. n
        <3>1. /\ t.locks[j].isTxn <=> t.locks[j].holder \in b
              /\ t.locks[j].reads = Cardinality(StreamsOf(cu, t.locks[j].holder))
            BY <1>1, <2>1 DEF Ledger, n
        <3> QED BY <1>2, <1>4, <2>1, <3>1
    <2>2. CASE j = n + 1
        BY <1>2, <2>2
    <2> QED BY <1>5, <2>1, <2>2
<1>10. Ledger(u, dv, ic, d)
    BY <1>1, <1>2, <1>7, <1>8, <1>9 DEF Ledger, SameButLocks
<1>11. Fit(u)
    <2>1. t.lockState = EDbReadLock /\ t.action = EDbReadLock /\ n <= t.maxLock /\ t.updaters = 0
        BY <1>1, <1>3, Enumerations DEF Fit, MayShare, n
    <2>2. Len(u.locks) <= u.maxLock /\ Len(u.locks) # 0
        BY <1>2, <1>3, <2>1, ObjectTypes
    <2> QED BY <1>2, <2>1, <2>2, Enumerations DEF Fit, SameButLocks
<1> QED BY <1>2, <1>10, <1>11

(***************************************************************************)
(* One of several locks is released, by a client that has nothing left to  *)
(* do: t is the list with that client's lock, i, still in it.              *)
(***************************************************************************)
LEMMA LockReleased ==
    ASSUME NEW t \in TxnType, Distinct(t), NEW i \in 1 .. Len(t.locks), Len(t.locks) > 1,
           NEW u, u = UnlockShared(t, i), NEW dv, NEW jc, NEW d,
           t.lockState = EDbReadLock, t.action = EDbReadLock, t.updaters = 0,
           Len(t.locks) <= t.maxLock, t.updaters = Cardinality(Upd(dv)) + Cardinality(Dml(jc)),
           ~Working(dv, jc, d, t.locks[i].holder),
           \A e \in Clients : e # t.locks[i].holder => (e \in Lockers(t) <=> Working(dv, jc, d, e)),
           \A j \in 1 .. Len(t.locks) : j # i =>
               /\ t.locks[j].isTxn <=> t.locks[j].holder \in d
               /\ t.locks[j].reads = Cardinality(StreamsOf(dv, t.locks[j].holder))
    PROVE  u \in TxnType /\ SameButLocks(t, u) /\ Ledger(u, dv, jc, d) /\ Fit(u)
<1>0. Unlisted(t, i, u)
    BY UnlockSharedFields, Zenon
<1>1. /\ u \in TxnType /\ SameButLocks(t, u) /\ u.maxLock = t.maxLock
      /\ Len(u.locks) = Len(t.locks) - 1
      /\ \A j \in 1 .. Len(u.locks) :
            \E n \in 1 .. Len(t.locks) : n # i /\ u.locks[j] = t.locks[n]
      /\ Lockers(u) = Lockers(t) \ {t.locks[i].holder} /\ Distinct(u)
    BY <1>0 DEF Unlisted
<1>2. Len(t.locks) \in Nat /\ t.maxLock \in Nat
    BY ListTypes DEF TxnType
<1>3. \A e \in Clients : e \in Lockers(u) <=> Working(dv, jc, d, e)
    BY <1>1
<1>4. \A j \in 1 .. Len(u.locks) :
         /\ u.locks[j].isTxn <=> u.locks[j].holder \in d
         /\ u.locks[j].reads = Cardinality(StreamsOf(dv, u.locks[j].holder))
    <2> TAKE j \in 1 .. Len(u.locks)
    <2>1. PICK n \in 1 .. Len(t.locks) : n # i /\ u.locks[j] = t.locks[n]
        BY <1>1
    <2>2. /\ t.locks[n].isTxn <=> t.locks[n].holder \in d
          /\ t.locks[n].reads = Cardinality(StreamsOf(dv, t.locks[n].holder))
        BY <2>1
    <2> QED BY <2>1, <2>2, Zenon
<1>5. Ledger(u, dv, jc, d)
    BY <1>1, <1>3, <1>4 DEF Ledger, SameButLocks
<1>6. Fit(u)
    BY <1>1, <1>2, Enumerations DEF Fit, SameButLocks
<1> QED BY <1>1, <1>5, <1>6

\* ColumnSourceL: a reader gets a lock, or one more read on the lock it has.
LEMMA ReadBlobKept == ASSUME IInv, NEW k \in Cursors, ReadBlob(k) PROVE Kept
<1> DEFINE c == Owner[k]
<1>1. /\ Inv(txn, cur, inc, begun) /\ txn \in TxnType /\ cur \in CurType /\ inc \in IncType
      /\ begun \subseteq Clients /\ Ledger(txn, cur, inc, begun) /\ Fit(txn)
      /\ Objects(txn, cur, inc) /\ Bounded(txn, inc) /\ Undoable(txn, cur) /\ c \in Clients
    BY Unpacked, ObjectTypes
<1>2. /\ cur[k].mode # "closed" /\ cur[k].connected /\ cur[k].reads < MaxReads /\ ~txn.failed
      /\ cur' = [cur EXCEPT ![k].reads = cur[k].reads + 1] /\ inc' = inc /\ begun' = begun
    BY DEF ReadBlob, CheckStateL, ReadyL
<1>3. /\ cur' \in CurType /\ cur'[k].reads = cur[k].reads + 1
      /\ \A j \in Cursors : /\ cur'[j].mode = cur[j].mode /\ cur'[j].dirty = cur[j].dirty
                            /\ cur'[j].connected = cur[j].connected
                            /\ j # k => cur'[j].reads = cur[j].reads
    <2>1. cur[k].reads + 1 \in 0 .. MaxReads
        BY <1>1, <1>2, ObjectTypes
    <2> QED BY <1>1, <1>2, <2>1 DEF CurType, CursorType
<1> HIDE DEF c
<1>4. /\ Cardinality(StreamsOf(cur', c)) = Cardinality(StreamsOf(cur, c)) + 1
      /\ \A e \in Clients : e # c => StreamsOf(cur', e) = StreamsOf(cur, e)
      /\ Upd(cur') = Upd(cur) /\ Dml(inc') = Dml(inc)
    <2>1. Upd(cur') = Upd(cur) /\ Dml(inc') = Dml(inc)
        BY <1>2, <1>3 DEF Upd
    <2> QED BY <1>1, <1>3, <2>1, StreamsMore DEF c
<1>5. Working(cur', inc', begun', c) /\ \A e \in Clients :
          e # c => (Working(cur', inc', begun', e) <=> Working(cur, inc, begun, e))
    <2>1. cur'[k].reads > 0
        BY <1>1, <1>3, ObjectTypes
    <2> QED BY <1>2, <1>3, <2>1 DEF Working, c
<1>6. Connected(cur')
    BY <1>1, <1>2, <1>3 DEF Objects, Connected
<1>7. txn.action \notin {EDbSchemaLock, EDbRecoveryLock}
      /\ (txn.lockState \in {EDbCompactLock, EDbRecoveryLock} => txn.action = EDbCompactLock)
    BY <1>1, <1>2, ReaderFacts
<1>8. ASSUME txn' \in TxnType, SameButLocks(txn, txn'), Ledger(txn', cur', inc', begun'), Fit(txn')
      PROVE  Kept
    <2>1. Objects(txn', cur', inc')
        BY <1>1, <1>2, <1>6, <1>7, <1>8 DEF Objects, SameButLocks
    <2>2. Bounded(txn', inc') /\ Undoable(txn', cur')
        BY <1>1, <1>2, <1>3, <1>8 DEF Bounded, Undoable, Copying, SameButLocks
    <2>3. Inv(txn', cur', inc', begun')
        BY <1>1, <1>2, <1>3, <1>8, <2>1, <2>2 DEF Inv, Types
    <2>4. Whole(txn, cur, inc) => Whole(txn', cur', inc')
        BY <1>2, <1>3, <1>8 DEF Whole, Owned, SameButLocks
    <2>5. Alone(txn, txn')
        BY <1>8 DEF Alone, SameButLocks
    <2> QED BY <2>3, <2>4, <2>5 DEF Kept
<1>9. CASE c \in Lockers(txn)
    <2> DEFINE i == GetLock(txn, c)
    <2>1. /\ i \in 1 .. Len(txn.locks) /\ txn.locks[i].holder = c /\ txn.locks[i].reads \in Int
          /\ \A j \in 1 .. Len(txn.locks) : txn.locks[j].holder = c => j = i
        BY <1>1, <1>9, GetLockFields, ListTypes DEF Ledger
    <2>2. txn.action # EDbCompactLock /\ txn' = [txn EXCEPT !.locks[i].reads = txn.locks[i].reads + 1]
        BY <1>9 DEF ReadBlob, c
    <2> HIDE DEF i
    <2>3. /\ txn' \in TxnType /\ SameButLocks(txn, txn') /\ txn'.maxLock = txn.maxLock
          /\ Len(txn'.locks) = Len(txn.locks)
          /\ \A j \in 1 .. Len(txn.locks) :
                /\ txn'.locks[j].holder = txn.locks[j].holder /\ txn'.locks[j].isTxn = txn.locks[j].isTxn
                /\ txn'.locks[j].reads =
                      IF j = i THEN txn.locks[i].reads + 1 ELSE txn.locks[j].reads
        <3> DEFINE m == txn.locks[i].reads + 1
        <3>1. m \in Int /\ i \in 1 .. Len(txn.locks)
            BY <2>1
        <3>2. txn' = [txn EXCEPT !.locks[i].reads = m]
            BY <2>2
        <3> HIDE DEF m
        <3>3. /\ txn' \in TxnType /\ SameButLocks(txn, txn') /\ txn'.maxLock = txn.maxLock
              /\ Len(txn'.locks) = Len(txn.locks)
              /\ \A j \in 1 .. Len(txn.locks) :
                    /\ txn'.locks[j].holder = txn.locks[j].holder
                    /\ txn'.locks[j].isTxn = txn.locks[j].isTxn
                    /\ txn'.locks[j].reads = IF j = i THEN m ELSE txn.locks[j].reads
            BY <1>1, <3>1, <3>2, ReadsFields, ZenonT(60)
        <3> QED BY <3>3 DEF m
    <2>4. Lockers(txn') = Lockers(txn) /\ Distinct(txn')
        BY <1>1, <2>3 DEF Lockers, Distinct, Ledger
    <2>5. \A e \in Clients : e \in Lockers(txn') <=> Working(cur', inc', begun', e)
        BY <1>1, <1>5, <1>9, <2>4 DEF Ledger
    <2>6. ASSUME NEW j \in 1 .. Len(txn'.locks)
          PROVE  /\ txn'.locks[j].isTxn <=> txn'.locks[j].holder \in begun'
                 /\ txn'.locks[j].reads = Cardinality(StreamsOf(cur', txn'.locks[j].holder))
        <3>1. /\ txn.locks[j].isTxn <=> txn.locks[j].holder \in begun
              /\ txn.locks[j].reads = Cardinality(StreamsOf(cur, txn.locks[j].holder))
              /\ txn.locks[j].holder \in Clients
            BY <1>1, <2>3, ListTypes DEF Ledger
        <3>2. CASE j = i
            BY <1>2, <1>4, <2>1, <2>3, <3>1, <3>2
        <3>3. CASE j # i
            BY <1>2, <1>4, <2>1, <2>3, <3>1, <3>3
        <3> QED BY <3>2, <3>3
    <2>7. Ledger(txn', cur', inc', begun')
        BY <1>1, <1>4, <2>3, <2>4, <2>5, <2>6 DEF Ledger, SameButLocks
    <2>8. Fit(txn')
        <3>1. Len(txn.locks) >= 1 /\ txn'.locks[1].isTxn = txn.locks[1].isTxn
            <4>1. Len(txn.locks) \in Nat /\ i \in 1 .. Len(txn.locks)
                BY <1>1, <2>1, ListTypes
            <4>2. Len(txn.locks) >= 1 /\ 1 \in 1 .. Len(txn.locks)
                BY <4>1
            <4> QED BY <2>3, <4>2, Zenon
        <3>2. txn.action \notin {EDbCompactLock, EDbRecoveryLock}
              /\ txn.lockState \notin {EDbCompactLock, EDbRecoveryLock}
            BY <1>7, <2>2
        <3>3. /\ txn'.action = txn.action /\ txn'.lockState = txn.lockState
              /\ txn'.updaters = txn.updaters /\ Len(txn'.locks) = Len(txn.locks)
              /\ txn'.maxLock = txn.maxLock
            BY <2>3 DEF SameButLocks
        <3> QED BY <1>1, <3>1, <3>2, <3>3 DEF Fit
    <2> QED BY <1>8, <2>3, <2>7, <2>8
<1>10. CASE c \notin Lockers(txn)
    <2> DEFINE l == Lock(c, FALSE, 1)
    <2>1. MayShare(txn) /\ txn' = Share(txn, l)
        BY <1>10 DEF ReadBlob, c
    <2>2. l \in LockType /\ l.holder = c /\ l.isTxn = FALSE /\ l.reads = 1
        BY <1>1 DEF Lock, LockType
    <2> HIDE DEF l
    <2>3. ~Working(cur, inc, begun, c)
        BY <1>1, <1>10 DEF Ledger
    <2>4. c \notin begun /\ Cardinality(StreamsOf(cur, c)) = 0
        <3>1. c \notin begun /\ \A j \in Cursors : Owner[j] = c => cur[j].reads = 0
            BY <1>1, <2>3, ObjectTypes DEF Working
        <3> QED BY <1>1, <3>1, StreamsFacts
    <2>5. l.reads = Cardinality(StreamsOf(cur', c)) /\ (l.isTxn <=> c \in begun')
        BY <1>2, <1>4, <2>2, <2>4
    <2>6. \A e \in Clients : e # c => (e \in begun' <=> e \in begun)
        BY <1>2
    <2>7. txn' \in TxnType /\ SameButLocks(txn, txn') /\ Ledger(txn', cur', inc', begun') /\ Fit(txn')
        <3>1. Working(cur', inc, begun', c) /\ \A e \in Clients :
                  e # c => (Working(cur', inc, begun', e) <=> Working(cur, inc, begun, e))
            BY <1>2, <1>5
        <3>2. Ledger(txn', cur', inc, begun') /\ txn' \in TxnType /\ SameButLocks(txn, txn') /\ Fit(txn')
            BY <1>1, <1>4, <1>10, <2>1, <2>2, <2>5, <2>6, <3>1, LockTaken
        <3> QED BY <1>2, <3>2
    <2> QED BY <1>8, <2>7
<1> QED BY <1>9, <1>10

(***************************************************************************)
(* ReadRelease: the lock goes with the last stream of a client that is     *)
(* neither in a transaction nor updating.                                  *)
(***************************************************************************)
LEMMA ReadReleaseKept == ASSUME IInv, NEW k \in Cursors, ReadRelease(k) PROVE Kept
<1> DEFINE c == Owner[k]
           i == GetLock(txn, c)
           m == txn.locks[i].reads - 1
           t == [txn EXCEPT !.locks[i].reads = m]
           free == t.locks[i].reads = 0 /\ ~t.locks[i].isTxn
<1>1. /\ Inv(txn, cur, inc, begun) /\ txn \in TxnType /\ cur \in CurType /\ inc \in IncType
      /\ begun \subseteq Clients /\ Ledger(txn, cur, inc, begun) /\ Fit(txn)
      /\ Objects(txn, cur, inc) /\ Bounded(txn, inc) /\ Undoable(txn, cur) /\ c \in Clients
    BY Unpacked, ObjectTypes
<1>2. /\ cur[k].reads > 0 /\ cur' = [cur EXCEPT ![k].reads = cur[k].reads - 1]
      /\ inc' = inc /\ begun' = begun
      /\ CASE free /\ Len(t.locks) > 1 -> txn' = UnlockShared(t, i) /\ UNCHANGED observer
           [] free /\ Len(t.locks) = 1 /\ t.action = EDbReadLock ->
                /\ txn' = Unlocked(t)
                /\ observer' = Observed(observer, UnlockEvent(t, EUnlock), FALSE)
           [] OTHER -> txn' = t /\ UNCHANGED observer
    BY DEF ReadRelease
<1>3. \/ free /\ Len(t.locks) > 1 /\ txn' = UnlockShared(t, i)
      \/ free /\ Len(t.locks) = 1 /\ t.action = EDbReadLock /\ txn' = Unlocked(t)
      \/ ~(free /\ Len(t.locks) > 1) /\ ~(free /\ Len(t.locks) = 1 /\ t.action = EDbReadLock) /\ txn' = t
    <2> HIDE DEF free, t, i
    <2> QED BY <1>2
<1>4. /\ cur' \in CurType /\ cur[k].reads = cur'[k].reads + 1
      /\ \A j \in Cursors : /\ cur'[j].mode = cur[j].mode /\ cur'[j].dirty = cur[j].dirty
                            /\ cur'[j].connected = cur[j].connected
                            /\ j # k => cur'[j].reads = cur[j].reads
    <2>1. cur[k].reads - 1 \in 0 .. MaxReads /\ cur[k].reads \in Nat
        BY <1>1, <1>2, ObjectTypes
    <2> QED BY <1>1, <1>2, <2>1 DEF CurType, CursorType
<1>5. cur[k].connected /\ Working(cur, inc, begun, c) /\ c \in Lockers(txn)
    BY <1>1, <1>2 DEF Objects, Connected, Working, Ledger
<1>6. /\ i \in 1 .. Len(txn.locks) /\ txn.locks[i].holder = c /\ m \in Int
      /\ \A j \in 1 .. Len(txn.locks) : txn.locks[j].holder = c => j = i
    BY <1>1, <1>5, GetLockFields, ListTypes DEF Ledger
<1> HIDE DEF i, m, c
<1>7. /\ t \in TxnType /\ SameButLocks(txn, t) /\ t.maxLock = txn.maxLock
      /\ Len(t.locks) = Len(txn.locks)
      /\ \A j \in 1 .. Len(txn.locks) :
            /\ t.locks[j].holder = txn.locks[j].holder /\ t.locks[j].isTxn = txn.locks[j].isTxn
            /\ t.locks[j].reads = IF j = i THEN m ELSE txn.locks[j].reads
    BY <1>1, <1>6, ReadsFields, Zenon
<1> HIDE DEF t
<1>8. /\ Cardinality(StreamsOf(cur, c)) = Cardinality(StreamsOf(cur', c)) + 1
      /\ \A e \in Clients : e # c => StreamsOf(cur', e) = StreamsOf(cur, e)
      /\ Upd(cur') = Upd(cur) /\ Dml(inc') = Dml(inc)
    <2>1. Upd(cur') = Upd(cur) /\ Dml(inc') = Dml(inc)
        BY <1>2, <1>4 DEF Upd
    <2>2. \A j \in Cursors : j # k => cur[j].reads = cur'[j].reads
        BY <1>4
    <2> QED BY <1>1, <1>4, <2>1, <2>2, StreamsMore DEF c
<1>9. \A e \in Clients : /\ e # c => (Working(cur', inc', begun', e) <=> Working(cur, inc, begun, e))
                         /\ Working(cur', inc', begun', e) => Working(cur, inc, begun, e)
    <2>1. \A j \in Cursors : Owner[j] # c => cur'[j].reads = cur[j].reads
        BY <1>4 DEF c
    <2>2. \A j \in Cursors : cur'[j].reads > 0 => cur[j].reads > 0
        BY <1>2, <1>4
    <2> QED BY <1>2, <1>4, <2>1, <2>2 DEF Working
<1>10. Lockers(t) = Lockers(txn) /\ Distinct(t)
    BY <1>1, <1>7 DEF Lockers, Distinct, Ledger
<1>11. \A j \in 1 .. Len(txn.locks) :
          /\ t.locks[j].isTxn <=> t.locks[j].holder \in begun'
          /\ t.locks[j].reads = Cardinality(StreamsOf(cur', t.locks[j].holder))
          /\ t.locks[j].holder \in Clients
    <2> SUFFICES ASSUME NEW j \in 1 .. Len(txn.locks)
                 PROVE  /\ t.locks[j].isTxn <=> t.locks[j].holder \in begun'
                        /\ t.locks[j].reads = Cardinality(StreamsOf(cur', t.locks[j].holder))
                        /\ t.locks[j].holder \in Clients
        OBVIOUS
    <2>1. /\ txn.locks[j].isTxn <=> txn.locks[j].holder \in begun
          /\ txn.locks[j].reads = Cardinality(StreamsOf(cur, txn.locks[j].holder))
          /\ txn.locks[j].holder \in Clients
        BY <1>1, ListTypes DEF Ledger
    <2>2. CASE j = i
        <3>1. Cardinality(StreamsOf(cur', c)) \in Nat
            BY <1>1, <1>4, StreamsFacts
        <3> QED BY <1>2, <1>6, <1>7, <1>8, <2>1, <2>2, <3>1 DEF m
    <2>3. CASE j # i
        BY <1>2, <1>6, <1>7, <1>8, <2>1, <2>3
    <2> QED BY <2>2, <2>3
<1>12. Connected(cur')
    <2>1. \A j \in Cursors : cur'[j].reads > 0 => cur[j].reads > 0
        BY <1>2, <1>4
    <2>2. \A j \in Cursors : cur[j].reads = 0 => cur'[j].reads = 0
        BY <1>1, <1>2, <1>4, ObjectTypes
    <2> QED BY <1>1, <1>4, <2>1, <2>2 DEF Objects, Connected
<1>13. /\ txn.action \in {EDbReadLock, EDbWriteLock}
       /\ txn.lockState \notin {EDbCompactLock, EDbRecoveryLock}
    <2>1. txn.action \notin {EDbSchemaLock, EDbRecoveryLock}
          /\ (txn.lockState \in {EDbCompactLock, EDbRecoveryLock} => txn.action = EDbCompactLock)
        BY <1>1, <1>5, ReaderFacts
    <2>2. txn.action # EDbCompactLock
        <3> SUFFICES ASSUME txn.action = EDbCompactLock PROVE FALSE
            OBVIOUS
        <3>1. Len(txn.locks) = 1 /\ txn.locks[1].reads = 0
            BY <1>1, Enumerations DEF Fit
        <3> QED BY <1>1, <1>2, <3>1, Sole
    <2> QED BY <1>1, <2>1, <2>2, Enumerations DEF Fit, TxnType
<1>14. ASSUME txn' \in TxnType, SameButLocks(txn, txn'), Ledger(txn', cur', inc', begun'), Fit(txn')
       PROVE  Kept
    <2>1. Objects(txn', cur', inc')
        BY <1>1, <1>2, <1>12, <1>13, <1>14, Enumerations DEF Objects, SameButLocks
    <2>2. Bounded(txn', inc') /\ Undoable(txn', cur')
        BY <1>1, <1>2, <1>4, <1>14 DEF Bounded, Undoable, Copying, SameButLocks
    <2>3. Inv(txn', cur', inc', begun')
        BY <1>1, <1>2, <1>4, <1>14, <2>1, <2>2 DEF Inv, Types
    <2>4. Whole(txn, cur, inc) => Whole(txn', cur', inc')
        BY <1>2, <1>4, <1>14 DEF Whole, Owned, SameButLocks
    <2>5. Alone(txn, txn')
        BY <1>14 DEF Alone, SameButLocks
    <2> QED BY <2>3, <2>4, <2>5 DEF Kept
\* The client has other locks beside it and nothing left to do.
<1>15. CASE free /\ Len(t.locks) > 1 /\ txn' = UnlockShared(t, i)
    <2>1. Len(t.locks) > 1 /\ txn' = UnlockShared(t, i) /\ i \in 1 .. Len(t.locks)
        BY <1>6, <1>7, <1>15
    <2>2. t.locks[i].reads = 0 /\ ~t.locks[i].isTxn /\ t.locks[i].holder = c
        BY <1>6, <1>7, <1>15 DEF free
    <2> HIDE DEF free
    <2>3. Len(txn.locks) \in Nat /\ Len(txn.locks) > 1
        BY <1>1, <1>7, <2>1, ListTypes
    <2>4. txn.lockState = EDbReadLock
        <3>1. Len(txn.locks) # 1
            BY <2>3, NoneOneMany, Zenon
        <3> QED BY <1>1, <3>1 DEF Fit
    <2>5. txn.action = EDbReadLock /\ txn.updaters = 0 /\ Len(txn.locks) <= txn.maxLock
        BY <1>1, <2>4, Enumerations DEF Fit
    <2>6. ~Working(cur', inc', begun', c)
        <3>1. c \notin begun' /\ Cardinality(StreamsOf(cur', c)) = 0
            BY <1>6, <1>11, <2>2
        <3>2. \A j \in Cursors : Owner[j] = c => cur'[j].reads = 0
            BY <1>1, <1>4, <3>1, StreamsFacts
        <3>3. (\A j \in Cursors : cur[j].mode # "update") /\ inc[c].kind = "none"
            BY <1>1, <2>5, Idle
        <3> QED BY <1>2, <1>4, <3>1, <3>2, <3>3 DEF Working
    <2>7. \A e \in Clients : e # c => (e \in Lockers(t) <=> Working(cur', inc', begun', e))
        BY <1>1, <1>9, <1>10 DEF Ledger
    <2>8. /\ t.lockState = EDbReadLock /\ t.action = EDbReadLock /\ t.updaters = 0
          /\ Len(t.locks) <= t.maxLock /\ t.updaters = Cardinality(Upd(cur')) + Cardinality(Dml(inc'))
        BY <1>1, <1>7, <1>8, <2>4, <2>5 DEF SameButLocks, Ledger
    <2>9. /\ \A j \in 1 .. Len(t.locks) : j # i =>
                /\ t.locks[j].isTxn <=> t.locks[j].holder \in begun'
                /\ t.locks[j].reads = Cardinality(StreamsOf(cur', t.locks[j].holder))
          /\ t \in TxnType /\ Distinct(t)
        BY <1>7, <1>10, <1>11
    <2>10. /\ txn' \in TxnType /\ SameButLocks(t, txn') /\ Ledger(txn', cur', inc', begun')
           /\ Fit(txn')
        BY <2>1, <2>2, <2>6, <2>7, <2>8, <2>9, LockReleased
    <2>11. SameButLocks(txn, txn')
        BY <1>7, <2>10 DEF SameButLocks
    <2> QED BY <1>14, <2>10, <2>11
\* It was the only one with a lock.
<1>16. CASE free /\ Len(t.locks) = 1 /\ t.action = EDbReadLock /\ txn' = Unlocked(t)
    <2>1. /\ txn' \in TxnType /\ txn'.action = EDbReadLock /\ txn'.lockState = EDbReadLock
          /\ ~txn'.failed /\ txn'.locks = <<>> /\ txn'.updaters = 0
          /\ txn'.working = t.working /\ txn'.stable = t.stable
        BY <1>7, <1>16, UnlockedFields
    <2>2. i = 1 /\ ~txn.locks[1].isTxn /\ t.locks[1].reads = 0 /\ Len(txn.locks) = 1
        BY <1>6, <1>7, <1>16 DEF free
    <2> HIDE DEF free
    <2>a. txn.action = EDbReadLock
        BY <1>7, <1>16 DEF SameButLocks
    <2>3. txn.lockState = EDbReadLock
        BY <1>1, <2>2, <2>a DEF Fit
    <2>b. txn.updaters = 0 /\ \A e \in Clients : inc[e].kind \in {"none", "dml"}
        <3>1. txn.action # EDbWriteLock /\ txn.action \in {EDbReadLock, EDbWriteLock}
            BY <2>a, Enumerations
        <3> QED BY <1>1, <3>1, Idle
    <2>4. /\ \A j \in Cursors : cur[j].mode # "update"
          /\ \A e \in Clients : inc[e].kind = "none"
        BY <1>1, <2>b, Idle
    <2>c. txn'.working = txn.working /\ txn'.stable = txn.stable
        BY <1>7, <2>1 DEF SameButLocks
    <2>d. /\ txn.working.copied = {} /\ txn.stable.copied = {}
          /\ Touched(txn.working) = Touched(txn.stable)
        BY <1>1, <2>3, <2>4, NoCopies, Enumerations
    <2>5. /\ Touched(txn'.working) = Touched(txn'.stable)
          /\ txn'.working.copied = {} /\ txn'.stable.copied = {}
        BY <2>c, <2>d
    <2>6. begun' = {}
        BY <1>1, <1>2, <2>2, Sole DEF Working
    <2>7. \A j \in Cursors : cur'[j].reads = 0
        <3> SUFFICES ASSUME NEW j \in Cursors PROVE cur'[j].reads = 0
            OBVIOUS
        <3>1. Cardinality(StreamsOf(cur', c)) = 0
            BY <1>6, <1>7, <1>11, <2>2
        <3>2. CASE Owner[j] = c
            BY <1>1, <1>4, <3>1, <3>2, StreamsFacts
        <3>3. CASE Owner[j] # c
            <4>1. Owner[j] \in Clients /\ cur[j].reads \in Nat /\ cur'[j].reads = cur[j].reads
                BY <1>1, <1>4, <3>3, ObjectTypes DEF c
            <4>2. ~Working(cur, inc, begun, Owner[j])
                BY <1>1, <1>6, <2>2, <3>3, <4>1, Sole
            <4> QED BY <4>1, <4>2 DEF Working
        <3> QED BY <3>2, <3>3
    <2>8. txn'.stable.done <= MaxOps
        BY <1>1, <2>c DEF Bounded
    <2>9. Inv(txn', cur', inc', begun')
        <3>1. /\ \A j \in Cursors : cur'[j].reads = 0 /\ cur'[j].mode # "update"
              /\ \A e \in Clients : inc'[e].kind = "none"
              /\ cur' \in CurType /\ inc' \in IncType
            BY <1>1, <1>2, <1>4, <2>4, <2>7
        <3>2. Connected(cur')
            BY <1>12
        <3> QED BY <2>1, <2>5, <2>6, <2>8, <3>1, <3>2, Released
    <2>10. Whole(txn, cur, inc) => Whole(txn', cur', inc')
        <3>1. txn'.working.torn = txn'.stable.torn
            BY <2>5, TouchedSame
        <3> QED BY <1>2, <2>4, <2>c, <3>1 DEF Whole
    <2> QED BY <2>c, <2>9, <2>10, AloneTrivially DEF Kept
\* The client keeps its lock.
<1>17. CASE /\ ~(free /\ Len(t.locks) > 1)
            /\ ~(free /\ Len(t.locks) = 1 /\ t.action = EDbReadLock) /\ txn' = t
    <2>1. Working(cur', inc', begun', c)
        <3>1. CASE ~free
            <4>1. t.locks[i].holder = c /\ (t.locks[i].isTxn <=> c \in begun')
                  /\ t.locks[i].reads = Cardinality(StreamsOf(cur', c))
                BY <1>6, <1>7, <1>11
            <4>2. CASE t.locks[i].isTxn
                BY <4>1, <4>2 DEF Working
            <4>3. CASE t.locks[i].reads # 0
                <5>1. PICK j \in Cursors : Owner[j] = c /\ cur'[j].reads # 0
                    BY <1>1, <1>4, <4>1, <4>3, StreamsFacts
                <5>2. cur'[j].reads > 0
                    BY <1>4, <5>1, ObjectTypes
                <5> QED BY <5>1, <5>2 DEF Working
            <4> QED BY <3>1, <4>2, <4>3 DEF free
        <3>2. CASE free
            <4>1. Len(txn.locks) = 1 /\ txn.action = EDbWriteLock
                <5>1. Len(t.locks) \in Nat /\ Len(t.locks) # 0
                    BY <1>6, <1>7, <1>1, ListTypes
                <5> HIDE DEF free
                <5>2. ~(Len(t.locks) > 1) /\ ~(Len(t.locks) = 1 /\ t.action = EDbReadLock)
                    BY <1>17, <3>2
                <5>3. Len(t.locks) = 1
                    BY <5>1, <5>2, NoneOneMany, Zenon
                <5>4. t.action # EDbReadLock
                    BY <5>2, <5>3
                <5> QED BY <1>7, <1>13, <5>3, <5>4 DEF SameButLocks
            <4>2. txn.locks[1].holder = c
                BY <1>6, <4>1
            <4>3. txn.updaters # 0 /\ txn.updaters = Cardinality(Upd(cur)) + Cardinality(Dml(inc))
                BY <1>1, <4>1 DEF Fit, Ledger
            <4>4. CASE Cardinality(Upd(cur)) # 0
                <5>1. PICK j \in Cursors : cur[j].mode = "update"
                    BY <1>1, <4>4, UpdFacts
                <5>2. Owner[j] = c
                    <6>1. Owner[j] \in Clients /\ Working(cur, inc, begun, Owner[j])
                        BY <5>1, ObjectTypes DEF Working
                    <6> QED BY <1>1, <4>1, <4>2, <6>1, Sole
                <5> QED BY <1>4, <5>1, <5>2 DEF Working
            <4>5. CASE Cardinality(Dml(inc)) # 0
                <5>1. PICK e \in Clients : inc[e].kind = "dml"
                    BY <1>1, <4>5, UpdFacts
                <5>2. e = c
                    <6>1. Working(cur, inc, begun, e)
                        BY <5>1 DEF Working
                    <6> QED BY <1>1, <4>1, <4>2, <6>1, Sole
                <5> QED BY <1>2, <5>1, <5>2 DEF Working
            <4> QED BY <4>3, <4>4, <4>5
        <3> QED BY <3>1, <3>2
    <2>2. \A e \in Clients : e \in Lockers(txn') <=> Working(cur', inc', begun', e)
        BY <1>1, <1>5, <1>9, <1>10, <1>17, <2>1 DEF Ledger
    <2>3. Ledger(txn', cur', inc', begun')
        BY <1>1, <1>7, <1>8, <1>10, <1>11, <1>17, <2>2 DEF Ledger, SameButLocks
    <2>4. Fit(txn')
        <3>1. Len(txn.locks) >= 1 /\ txn'.locks[1].isTxn = txn.locks[1].isTxn
            BY <1>1, <1>6, <1>7, <1>17, ListTypes
        <3>2. txn.action \notin {EDbCompactLock, EDbRecoveryLock}
            BY <1>13, Enumerations
        <3> QED BY <1>1, <1>7, <1>13, <1>17, <3>1, <3>2 DEF Fit, SameButLocks
    <2> QED BY <1>7, <1>14, <1>17, <2>3, <2>4
<1> QED BY <1>3, <1>15, <1>16, <1>17

-----------------------------------------------------------------------------
(* The steps of the clients *)

\* Begin: a client without a lock takes one for its transaction.
LEMMA BeginKept == ASSUME IInv, NEW c \in Clients, Begin(c) PROVE Kept
<1> DEFINE l == Lock(c, TRUE, 0)
<1>1. /\ Inv(txn, cur, inc, begun) /\ txn \in TxnType /\ cur \in CurType /\ inc \in IncType
      /\ begun \subseteq Clients /\ Ledger(txn, cur, inc, begun) /\ Objects(txn, cur, inc)
      /\ Bounded(txn, inc) /\ Undoable(txn, cur)
    BY Unpacked
<1>2. /\ c \notin Lockers(txn) /\ MayShare(txn) /\ txn' = Share(txn, l)
      /\ begun' = begun \cup {c} /\ cur' = cur /\ inc' = inc
    BY DEF Begin
<1>3. l \in LockType /\ l.holder = c /\ l.isTxn = TRUE /\ l.reads = 0
    BY DEF Lock, LockType
<1> HIDE DEF l
<1>4. ~Working(cur, inc, begun, c)
    BY <1>1, <1>2 DEF Ledger
<1>5. Cardinality(StreamsOf(cur, c)) = 0
    <2>1. \A j \in Cursors : Owner[j] = c => cur[j].reads = 0
        BY <1>1, <1>4, ObjectTypes DEF Working
    <2> QED BY <1>1, <2>1, StreamsFacts
<1>6. l.reads = Cardinality(StreamsOf(cur, c)) /\ (l.isTxn <=> c \in begun')
    BY <1>2, <1>3, <1>5
<1>7. /\ \A e \in Clients : e # c => (e \in begun' <=> e \in begun)
      /\ \A e \in Clients : e # c => StreamsOf(cur, e) = StreamsOf(cur, e)
    BY <1>2
<1>8. Working(cur, inc, begun', c) /\ \A e \in Clients :
          e # c => (Working(cur, inc, begun', e) <=> Working(cur, inc, begun, e))
    BY <1>2 DEF Working
<1>9. txn' \in TxnType /\ SameButLocks(txn, txn') /\ Ledger(txn', cur, inc, begun') /\ Fit(txn')
    BY <1>1, <1>2, <1>3, <1>6, <1>7, <1>8, LockTaken
<1>10. Objects(txn', cur, inc) /\ Bounded(txn', inc) /\ Undoable(txn', cur)
    BY <1>1, <1>9 DEF Objects, Bounded, Undoable, Copying, SameButLocks
<1>11. Inv(txn', cur', inc', begun')
    BY <1>1, <1>2, <1>9, <1>10 DEF Inv, Types
<1>12. Whole(txn, cur, inc) => Whole(txn', cur', inc')
    BY <1>2, <1>9 DEF Whole, Owned, SameButLocks
<1>13. Alone(txn, txn')
    BY <1>9 DEF Alone, SameButLocks
<1> QED BY <1>11, <1>12, <1>13 DEF Kept

\* The lock of a client in a transaction.
LEMMA InTransactionFacts ==
    ASSUME NEW t, NEW cu, NEW ic, NEW b, Inv(t, cu, ic, b), NEW c \in Clients, InTransaction(t, c)
    PROVE  /\ c \in Lockers(t) /\ c \in b
           /\ GetLock(t, c) \in 1 .. Len(t.locks) /\ t.locks[GetLock(t, c)].holder = c
           /\ \A j \in 1 .. Len(t.locks) : t.locks[j].holder = c => j = GetLock(t, c)
           /\ Len(t.locks) = 1 => t.locks[1].isTxn /\ t.locks[1].holder = c /\ Lockers(t) = {c}
<1>1. t \in TxnType /\ Ledger(t, cu, ic, b)
    BY DEF Inv, Types
<1>2. c \in Lockers(t) /\ t.locks[GetLock(t, c)].isTxn
    BY DEF InTransaction
<1>3. /\ GetLock(t, c) \in 1 .. Len(t.locks) /\ t.locks[GetLock(t, c)].holder = c
      /\ \A j \in 1 .. Len(t.locks) : t.locks[j].holder = c => j = GetLock(t, c)
    BY <1>1, <1>2, GetLockFields DEF Ledger
<1>4. c \in b
    BY <1>1, <1>2, <1>3 DEF Ledger
<1>5. ASSUME Len(t.locks) = 1 PROVE t.locks[1].isTxn /\ t.locks[1].holder = c /\ Lockers(t) = {c}
    <2>1. GetLock(t, c) = 1
        BY <1>3, <1>5
    <2> QED BY <1>2, <1>3, <1>5, <2>1, Sole
<1> QED BY <1>2, <1>3, <1>4, <1>5

\* The end of one of several transactions; nothing is going on in any of them.
LEMMA EndSharedKept == ASSUME IInv, NEW c \in Clients, EndShared(c) PROVE Kept
<1> DEFINE i == GetLock(txn, c)
<1>1. /\ Inv(txn, cur, inc, begun) /\ txn \in TxnType /\ cur \in CurType /\ inc \in IncType
      /\ begun \subseteq Clients /\ Ledger(txn, cur, inc, begun) /\ Fit(txn)
      /\ Objects(txn, cur, inc) /\ Bounded(txn, inc) /\ Undoable(txn, cur)
    BY Unpacked
<1>2. /\ InTransaction(txn, c) /\ Len(txn.locks) > 1 /\ txn.locks[i].reads = 0
      /\ txn' = UnlockShared(txn, i) /\ begun' = begun \ {c} /\ cur' = cur /\ inc' = inc
    BY DEF EndShared
<1>3. /\ i \in 1 .. Len(txn.locks) /\ txn.locks[i].holder = c
      /\ \A j \in 1 .. Len(txn.locks) : txn.locks[j].holder = c => j = i
    BY <1>1, <1>2, InTransactionFacts
<1> HIDE DEF i
<1>4. txn.lockState = EDbReadLock
    <2>1. Len(txn.locks) \in Nat
        BY <1>1, ListTypes
    <2>2. Len(txn.locks) # 1
        BY <1>2, <2>1, NoneOneMany, Zenon
    <2> QED BY <1>1, <2>2 DEF Fit
<1>5. txn.action = EDbReadLock /\ txn.updaters = 0 /\ Len(txn.locks) <= txn.maxLock
    BY <1>1, <1>4, Enumerations DEF Fit
<1>6. ~Working(cur, inc, begun', c)
    <2>1. Cardinality(StreamsOf(cur, c)) = 0
        BY <1>1, <1>2, <1>3 DEF Ledger
    <2>2. \A j \in Cursors : Owner[j] = c => cur[j].reads = 0
        BY <1>1, <2>1, StreamsFacts
    <2>3. (\A j \in Cursors : cur[j].mode # "update") /\ inc[c].kind = "none"
        BY <1>1, <1>5, Idle
    <2> QED BY <1>2, <2>2, <2>3 DEF Working
<1>7. \A e \in Clients : e # c => (e \in Lockers(txn) <=> Working(cur, inc, begun', e))
    <2>1. \A e \in Clients : e # c => (Working(cur, inc, begun', e) <=> Working(cur, inc, begun, e))
        BY <1>2 DEF Working
    <2> QED BY <1>1, <2>1 DEF Ledger
<1>8. \A j \in 1 .. Len(txn.locks) : j # i =>
          /\ txn.locks[j].isTxn <=> txn.locks[j].holder \in begun'
          /\ txn.locks[j].reads = Cardinality(StreamsOf(cur, txn.locks[j].holder))
    <2> SUFFICES ASSUME NEW j \in 1 .. Len(txn.locks), j # i
                 PROVE  /\ txn.locks[j].isTxn <=> txn.locks[j].holder \in begun'
                        /\ txn.locks[j].reads = Cardinality(StreamsOf(cur, txn.locks[j].holder))
        OBVIOUS
    <2>1. /\ txn.locks[j].isTxn <=> txn.locks[j].holder \in begun
          /\ txn.locks[j].reads = Cardinality(StreamsOf(cur, txn.locks[j].holder))
        BY <1>1 DEF Ledger
    <2>2. txn.locks[j].holder # c
        BY <1>3
    <2> QED BY <1>2, <2>1, <2>2
<1>9. Distinct(txn) /\ txn.updaters = Cardinality(Upd(cur)) + Cardinality(Dml(inc))
    BY <1>1 DEF Ledger
<1>10. txn' \in TxnType /\ SameButLocks(txn, txn') /\ Ledger(txn', cur, inc, begun') /\ Fit(txn')
    BY <1>1, <1>2, <1>3, <1>4, <1>5, <1>6, <1>7, <1>8, <1>9, LockReleased
<1>11. Objects(txn', cur, inc) /\ Bounded(txn', inc) /\ Undoable(txn', cur)
    BY <1>1, <1>10 DEF Objects, Bounded, Undoable, Copying, SameButLocks
<1>12. Inv(txn', cur', inc', begun')
    BY <1>1, <1>2, <1>10, <1>11 DEF Inv, Types
<1>13. Whole(txn, cur, inc) => Whole(txn', cur', inc')
    BY <1>2, <1>10 DEF Whole, Owned, SameButLocks
<1>14. Alone(txn, txn')
    BY <1>10 DEF Alone, SameButLocks
<1> QED BY <1>12, <1>13, <1>14 DEF Kept

\* The only transaction, with nothing going on: its client has no objects at work.
LEMMA OnlyTransaction ==
    ASSUME IInv, NEW c \in Clients, InTransaction(txn, c), Len(txn.locks) = 1,
           txn.action = EDbReadLock, Primary(txn).reads = 0
    PROVE  /\ \A k \in Cursors : cur[k].reads = 0 /\ cur[k].mode # "update"
           /\ \A e \in Clients : inc[e].kind = "none"
           /\ begun \ {c} = {} /\ Lockers(txn) = {c}
           /\ Touched(txn.working) # Touched(txn.stable) => txn.lockState >= EDbWriteLock
           /\ txn.working.copied = {} /\ txn.stable.copied = {}
<1>1. /\ Inv(txn, cur, inc, begun) /\ txn \in TxnType /\ cur \in CurType
      /\ begun \subseteq Clients /\ Undoable(txn, cur)
    BY Unpacked
<1>2. txn.locks[1].isTxn /\ txn.locks[1].holder = c /\ Lockers(txn) = {c} /\ txn.locks[1].reads = 0
    BY <1>1, InTransactionFacts DEF Primary
<1>3. txn.updaters = 0 /\ \A e \in Clients : inc[e].kind \in {"none", "dml"}
    <2>1. txn.action # EDbWriteLock /\ txn.action \in {EDbReadLock, EDbWriteLock}
        BY Enumerations
    <2> QED BY <1>1, <2>1, Idle
<1>4. (\A k \in Cursors : cur[k].mode # "update") /\ \A e \in Clients : inc[e].kind = "none"
    BY <1>1, <1>3, Idle
<1>5. \A k \in Cursors : cur[k].reads = 0
    BY <1>1, <1>2, Sole
<1>6. \A e \in Clients : Working(cur, inc, begun, e) <=> e = c
    BY <1>1, <1>2, Sole
<1>7. begun \ {c} = {}
    BY <1>1, <1>6 DEF Working
<1>8. /\ Touched(txn.working) # Touched(txn.stable) => txn.lockState >= EDbWriteLock
      /\ txn.working.copied = {} /\ txn.stable.copied = {}
    BY <1>1, <1>4, NoCopies
<1> QED BY <1>2, <1>4, <1>5, <1>7, <1>8

\* CommitL of the last lock: a transaction that has not failed is whole.
LEMMA CommitKept == ASSUME IInv, NEW c \in Clients, Commit(c) PROVE Kept
<1>1. /\ Inv(txn, cur, inc, begun) /\ txn \in TxnType /\ cur \in CurType /\ inc \in IncType
      /\ Bounded(txn, inc)
    BY Unpacked
<1>2. /\ InTransaction(txn, c) /\ ~txn.failed /\ Len(txn.locks) = 1 /\ txn.action = EDbReadLock
      /\ Primary(txn).reads = 0 /\ txn' = Unlocked(Saved(txn)) /\ cur' = cur
      /\ begun' = begun \ {c} /\ inc' = inc
    BY DEF Commit, ReadyL, DoCommitL
<1>3. /\ \A k \in Cursors : cur'[k].reads = 0 /\ cur'[k].mode # "update"
      /\ \A e \in Clients : inc'[e].kind = "none"
      /\ begun' = {} /\ Lockers(txn) = {c}
      /\ Touched(txn.working) # Touched(txn.stable) => txn.lockState >= EDbWriteLock
      /\ txn.working.copied = {} /\ txn.stable.copied = {}
    BY <1>2, OnlyTransaction
<1>4. /\ Saved(txn) \in TxnType /\ Saved(txn).working = txn.working
      /\ Saved(txn).stable = (IF txn.lockState >= EDbWriteLock THEN txn.working ELSE txn.stable)
    BY <1>1, SavedFields
<1>5. /\ txn' \in TxnType /\ txn'.action = EDbReadLock /\ txn'.lockState = EDbReadLock
      /\ ~txn'.failed /\ txn'.locks = <<>> /\ txn'.updaters = 0
      /\ txn'.working = Saved(txn).working /\ txn'.stable = Saved(txn).stable
    BY <1>2, <1>4, UnlockedFields
<1>6. /\ txn'.working = txn.working /\ Touched(txn'.stable) = Touched(txn.working)
      /\ txn'.stable.done <= MaxOps /\ txn'.working.copied = {} /\ txn'.stable.copied = {}
    <2>1. txn'.working = txn.working /\ txn'.stable \in {txn.working, txn.stable}
        BY <1>4, <1>5
    <2>2. Touched(txn'.stable) = Touched(txn.working)
        BY <1>3, <1>4, <1>5
    <2> QED BY <1>1, <1>3, <2>1, <2>2 DEF Bounded
<1>7. Inv(txn', cur', inc', begun') /\ Lockers(txn') = {}
    <2>1. Connected(cur')
        BY <1>2, Unpacked DEF Objects
    <2> QED BY <1>1, <1>2, <1>3, <1>5, <1>6, <2>1, Released
<1>8. Whole(txn, cur, inc) => Whole(txn', cur', inc')
    <2>1. Whole(txn, cur, inc) => txn.working.torn = {}
        BY <1>2, <1>3 DEF Whole, Owned
    <2>2. txn'.stable.torn = txn.working.torn
        BY <1>6, TouchedSame
    <2> QED BY <1>3, <1>6, <2>1, <2>2 DEF Whole
<1>9. Alone(txn, txn')
    BY <1>3, <1>7 DEF Alone
<1> QED BY <1>7, <1>8, <1>9 DEF Kept

\* A transaction that stays as it is but for having failed.
LEMMA FailedKept ==
    ASSUME IInv, txn' = [txn EXCEPT !.failed = TRUE], cur' = cur, inc' = inc, begun' = begun,
           \A c \in Clients : inc[c].kind # "ddl"
    PROVE  Kept
<1>1. /\ Inv(txn, cur, inc, begun) /\ txn \in TxnType /\ cur \in CurType /\ inc \in IncType
      /\ Objects(txn, cur, inc) /\ Bounded(txn, inc) /\ Undoable(txn, cur)
    BY Unpacked
<1>2. /\ txn' \in TxnType /\ txn'.failed /\ txn'.action = txn.action /\ txn'.lockState = txn.lockState
      /\ txn'.locks = txn.locks /\ txn'.updaters = txn.updaters /\ txn'.maxLock = txn.maxLock
      /\ txn'.working = txn.working /\ txn'.stable = txn.stable
    BY <1>1 DEF TxnType
<1>3. Connected(cur') /\ Bounded(txn', inc') /\ Undoable(txn', cur')
    BY <1>1, <1>2 DEF Objects, Bounded, Undoable, Copying
<1>4. /\ \A k \in Cursors : /\ cur'[k].reads = cur[k].reads
                            /\ cur'[k].mode = "update" <=> cur[k].mode = "update"
      /\ \A k \in Cursors : cur'[k].connected => cur[k].connected
      /\ \A c \in Clients : inc'[c].kind = inc[c].kind
      /\ cur' \in CurType /\ inc' \in IncType /\ begun' = begun
    BY <1>1
<1>5. Inv(txn', cur', inc', begun')
    BY <1>1, <1>2, <1>3, <1>4, Stays
<1>6. Whole(txn, cur, inc) => Whole(txn', cur', inc')
    BY <1>2 DEF Whole, Owned
<1> QED BY <1>2, <1>5, <1>6, AloneTrivially DEF Kept

\* A commit that fails leaves the transaction to be rolled back.
LEMMA CommitFailsKept == ASSUME IInv, NEW c \in Clients, CommitFails(c) PROVE Kept
<1>1. /\ InTransaction(txn, c) /\ Len(txn.locks) = 1 /\ txn.action = EDbReadLock
      /\ Primary(txn).reads = 0 /\ txn' = [txn EXCEPT !.failed = TRUE]
      /\ cur' = cur /\ inc' = inc /\ begun' = begun
    BY DEF CommitFails
<1>2. \A e \in Clients : inc[e].kind # "ddl"
    BY <1>1, OnlyTransaction
<1> QED BY <1>1, <1>2, FailedKept

\* Rollback takes the content back to what is committed.
LEMMA RollbackKept == ASSUME IInv, NEW c \in Clients, Rollback(c) PROVE Kept
<1>1. /\ Inv(txn, cur, inc, begun) /\ txn \in TxnType /\ cur \in CurType /\ inc \in IncType
      /\ Bounded(txn, inc)
    BY Unpacked
<1>2. /\ InTransaction(txn, c) /\ Len(txn.locks) = 1 /\ txn.action = EDbReadLock
      /\ Primary(txn).reads = 0 /\ (\E r \in Revert(txn) : txn' = Unlocked(r))
      /\ cur' = Disconnected(Abandoned(txn, cur), txn.lockState = EDbSchemaLock)
      /\ begun' = begun \ {c} /\ inc' = inc
    BY DEF Rollback, DoRollback
<1>3. /\ \A k \in Cursors : cur[k].reads = 0 /\ cur[k].mode # "update"
      /\ \A e \in Clients : inc'[e].kind = "none"
      /\ begun' = {} /\ Lockers(txn) = {c}
      /\ Touched(txn.working) # Touched(txn.stable) => txn.lockState >= EDbWriteLock
      /\ txn.working.copied = {} /\ txn.stable.copied = {}
    BY <1>2, OnlyTransaction
<1>4. Inv(txn', cur', inc', begun') /\ Lockers(txn') = {} /\ txn'.stable = txn.stable
      /\ txn'.working.torn = txn.stable.torn
    <2>1. txn.stable.done <= MaxOps /\ inc' \in IncType
        BY <1>1, <1>2 DEF Bounded
    <2>2. /\ cur' \in CurType
          /\ \A k \in Cursors : /\ cur'[k].reads = cur[k].reads /\ cur'[k].mode = cur[k].mode
                                /\ cur'[k].connected => cur[k].connected
        BY <1>1, <1>2, CursorsAfter
    <2>3. PICK r \in Revert(txn) : txn' = Unlocked(r)
        BY <1>2
    <2>5. Connected(cur)
        BY Unpacked DEF Objects
    <2>6. Connected(cur')
        BY <1>1, <1>3, <2>2, <2>5, StillConnected
    <2>4. AtRest(cur', inc', begun')
        BY <1>3, <2>1, <2>2, <2>6 DEF AtRest
    <2>7. /\ txn \in TxnType /\ AtRest(cur', inc', begun')
          /\ Touched(txn.working) # Touched(txn.stable) => txn.lockState >= EDbWriteLock
          /\ txn.stable.done <= MaxOps /\ txn' = Unlocked(r)
          /\ txn.working.copied = {} /\ txn.stable.copied = {}
        BY <1>1, <1>3, <2>1, <2>3, <2>4
    <2> QED BY <2>7, Reverted, Zenon
<1>5. Whole(txn, cur, inc) => Whole(txn', cur', inc')
    BY <1>3, <1>4 DEF Whole
<1>6. Alone(txn, txn')
    BY <1>3, <1>4 DEF Alone
<1> QED BY <1>4, <1>5, <1>6 DEF Kept

-----------------------------------------------------------------------------
(* The steps of the statements *)

\* An INSERT changes one row from begin to end.
LEMMA InsertStatementKept == ASSUME IInv, NEW c \in Clients, InsertStatement(c) PROVE Kept
<1>1. c \in Clients \cup Cursors /\ ~txn.failed
    BY DEF InsertStatement, DMLCheckL, ReadyL
<1> QED BY <1>1, ChangeRowKept DEF InsertStatement

\* An UPDATE or DELETE begins an update that lasts until it is closed.
LEMMA OpenStatementKept == ASSUME IInv, NEW c \in Clients, OpenStatement(c) PROVE Kept
<1>1. /\ Inv(txn, cur, inc, begun) /\ txn \in TxnType /\ cur \in CurType /\ inc \in IncType
      /\ Ledger(txn, cur, inc, begun) /\ Fit(txn) /\ Objects(txn, cur, inc)
    BY Unpacked
<1>2. /\ inc[c] = NoInc /\ MayExclude(txn, c) /\ txn.action <= EDbWriteLock
      /\ txn' = DMLBegin(txn, c) /\ cur' = cur /\ begun' = begun
      /\ inc' = [inc EXCEPT ![c] = Inc("dml")]
    BY DEF OpenStatement, DMLPrepareL
<1>3. /\ inc' \in IncType /\ inc[c].kind = "none" /\ inc'[c].kind = "dml"
      /\ \A e \in Clients : e # c => inc'[e] = inc[e]
    BY <1>1, <1>2 DEF IncType, Inc, NoInc
<1>4. Cardinality(Upd(cur)) + Cardinality(Dml(inc')) = txn.updaters + 1
    <2>1. inc[c].kind # "dml" /\ \A e \in Clients : e # c => inc'[e].kind = inc[e].kind
        BY <1>3
    <2>2. Cardinality(Dml(inc')) = Cardinality(Dml(inc)) + 1
        BY <1>1, <1>3, <2>1, DmlMore
    <2> QED BY <1>1, <2>2, UpdFacts DEF Ledger
<1>5. Working(cur, inc', begun, c) /\ \A e \in Clients :
          e # c /\ Working(cur, inc', begun, e) => Working(cur, inc, begun, e)
    BY <1>3 DEF Working
<1>6. \A e \in Clients : inc[e].kind \in {"none", "dml"} /\ inc'[e].kind \in {"none", "dml"}
    <2>1. txn.action \in {EDbReadLock, EDbWriteLock}
        BY <1>1, <1>2, Enumerations DEF Fit, TxnType
    <2>2. \A e \in Clients : inc[e].kind \in {"none", "dml"}
        BY <1>1, <2>1, Idle
    <2> QED BY <1>3, <2>2
<1>7. Connected(cur) /\ \A k \in Cursors : cur[k].reads = cur[k].reads
    BY <1>1 DEF Objects
<1>8. \A k \in Cursors : cur[k].mode = "update" /\ cur[k].dirty => cur[k].mode = "update" /\ cur[k].dirty
    OBVIOUS
<1>9. Inv(DMLBegin(txn, c), cur, inc', begun)
    BY <1>1, <1>2, <1>3, <1>4, <1>5, <1>6, <1>7, <1>8, UpdateBegins
<1>10. txn'.working = txn.working /\ txn'.stable = txn.stable /\ txn'.failed = txn.failed
    BY <1>1, <1>2, BeginFields
<1>11. Whole(txn, cur, inc) => Whole(txn', cur', inc')
    BY <1>2, <1>3, <1>6, <1>10 DEF Whole, Owned
<1> QED BY <1>2, <1>9, <1>10, <1>11, AloneTrivially DEF Kept

\* Whoever has a statement holds the only lock, and an update is going on.
LEMMA StatementFacts ==
    ASSUME IInv, NEW c \in Clients, inc[c].kind = "dml"
    PROVE  /\ txn.updaters \in Nat /\ txn.updaters # 0 /\ txn.action = EDbWriteLock
           /\ txn.lockState \in {EDbXReadLock, EDbWriteLock, EDbSchemaLock}
           /\ Len(txn.locks) = 1 /\ txn.locks[1].holder = c /\ Lockers(txn) = {c}
           /\ Exclude(txn, c) = txn.locks
           /\ \A e \in Clients : inc[e].kind \in {"none", "dml"}
<1>1. Inv(txn, cur, inc, begun) /\ txn \in TxnType /\ Fit(txn)
    BY Unpacked
<1>2. txn.updaters > 0 /\ txn.action = EDbWriteLock /\ txn.lockState # EDbReadLock
    BY <1>1, LastOne
<1>3. txn.updaters \in Nat
    BY <1>1, Idle
<1>4. txn.lockState \in {EDbXReadLock, EDbWriteLock, EDbSchemaLock} /\ Len(txn.locks) = 1
    BY <1>1, <1>2, Enumerations DEF Fit, TxnType
<1>5. Working(cur, inc, begun, c)
    BY DEF Working
<1>6. txn.locks[1].holder = c /\ Lockers(txn) = {c} /\ txn.locks # <<>>
    BY <1>1, <1>4, <1>5, Sole
<1>7. \A e \in Clients : inc[e].kind \in {"none", "dml"}
    BY <1>1, <1>2, Idle
<1>8. Exclude(txn, c) = txn.locks
    BY <1>6 DEF Exclude
<1> QED BY <1>2, <1>3, <1>4, <1>6, <1>7, <1>8

\* The update of one row, nested in the statement's own, has only touched the transaction.
LEMMA NestedRow ==
    ASSUME IInv, NEW c \in Clients, inc[c].kind = "dml"
    PROVE  LET v == LessUpdater(DMLTouch(DMLBegin(txn, c)))
           IN  /\ v \in TxnType /\ v.locks = txn.locks /\ v.updaters = txn.updaters
               /\ v.action = txn.action /\ v.maxLock = txn.maxLock /\ v.failed
               /\ v.working = txn.working /\ v.stable = txn.stable
               /\ v.lockState >= EDbWriteLock
               /\ \/ v.lockState = txn.lockState
                  \/ txn.action = EDbWriteLock /\ txn.lockState = EDbXReadLock
                     /\ v.lockState = EDbWriteLock
<1> DEFINE m == DMLBegin(txn, c)
           n == DMLTouch(m)
           v == LessUpdater(n)
<1>1. txn \in TxnType
    BY Unpacked
<1>2. /\ txn.updaters \in Nat /\ txn.updaters # 0 /\ txn.action = EDbWriteLock
      /\ txn.lockState \in {EDbXReadLock, EDbWriteLock, EDbSchemaLock}
      /\ Exclude(txn, c) = txn.locks
    BY StatementFacts
<1>3. /\ m \in TxnType
      /\ m.action = (IF txn.action = EDbReadLock THEN EDbWriteLock ELSE txn.action)
      /\ m.lockState = (IF txn.lockState = EDbReadLock THEN EDbXReadLock ELSE txn.lockState)
      /\ m.updaters = txn.updaters + 1 /\ m.locks = txn.locks /\ m.maxLock = txn.maxLock
      /\ m.working = txn.working /\ m.stable = txn.stable
    BY <1>1, <1>2, BeginFields
<1> HIDE DEF m
<1>4. /\ n \in TxnType
      /\ n.lockState = (IF m.lockState = EDbXReadLock THEN EDbWriteLock ELSE m.lockState)
      /\ n.failed /\ n.action = m.action /\ n.locks = m.locks /\ n.updaters = m.updaters
      /\ n.maxLock = m.maxLock /\ n.working = m.working /\ n.stable = m.stable
    BY <1>3, TouchFields
<1> HIDE DEF n
<1>5. /\ v \in TxnType /\ v.action = (IF n.updaters = 1 THEN EDbReadLock ELSE n.action)
      /\ v.updaters = n.updaters - 1 /\ v.lockState = n.lockState /\ v.failed = n.failed
      /\ v.locks = n.locks /\ v.maxLock = n.maxLock /\ v.working = n.working /\ v.stable = n.stable
    BY <1>4, LessFields
<1> HIDE DEF v
<1>6. v.updaters = txn.updaters /\ v.action = txn.action
    <2>1. n.updaters # 1 /\ n.updaters - 1 = txn.updaters
        <3>1. n.updaters = txn.updaters + 1
            BY <1>3, <1>4
        <3>2. \A x \in Nat : x # 0 => x + 1 # 1 /\ (x + 1) - 1 = x
            OBVIOUS
        <3>3. txn.updaters + 1 # 1 /\ (txn.updaters + 1) - 1 = txn.updaters
            BY <1>2, <3>2, Zenon
        <3> QED BY <3>1, <3>3, Zenon
    <2>2. n.action = txn.action
        BY <1>2, <1>3, <1>4, Enumerations
    <2> QED BY <1>5, <2>1, <2>2
<1>7. /\ v.lockState >= EDbWriteLock
      /\ \/ v.lockState = txn.lockState
         \/ txn.action = EDbWriteLock /\ txn.lockState = EDbXReadLock /\ v.lockState = EDbWriteLock
    BY <1>2, <1>3, <1>4, <1>5, Enumerations
<1> QED BY <1>3, <1>4, <1>5, <1>6, <1>7 DEF v, n, m

\* A step of c's statement that leaves the locks and the objects at work.
LEMMA StepKept ==
    ASSUME IInv, NEW c \in Clients, inc[c].kind = "dml", NEW v \in TxnType, txn' = v,
           v.locks = txn.locks, v.updaters = txn.updaters, v.action = txn.action,
           v.maxLock = txn.maxLock, v.stable = txn.stable, v.working.done <= MaxOps,
           \/ v.lockState = txn.lockState
           \/ txn.action = EDbWriteLock /\ txn.lockState = EDbXReadLock /\ v.lockState = EDbWriteLock,
           v.lockState >= EDbWriteLock \/ Touched(v.working) = Touched(txn.working),
           v.working.copied = txn.working.copied,
           \/ v.failed
           \/ v.failed = txn.failed /\ v.working.torn \subseteq txn.working.torn \cup {c}
           \/ (Careless = {} => ~txn.failed) /\ v.working.torn \subseteq txn.working.torn \cup {c},
           cur' = cur, begun' = begun, inc' \in IncType, \A e \in Clients : inc'[e].kind = inc[e].kind
    PROVE  Kept
<1>1. /\ Inv(txn, cur, inc, begun) /\ txn \in TxnType /\ cur \in CurType /\ inc \in IncType
      /\ Objects(txn, cur, inc) /\ Bounded(txn, inc) /\ Undoable(txn, cur)
    BY Unpacked
<1>2. /\ Lockers(txn) = {c} /\ \A e \in Clients : inc[e].kind \in {"none", "dml"}
      /\ txn.action = EDbWriteLock
    BY StatementFacts
<1>3. Undoable(v, cur)
    <2>1. Copying(v, cur)
        BY <1>1 DEF Undoable, Copying
    <2>2. CASE v.lockState >= EDbWriteLock
        BY <2>1, <2>2 DEF Undoable
    <2>3. CASE Touched(v.working) = Touched(txn.working)
        <3>1. txn.lockState >= EDbWriteLock => v.lockState >= EDbWriteLock
            BY Enumerations
        <3> QED BY <1>1, <2>1, <2>3, <3>1 DEF Undoable
    <2> QED BY <2>2, <2>3
<1>4. Bounded(v, inc') /\ Connected(cur)
    BY <1>1, <1>2 DEF Bounded, Objects
<1>5. /\ \A k \in Cursors : /\ cur[k].reads = cur[k].reads
                            /\ cur[k].mode = "update" <=> cur[k].mode = "update"
      /\ \A k \in Cursors : cur[k].connected => cur[k].connected
    OBVIOUS
<1>6. Inv(v, cur, inc', begun) /\ Lockers(v) = Lockers(txn)
    BY <1>1, <1>2, <1>3, <1>4, <1>5, Stays
<1>7. Careless = {} /\ Whole(txn, cur, inc) => Whole(v, cur, inc')
    BY <1>2 DEF Whole, Owned
<1>8. Alone(txn, v)
    BY <1>2, <1>6 DEF Alone
<1> QED BY <1>6, <1>7, <1>8 DEF Kept

\* NextL changes one row.
LEMMA NextRowKept == ASSUME IInv, NEW c \in Clients, NextRow(c) PROVE Kept
<1> DEFINE v == LessUpdater(DMLTouch(DMLBegin(txn, c)))
           w == OneRow(txn.working, c)
           u == [v EXCEPT !.failed = FALSE, !.working = w]
<1>1. txn \in TxnType /\ inc \in IncType /\ txn.working \in ContentType /\ Bounded(txn, inc)
    BY Unpacked
<1>2. inc[c].kind = "dml" /\ ("step" \notin Careless => ~txn.failed) /\ txn.working.done < MaxOps
    BY DEF NextRow, MayStep, Running, Inc, ReadyL
<1>3. /\ v \in TxnType /\ v.locks = txn.locks /\ v.updaters = txn.updaters
      /\ v.action = txn.action /\ v.maxLock = txn.maxLock
      /\ v.working = txn.working /\ v.stable = txn.stable /\ v.lockState >= EDbWriteLock
      /\ \/ v.lockState = txn.lockState
         \/ txn.action = EDbWriteLock /\ txn.lockState = EDbXReadLock /\ v.lockState = EDbWriteLock
    BY <1>2, NestedRow
<1>4. txn' = u /\ cur' = cur /\ inc' = inc /\ begun' = begun
    <2>1. /\ txn' = [v EXCEPT !.failed = FALSE, !.working = OneRow(@, c)]
          /\ cur' = cur /\ inc' = inc /\ begun' = begun
        BY DEF NextRow
    <2> HIDE DEF v
    <2> QED BY <1>3, <2>1
<1> HIDE DEF v
<1>5. /\ w \in ContentType /\ w.done = txn.working.done + 1 /\ w.torn = txn.working.torn \cup {c}
      /\ w.copied = txn.working.copied
    <2> DEFINE d == txn.working.done + 1
               s == txn.working.torn \cup {c}
    <2>1. d \in Nat /\ s \in SUBSET (Clients \cup Cursors)
        BY <1>1 DEF ContentType
    <2>2. w = [txn.working EXCEPT !.done = d, !.torn = s]
        BY DEF OneRow
    <2> HIDE DEF d, s, w
    <2>3. w \in ContentType /\ w.done = d /\ w.torn = s /\ w.copied = txn.working.copied
        BY <1>1, <2>1, <2>2 DEF ContentType
    <2> QED BY <2>3 DEF d, s
<1>6. w.done <= MaxOps
    <2>1. txn.working.done \in Nat /\ MaxOps \in Nat
        BY <1>1, DbAssumption DEF ContentType
    <2> QED BY <1>2, <1>5, <2>1
<1> HIDE DEF w
<1>7. /\ u \in TxnType /\ u.locks = v.locks /\ u.updaters = v.updaters /\ u.action = v.action
      /\ u.maxLock = v.maxLock /\ u.stable = v.stable /\ u.working = w /\ u.lockState = v.lockState
    BY <1>3, <1>5 DEF TxnType
<1> HIDE DEF u
<1>8. /\ (Careless = {} => ~txn.failed) /\ u.working.torn \subseteq txn.working.torn \cup {c}
      /\ inc' \in IncType /\ \A e \in Clients : inc'[e].kind = inc[e].kind
    BY <1>1, <1>2, <1>4, <1>5, <1>7
<1>9. /\ u.locks = txn.locks /\ u.updaters = txn.updaters /\ u.action = txn.action
      /\ u.maxLock = txn.maxLock /\ u.stable = txn.stable /\ u.working.done <= MaxOps
      /\ u.lockState >= EDbWriteLock /\ u.working.copied = txn.working.copied
      /\ \/ u.lockState = txn.lockState
         \/ txn.action = EDbWriteLock /\ txn.lockState = EDbXReadLock /\ u.lockState = EDbWriteLock
    BY <1>3, <1>5, <1>6, <1>7
<1> QED BY <1>2, <1>4, <1>7, <1>8, <1>9, StepKept

\* A failed row leaves the transaction failed; a row that is not found leaves it alone.
LEMMA NextFailsKept == ASSUME IInv, NEW c \in Clients, NextFails(c) PROVE Kept
<1> DEFINE v == LessUpdater(DMLTouch(DMLBegin(txn, c)))
           w == Torn(txn.working, c)
           u == [v EXCEPT !.working = w]
<1>1. txn \in TxnType /\ inc \in IncType /\ txn.working \in ContentType /\ Bounded(txn, inc)
    BY Unpacked
<1>2. /\ inc[c].kind = "dml" /\ inc' = [inc EXCEPT ![c].failed = TRUE] /\ cur' = cur /\ begun' = begun
    BY DEF NextFails, MayStep, Running, Inc
<1>3. inc' \in IncType /\ \A e \in Clients : inc'[e].kind = inc[e].kind
    BY <1>1, <1>2 DEF IncType
<1>4. /\ v \in TxnType /\ v.locks = txn.locks /\ v.updaters = txn.updaters
      /\ v.action = txn.action /\ v.maxLock = txn.maxLock /\ v.failed
      /\ v.working = txn.working /\ v.stable = txn.stable /\ v.lockState >= EDbWriteLock
      /\ \/ v.lockState = txn.lockState
         \/ txn.action = EDbWriteLock /\ txn.lockState = EDbXReadLock /\ v.lockState = EDbWriteLock
    BY <1>2, NestedRow
<1>5. txn' = u \/ txn' = txn \/ txn' = [txn EXCEPT !.working = Strayed(txn.working)]
    BY <1>4 DEF NextFails
<1> HIDE DEF v
<1>6. CASE txn' = u
    <2>1. w \in ContentType /\ w.done = txn.working.done /\ w.copied = txn.working.copied
        BY <1>1, ContentFields
    <2> HIDE DEF w
    <2>2. /\ u \in TxnType /\ u.locks = v.locks /\ u.updaters = v.updaters /\ u.action = v.action
          /\ u.maxLock = v.maxLock /\ u.stable = v.stable /\ u.working = w
          /\ u.lockState = v.lockState /\ u.failed = v.failed
        BY <1>4, <2>1, WorkingFields
    <2> HIDE DEF u
    <2>3. /\ u.locks = txn.locks /\ u.updaters = txn.updaters /\ u.action = txn.action
          /\ u.maxLock = txn.maxLock /\ u.stable = txn.stable /\ u.working.done <= MaxOps
          /\ u.lockState >= EDbWriteLock /\ u.failed /\ u.working.copied = txn.working.copied
          /\ \/ u.lockState = txn.lockState
             \/ txn.action = EDbWriteLock /\ txn.lockState = EDbXReadLock /\ u.lockState = EDbWriteLock
        BY <1>1, <1>4, <2>1, <2>2 DEF Bounded
    <2> QED BY <1>2, <1>3, <1>6, <2>2, <2>3, StepKept
<1>7. CASE txn' = txn
    <2>1. txn.working.done <= MaxOps
        BY <1>1 DEF Bounded
    <2> QED BY <1>1, <1>2, <1>3, <1>7, <2>1, StepKept
<1>8. CASE txn' = [txn EXCEPT !.working = Strayed(txn.working)]
    <2> DEFINE s == Strayed(txn.working)
    <2>1. /\ s \in ContentType /\ s.done = txn.working.done /\ s.torn = txn.working.torn
          /\ s.copied = txn.working.copied
        BY <1>1, StrayFields
    <2> HIDE DEF s
    <2>2. /\ txn' \in TxnType /\ txn'.locks = txn.locks /\ txn'.updaters = txn.updaters
          /\ txn'.action = txn.action /\ txn'.maxLock = txn.maxLock /\ txn'.stable = txn.stable
          /\ txn'.working = s /\ txn'.lockState = txn.lockState /\ txn'.failed = txn.failed
        BY <1>1, <1>8, <2>1, WorkingFields DEF s
    <2>3. /\ Touched(s) = Touched(txn.working) /\ s.done <= MaxOps
          /\ s.torn \subseteq txn.working.torn \cup {c}
        BY <1>1, <2>1, TouchedSame DEF Bounded
    <2> QED BY <1>2, <1>3, <2>1, <2>2, <2>3, StepKept
<1> QED BY <1>5, <1>6, <1>7, <1>8

\* The commit of a statement of its own fails.
LEMMA LastFailsKept == ASSUME IInv, NEW c \in Clients, LastFails(c) PROVE Kept
<1> DEFINE u == DMLTouch(txn)
<1>1. txn \in TxnType /\ inc \in IncType /\ Bounded(txn, inc)
    BY Unpacked
<1>2. /\ inc[c].kind = "dml" /\ inc' = [inc EXCEPT ![c].failed = TRUE] /\ cur' = cur /\ begun' = begun
      /\ txn' = u
    BY DEF LastFails, MayStep, Running, Inc
<1>3. inc' \in IncType /\ \A e \in Clients : inc'[e].kind = inc[e].kind
    BY <1>1, <1>2 DEF IncType
<1>4. /\ u \in TxnType /\ u.failed /\ u.action = txn.action /\ u.locks = txn.locks
      /\ u.lockState = (IF txn.lockState = EDbXReadLock THEN EDbWriteLock ELSE txn.lockState)
      /\ u.updaters = txn.updaters /\ u.maxLock = txn.maxLock
      /\ u.working = txn.working /\ u.stable = txn.stable
    BY <1>1, TouchFields
<1> HIDE DEF u
<1>5. /\ u.working.done <= MaxOps
      /\ \/ u.lockState = txn.lockState
         \/ txn.action = EDbWriteLock /\ txn.lockState = EDbXReadLock /\ u.lockState = EDbWriteLock
    <2>1. txn.action = EDbWriteLock
        BY <1>2, StatementFacts
    <2> QED BY <1>1, <1>4, <2>1 DEF Bounded
<1> QED BY <1>2, <1>3, <1>4, <1>5, StepKept

\* The statement goes from the operations of its client.
LEMMA StatementGone ==
    ASSUME inc \in IncType, NEW c \in Clients, inc' = [inc EXCEPT ![c] = NoInc]
    PROVE  /\ inc' \in IncType /\ inc'[c].kind = "none"
           /\ \A e \in Clients : e # c => inc'[e] = inc[e]
BY DEF IncType, NoInc

\* The last row: the statement is complete, and with it the update.
LEMMA NextLastKept == ASSUME IInv, NEW c \in Clients, NextLast(c) PROVE Kept
<1> DEFINE w == [txn.working EXCEPT !.torn = txn.working.torn \ {c}]
           m == DMLTouch(txn)
           v == [m EXCEPT !.working = w]
<1>1. /\ Inv(txn, cur, inc, begun) /\ txn \in TxnType /\ cur \in CurType /\ inc \in IncType
      /\ Bounded(txn, inc) /\ txn.working \in ContentType
    BY Unpacked
<1>2. /\ inc[c].kind = "dml" /\ ("step" \notin Careless => ~txn.failed)
      /\ inc' = [inc EXCEPT ![c] = NoInc] /\ begun' = begun
    BY DEF NextLast, MayStep, Running, Inc, ReadyL
<1>3. /\ m \in TxnType /\ m.action = txn.action /\ m.locks = txn.locks
      /\ m.lockState = (IF txn.lockState = EDbXReadLock THEN EDbWriteLock ELSE txn.lockState)
      /\ m.updaters = txn.updaters /\ m.working = txn.working /\ m.stable = txn.stable
    BY <1>1, TouchFields
<1>4. DMLCommitL(v, cur)
    <2>1. [DMLTouch(txn) EXCEPT !.working.torn = @ \ {c}] = v
        BY <1>3
    <2> QED BY <2>1 DEF NextLast
<1>5. /\ w \in ContentType /\ w.done = txn.working.done /\ w.torn = txn.working.torn \ {c}
      /\ w.copied = txn.working.copied
    BY <1>1 DEF ContentType
<1> HIDE DEF w, m
<1>6. /\ v \in TxnType /\ v.working = w /\ v.stable = m.stable /\ v.action = m.action
      /\ v.lockState = m.lockState /\ v.locks = m.locks /\ v.updaters = m.updaters
    BY <1>3, <1>5, WorkingFields
<1> HIDE DEF v
<1>7. /\ inc' \in IncType /\ inc'[c].kind = "none" /\ \A e \in Clients : e # c => inc'[e] = inc[e]
    BY <1>1, <1>2, StatementGone
<1>8. txn.lockState \in {EDbXReadLock, EDbWriteLock, EDbSchemaLock}
    BY <1>2, StatementFacts
<1>9. /\ v.locks = txn.locks /\ v.updaters = txn.updaters /\ v.action = txn.action
      /\ v.lockState = txn.lockState \/ (txn.lockState = EDbXReadLock /\ v.lockState = EDbWriteLock)
      /\ v.working.done <= MaxOps /\ v.stable = txn.stable
      /\ v.working.copied = txn.working.copied /\ v.lockState >= EDbWriteLock
    <2>1. v.working.done <= MaxOps
        BY <1>1, <1>5, <1>6 DEF Bounded
    <2>2. /\ v.locks = txn.locks /\ v.updaters = txn.updaters /\ v.action = txn.action
          /\ v.stable = txn.stable /\ v.working.copied = txn.working.copied
        BY <1>3, <1>5, <1>6, Zenon
    <2>3. v.lockState = (IF txn.lockState = EDbXReadLock THEN EDbWriteLock ELSE txn.lockState)
        BY <1>3, <1>6, Zenon
    <2>4. /\ v.lockState = txn.lockState \/ (txn.lockState = EDbXReadLock /\ v.lockState = EDbWriteLock)
          /\ v.lockState >= EDbWriteLock
        BY <1>8, <2>3, Enumerations
    <2> QED BY <2>1, <2>2, <2>4
<1>10. InUpdate(v, c, cur, inc', begun) /\ Lockers(txn) = {c}
    <2>1. inc[c].kind = "dml"
        BY <1>2
    <2> QED BY <1>1, <1>6, <1>7, <1>9, <2>1, StatementUpdate
<1>11. cur' = cur /\ (IF LastUpdate(v) THEN Primary(v).reads = 0 /\ txn' = Unlocked(Saved(v))
                      ELSE txn' = [LessUpdater(v) EXCEPT !.failed = FALSE])
    BY <1>4 DEF DMLCommitL, DoCommitL
<1>12. /\ Inv(txn', cur, inc', begun) /\ Lockers(txn') \subseteq {c}
       /\ v.stable.torn = {} /\ Attended(v.working, cur, inc') => Whole(txn', cur, inc')
    BY <1>9, <1>10, <1>11, CommitEnds
<1>13. Careless = {} /\ Whole(txn, cur, inc) => v.stable.torn = {} /\ Attended(v.working, cur, inc')
    BY <1>2, <1>3, <1>5, <1>6, <1>7 DEF Whole, Owned, Attended
<1>14. Alone(txn, txn')
    BY <1>10, <1>12 DEF Alone
<1> QED BY <1>2, <1>11, <1>12, <1>13, <1>14 DEF Kept

(***************************************************************************)
(* Closing a statement that is not complete undoes it with the last        *)
(* update.  Where it is not the last, careful clients close it only if it  *)
(* has changed nothing or the transaction has failed.                      *)
(***************************************************************************)
LEMMA CloseStatementKept == ASSUME IInv, NEW c \in Clients, CloseStatement(c) PROVE Kept
<1>1. /\ Inv(txn, cur, inc, begun) /\ txn \in TxnType /\ cur \in CurType /\ inc \in IncType
      /\ Bounded(txn, inc) /\ Undoable(txn, cur)
    BY Unpacked
<1>2. /\ inc[c].kind = "dml" /\ inc' = [inc EXCEPT ![c] = NoInc] /\ begun' = begun
      /\ DMLRollback(txn, cur)
      /\ "abandon" \notin Careless /\ c \in txn.working.torn => txn.failed \/ LastUpdate(txn)
    BY DEF CloseStatement, ReadyL
<1>3. /\ inc' \in IncType /\ inc'[c].kind = "none" /\ \A e \in Clients : e # c => inc'[e] = inc[e]
    BY <1>1, <1>2, StatementGone
<1>4. txn.working.done <= MaxOps /\ txn.stable.done <= MaxOps
    BY <1>1 DEF Bounded
<1>5. InUpdate(txn, c, cur, inc', begun) /\ Lockers(txn) = {c}
    <2>1. inc[c].kind = "dml"
        BY <1>2
    <2> QED BY <1>1, <1>3, <1>4, <2>1, StatementUpdate
<1>6. IF LastUpdate(txn)
      THEN /\ Primary(txn).reads = 0 /\ (\E r \in Revert(txn) : txn' = Unlocked(r))
           /\ cur' = Disconnected(Abandoned(txn, cur), txn.lockState = EDbSchemaLock)
      ELSE txn' = LessUpdater(txn) /\ cur' = cur
    BY <1>2 DEF DMLRollback, DoRollback
<1>7. /\ Inv(txn', cur', inc', begun) /\ Lockers(txn') \subseteq {c}
      /\ txn.stable.torn = {} /\ (LastUpdate(txn) \/ \A x \in txn.working.torn : Owned(txn, cur, inc', x))
            => Whole(txn', cur', inc')
    BY <1>1, <1>5, <1>6, RollbackEnds
<1>8. Careless = {} /\ Whole(txn, cur, inc) =>
         /\ txn.stable.torn = {}
         /\ LastUpdate(txn) \/ \A x \in txn.working.torn : Owned(txn, cur, inc', x)
    BY <1>2, <1>3 DEF Whole, Owned
<1>9. Alone(txn, txn')
    BY <1>5, <1>7 DEF Alone
<1> QED BY <1>2, <1>7, <1>8, <1>9 DEF Kept

-----------------------------------------------------------------------------
(* The steps of the changes of the schema *)

(***************************************************************************)
(* A change of the schema by client h under way in t, with the objects     *)
(* there will be once it has ended: h holds the only lock, and nobody      *)
(* reads or updates.                                                       *)
(***************************************************************************)
InSchema(t, h, cu, ic, b) ==
    /\ Types(t, cu, ic, b) /\ h \in Clients
    /\ Len(t.locks) = 1 /\ t.locks[1].holder = h /\ (t.locks[1].isTxn <=> h \in b)
    /\ t.locks[1].reads = 0 /\ t.updaters = 0
    /\ t.action = EDbSchemaLock /\ t.lockState = EDbSchemaLock
    /\ \A k \in Cursors : cu[k].reads = 0 /\ cu[k].mode # "update"
    /\ Connected(cu)
    /\ \A c \in Clients : ic[c].kind = "none"
    /\ b \subseteq {h}
    /\ t.working.done <= MaxOps /\ t.stable.done <= MaxOps
    /\ t.working.copied = {} /\ t.stable.copied = {}

\* The user's transaction keeps the schema lock once the change has ended.
LEMMA SchemaLeft ==
    ASSUME NEW t, NEW h, NEW cu, NEW ic, NEW b, InSchema(t, h, cu, ic, b), t.locks[1].isTxn,
           NEW u \in TxnType, u.locks = t.locks, u.updaters = t.updaters, u.lockState = t.lockState,
           u.action = EDbReadLock, u.working = t.working, u.stable = t.stable
    PROVE  Inv(u, cu, ic, b) /\ Lockers(u) = {h}
<1>1. t \in TxnType /\ cu \in CurType /\ ic \in IncType /\ b \subseteq Clients /\ h \in Clients
    BY DEF InSchema, Types
<1>2. /\ Len(u.locks) = 1 /\ u.locks[1].holder = h /\ (u.locks[1].isTxn <=> h \in b)
      /\ u.locks[1].reads = 0 /\ u.updaters = 0 /\ u.lockState = EDbSchemaLock /\ u.locks[1].isTxn
      /\ \A k \in Cursors : cu[k].reads = 0 /\ cu[k].mode # "update"
      /\ \A c \in Clients : ic[c].kind = "none"
      /\ Connected(cu) /\ h \in b /\ b \subseteq {h}
    BY DEF InSchema
<1>3. Cardinality(StreamsOf(cu, h)) = 0 /\ Cardinality(Upd(cu)) = 0 /\ Cardinality(Dml(ic)) = 0
    BY <1>1, <1>2, StreamsFacts, UpdFacts
<1>4. \A c \in Clients : Working(cu, ic, b, c) <=> c = h
    BY <1>1, <1>2, ObjectTypes DEF Working
<1>5. Ledger(u, cu, ic, b) /\ Lockers(u) = {h}
    BY <1>1, <1>2, <1>3, <1>4, OneHolder
<1>6. Fit(u)
    BY <1>2, Enumerations DEF Fit
<1>7. Objects(u, cu, ic) /\ Bounded(u, ic) /\ Undoable(u, cu)
    <2>1. Objects(u, cu, ic) /\ Bounded(u, ic)
        BY <1>2, Enumerations DEF Objects, Bounded, InSchema
    <2>2. u.working.copied = {} /\ u.stable.copied = {} /\ u.lockState >= EDbWriteLock
        BY <1>2, Enumerations DEF InSchema
    <2> QED BY <2>1, <2>2 DEF Undoable, Copying
<1> QED BY <1>1, <1>5, <1>6, <1>7 DEF Inv, Types

\* Outside a user's transaction nobody is left at work once the change has ended.
LEMMA SchemaAtRest ==
    ASSUME NEW t, NEW h, NEW cu, NEW ic, NEW b, InSchema(t, h, cu, ic, b), ~t.locks[1].isTxn
    PROVE  AtRest(cu, ic, b)
BY DEF InSchema, AtRest, Types

\* DDLCommitL ends a change of the schema.
LEMMA SchemaCommits ==
    ASSUME NEW t, NEW h, NEW cu, NEW ic, NEW b, InSchema(t, h, cu, ic, b), NEW u,
           t.locks[1].isTxn => u = [t EXCEPT !.action = EDbReadLock],
           ~t.locks[1].isTxn => u = Unlocked(Saved(t))
    PROVE  /\ Inv(u, cu, ic, b) /\ Lockers(u) \subseteq {h}
           /\ t.stable.torn = {} /\ t.working.torn = {} => Whole(u, cu, ic)
<1>1. t \in TxnType /\ \A c \in Clients : ic[c].kind = "none"
    BY DEF InSchema, Types
<1>2. CASE t.locks[1].isTxn
    <2>1. u = [t EXCEPT !.action = EDbReadLock] /\ EDbReadLock \in LockTypes
        BY <1>2, Enumerations
    <2>2. /\ u \in TxnType /\ u.action = EDbReadLock /\ u.lockState = t.lockState /\ u.locks = t.locks
          /\ u.updaters = t.updaters /\ u.working = t.working /\ u.stable = t.stable
        BY <1>1, <2>1 DEF TxnType
    <2>3. Inv(u, cu, ic, b) /\ Lockers(u) = {h}
        BY <1>2, <2>2, SchemaLeft
    <2>4. t.stable.torn = {} /\ t.working.torn = {} => Whole(u, cu, ic)
        BY <1>1, <2>2 DEF Whole
    <2> QED BY <2>3, <2>4
<1>3. CASE ~t.locks[1].isTxn
    <2>1. t.lockState >= EDbWriteLock
        BY Enumerations DEF InSchema
    <2>2. Saved(t) \in TxnType /\ Saved(t).stable = t.working /\ Saved(t).working = t.working
        BY <1>1, <2>1, SavedFields
    <2>3. u = Unlocked(Saved(t))
        BY <1>3
    <2>4. /\ u \in TxnType /\ u.locks = <<>> /\ u.updaters = 0 /\ u.action = EDbReadLock
          /\ u.lockState = EDbReadLock /\ u.working = t.working /\ u.stable = t.working
        BY <2>2, <2>3, UnlockedFields
    <2>5. /\ cu \in CurType /\ ic \in IncType /\ b = {} /\ Connected(cu)
          /\ \A k \in Cursors : cu[k].reads = 0 /\ cu[k].mode # "update"
        BY <1>3, SchemaAtRest DEF AtRest
    <2>6. /\ u.stable.done <= MaxOps /\ Touched(u.working) = Touched(u.stable)
          /\ u.working.copied = {} /\ u.stable.copied = {}
        BY <2>4 DEF InSchema
    <2>7. Inv(u, cu, ic, b) /\ Lockers(u) = {}
        BY <1>1, <2>4, <2>5, <2>6, Released
    <2>8. t.stable.torn = {} /\ t.working.torn = {} => Whole(u, cu, ic)
        BY <1>1, <2>4 DEF Whole
    <2> QED BY <2>7, <2>8
<1> QED BY <1>2, <1>3

\* f is t, but has failed.
Failing(t, f) ==
    /\ f \in TxnType /\ f.action = t.action /\ f.lockState = t.lockState /\ f.locks = t.locks
    /\ f.updaters = t.updaters /\ f.working = t.working /\ f.stable = t.stable /\ f.failed

\* DDLRollback ends a change of the schema: a user's transaction has failed with it.
LEMMA SchemaRollsBack ==
    ASSUME NEW t, NEW h, NEW cu, NEW ic, NEW b, InSchema(t, h, cu, ic, b), NEW u, NEW dw,
           NEW f, Failing(t, f),
           t.locks[1].isTxn => u = [f EXCEPT !.action = EDbReadLock] /\ dw = cu,
           ~t.locks[1].isTxn => /\ \E r \in Revert(f) : u = Unlocked(r)
                                /\ dw = Disconnected(Abandoned(f, cu), f.lockState = EDbSchemaLock)
    PROVE  /\ Inv(u, dw, ic, b) /\ Lockers(u) \subseteq {h}
           /\ t.stable.torn = {} => Whole(u, dw, ic)
<1>1. t \in TxnType /\ \A c \in Clients : ic[c].kind = "none"
    BY DEF InSchema, Types
<1>2. /\ f \in TxnType /\ f.action = t.action /\ f.lockState = t.lockState /\ f.locks = t.locks
      /\ f.updaters = t.updaters /\ f.working = t.working /\ f.stable = t.stable /\ f.failed
    BY DEF Failing
<1>3. CASE t.locks[1].isTxn
    <2>1. u = [f EXCEPT !.action = EDbReadLock] /\ EDbReadLock \in LockTypes /\ dw = cu
        BY <1>3, Enumerations
    <2>2. /\ u \in TxnType /\ u.action = EDbReadLock /\ u.lockState = f.lockState /\ u.locks = f.locks
          /\ u.updaters = f.updaters /\ u.working = f.working /\ u.stable = f.stable
          /\ u.failed = f.failed
        BY <1>2, <2>1 DEF TxnType
    <2>3. Inv(u, cu, ic, b) /\ Lockers(u) = {h}
        BY <1>2, <1>3, <2>2, SchemaLeft
    <2>4. t.stable.torn = {} => Whole(u, cu, ic)
        BY <1>1, <1>2, <2>2 DEF Whole, Owned
    <2> QED BY <2>1, <2>3, <2>4
<1>4. CASE ~t.locks[1].isTxn
    <2>1. PICK r \in Revert(f) : u = Unlocked(r)
        BY <1>4
    <2>2. dw = Disconnected(Abandoned(f, cu), f.lockState = EDbSchemaLock)
        BY <1>4
    <2>3. /\ cu \in CurType /\ ic \in IncType /\ b = {} /\ Connected(cu)
          /\ \A k \in Cursors : cu[k].reads = 0 /\ cu[k].mode # "update"
        BY <1>4, SchemaAtRest DEF AtRest
    <2>4. /\ dw \in CurType
          /\ \A k \in Cursors : /\ dw[k].mode = cu[k].mode /\ dw[k].reads = cu[k].reads
                                /\ dw[k].connected => cu[k].connected
        <3>1. cu \in CurType
            BY <2>3
        <3> QED BY <2>2, <3>1, CursorsAfter
    <2>5. Connected(dw)
        BY <2>3, <2>4, StillConnected
    <2>6. AtRest(dw, ic, b)
        BY <1>1, <2>3, <2>4, <2>5 DEF AtRest
    <2>7. /\ Touched(f.working) # Touched(f.stable) => f.lockState >= EDbWriteLock
          /\ f.stable.done <= MaxOps /\ f.working.copied = {} /\ f.stable.copied = {}
        BY <1>2, Enumerations DEF InSchema
    <2>8. Inv(u, dw, ic, b) /\ Lockers(u) = {} /\ u.stable = f.stable /\ u.working.torn = f.stable.torn
        <3>1. f \in TxnType /\ r \in Revert(f) /\ u = Unlocked(r)
            BY <1>2, <2>1
        <3>2. /\ f.stable.done <= MaxOps /\ f.working.copied = {} /\ f.stable.copied = {}
            BY <2>7
        <3>3. Touched(f.working) # Touched(f.stable) => f.lockState >= EDbWriteLock
            BY <2>7
        <3> QED BY <2>6, <3>1, <3>2, <3>3, Reverted
    <2>9. t.stable.torn = {} => Whole(u, dw, ic)
        BY <1>1, <1>2, <2>8 DEF Whole
    <2> QED BY <2>8, <2>9
<1> QED BY <1>3, <1>4

\* What DDLPrepareL lets through: nobody else has a lock, and nobody reads or updates.
LEMMA MayChangeSchemaFacts ==
    ASSUME IInv, NEW c \in Clients, MayChangeSchema(c)
    PROVE  /\ ~txn.failed /\ MayExclude(txn, c) /\ txn.action = EDbReadLock /\ txn.updaters = 0
           /\ Lockers(txn) \subseteq {c} /\ begun \subseteq {c}
           /\ \A k \in Cursors : cur[k].reads = 0 /\ cur[k].mode # "update"
           /\ \A e \in Clients : inc[e].kind = "none"
           /\ Whole(txn, cur, inc) => txn.working.torn = {}
           /\ txn.working.copied = {} /\ txn.stable.copied = {}
<1>1. /\ Inv(txn, cur, inc, begun) /\ txn \in TxnType /\ cur \in CurType /\ begun \subseteq Clients
      /\ Undoable(txn, cur)
    BY Unpacked
<1>2. /\ ~txn.failed /\ MayExclude(txn, c) /\ txn.action = EDbReadLock
      /\ Len(txn.locks) > 0 => txn.locks[1].reads = 0
    BY DEF MayChangeSchema, ReadyL, Primary
<1>3. /\ Lockers(txn) \subseteq {c} /\ \A e \in Clients : Working(cur, inc, begun, e) => e = c
      /\ Len(txn.locks) = 0 \/ (Len(txn.locks) = 1 /\ txn.locks[1].holder = c)
    BY <1>1, <1>2, MayExcludeFacts
<1>4. txn.updaters = 0 /\ \A e \in Clients : inc[e].kind \in {"none", "dml"}
    <2>1. txn.action # EDbWriteLock /\ txn.action \in {EDbReadLock, EDbWriteLock}
        BY <1>2, Enumerations
    <2> QED BY <1>1, <2>1, Idle
<1>5. (\A k \in Cursors : cur[k].mode # "update") /\ \A e \in Clients : inc[e].kind = "none"
    BY <1>1, <1>4, Idle
<1>6. \A k \in Cursors : cur[k].reads = 0
    <2>1. CASE Len(txn.locks) = 0
        BY <1>1, <2>1, Nobody
    <2>2. CASE Len(txn.locks) = 1
        BY <1>1, <1>2, <2>2, Sole
    <2> QED BY <1>3, <2>1, <2>2
<1>7. begun \subseteq {c}
    BY <1>1, <1>3 DEF Working
<1>8. Whole(txn, cur, inc) => txn.working.torn = {}
    BY <1>2, <1>5 DEF Whole, Owned
<1>9. txn.working.copied = {} /\ txn.stable.copied = {}
    BY <1>1, <1>5, NoCopies
<1> QED BY <1>2, <1>3, <1>4, <1>5, <1>6, <1>7, <1>8, <1>9

\* DDLBegin: the change of the schema is under way.
LEMMA SchemaBegins ==
    ASSUME IInv, NEW c \in Clients, MayChangeSchema(c), NEW w \in ContentType, w.done <= MaxOps,
           w.copied \subseteq txn.working.copied, NEW v, v = [DDLBegin(txn, c) EXCEPT !.working = w]
    PROVE  /\ InSchema(v, c, cur, inc, begun) /\ v.working = w /\ v.stable = txn.stable
           /\ v.failed = txn.failed
<1> DEFINE m == DDLBegin(txn, c)
           s == Exclude(txn, c)
<1>1. /\ Inv(txn, cur, inc, begun) /\ txn \in TxnType /\ cur \in CurType /\ inc \in IncType
      /\ begun \subseteq Clients /\ Connected(cur) /\ txn.stable.done <= MaxOps
    BY Unpacked DEF Objects, Bounded
<1>2. /\ MayExclude(txn, c) /\ txn.updaters = 0 /\ begun \subseteq {c}
      /\ \A k \in Cursors : cur[k].reads = 0 /\ cur[k].mode # "update"
      /\ \A e \in Clients : inc[e].kind = "none"
      /\ w.copied = {} /\ txn.stable.copied = {}
    BY MayChangeSchemaFacts
<1>3. /\ Len(s) = 1 /\ s[1].holder = c /\ (s[1].isTxn <=> c \in begun)
      /\ s[1].reads = Cardinality(StreamsOf(cur, c))
    BY <1>1, <1>2, Excluded
<1>4. s[1].reads = 0
    BY <1>1, <1>2, <1>3, StreamsFacts
<1>5. /\ m \in TxnType /\ m.action = EDbSchemaLock /\ m.lockState = EDbSchemaLock /\ m.locks = s
      /\ m.updaters = txn.updaters /\ m.stable = txn.stable /\ m.failed = txn.failed
    BY <1>1, DDLBeginFields
<1> HIDE DEF m, s
<1>6. /\ v \in TxnType /\ v.working = w /\ v.stable = m.stable /\ v.action = m.action
      /\ v.lockState = m.lockState /\ v.locks = m.locks /\ v.updaters = m.updaters
      /\ v.failed = m.failed
    BY <1>5, WorkingFields DEF m
<1>7. InSchema(v, c, cur, inc, begun)
    BY <1>1, <1>2, <1>3, <1>4, <1>5, <1>6 DEF InSchema, Types
<1> QED BY <1>5, <1>6, <1>7

\* DDLRollback, taken apart.
LEMMA DDLRollbackFacts ==
    ASSUME NEW t \in TxnType, NEW k, DDLRollback(t, k)
    PROVE  \E f : /\ Failing(t, f)
                  /\ t.locks[1].isTxn => txn' = [f EXCEPT !.action = EDbReadLock] /\ cur' = k
                  /\ ~t.locks[1].isTxn =>
                        /\ \E r \in Revert(f) : txn' = Unlocked(r)
                        /\ cur' = Disconnected(Abandoned(f, k), f.lockState = EDbSchemaLock)
<1> DEFINE f == [t EXCEPT !.failed = TRUE]
<1>1. Failing(t, f) /\ f.locks = t.locks
    BY DEF TxnType, Failing
<1>2. t.locks[1].isTxn => txn' = [f EXCEPT !.action = EDbReadLock] /\ cur' = k
    BY DEF DDLRollback, Primary
<1>3. ~t.locks[1].isTxn => /\ \E r \in Revert(f) : txn' = Unlocked(r)
                           /\ cur' = Disconnected(Abandoned(f, k), f.lockState = EDbSchemaLock)
    BY DEF DDLRollback, DoRollback, Primary
<1> HIDE DEF f
<1> QED BY <1>1, <1>2, <1>3

\* DDLCommitL, taken apart.
LEMMA DDLCommitFacts ==
    ASSUME NEW t, NEW k, DDLCommitL(t, k)
    PROVE  /\ cur' = k /\ (t.locks[1].isTxn => txn' = [t EXCEPT !.action = EDbReadLock])
           /\ ~t.locks[1].isTxn => txn' = Unlocked(Saved(t))
BY DEF DDLCommitL, DoCommitL, Primary

\* FlushFails: the transaction has to be rolled back.
LEMMA FlushFailsKept == ASSUME IInv, NEW c \in Clients, FlushFails(c) PROVE Kept
<1>1. /\ MayChangeSchema(c) /\ txn' = [txn EXCEPT !.failed = TRUE]
      /\ cur' = cur /\ inc' = inc /\ begun' = begun
    BY DEF FlushFails
<1>2. \A e \in Clients : inc[e].kind # "ddl"
    BY <1>1, MayChangeSchemaFacts
<1> QED BY <1>1, <1>2, FailedKept

\* A change of the schema that client c completes in t.
LEMMA SchemaDone ==
    ASSUME NEW c \in Clients, NEW t, InSchema(t, c, cur, inc', begun), DDLCommitL(t, cur),
           begun' = begun, Lockers(txn) \subseteq {c},
           Whole(txn, cur, inc) => t.stable.torn = {} /\ t.working.torn = {}
    PROVE  Kept
<1>1. /\ cur' = cur /\ (t.locks[1].isTxn => txn' = [t EXCEPT !.action = EDbReadLock])
      /\ ~t.locks[1].isTxn => txn' = Unlocked(Saved(t))
    BY DDLCommitFacts
<1>2. /\ Inv(txn', cur, inc', begun) /\ Lockers(txn') \subseteq {c}
      /\ t.stable.torn = {} /\ t.working.torn = {} => Whole(txn', cur, inc')
    BY <1>1, SchemaCommits
<1>3. Alone(txn, txn')
    BY <1>2 DEF Alone
<1> QED BY <1>1, <1>2, <1>3 DEF Kept

\* A change of the schema that client c gives up in t.
LEMMA SchemaGivenUp ==
    ASSUME NEW c \in Clients, NEW t, InSchema(t, c, cur, inc', begun), DDLRollback(t, cur),
           begun' = begun, Lockers(txn) \subseteq {c},
           Whole(txn, cur, inc) => t.stable.torn = {}
    PROVE  Kept
<1>1. t \in TxnType
    BY DEF InSchema, Types
<1>2. PICK f : /\ Failing(t, f)
               /\ t.locks[1].isTxn => txn' = [f EXCEPT !.action = EDbReadLock] /\ cur' = cur
               /\ ~t.locks[1].isTxn =>
                     /\ \E r \in Revert(f) : txn' = Unlocked(r)
                     /\ cur' = Disconnected(Abandoned(f, cur), f.lockState = EDbSchemaLock)
    BY <1>1, DDLRollbackFacts
<1>3. /\ Inv(txn', cur', inc', begun) /\ Lockers(txn') \subseteq {c}
      /\ t.stable.torn = {} => Whole(txn', cur', inc')
    BY <1>2, SchemaRollsBack
<1>4. Alone(txn, txn')
    BY <1>3 DEF Alone
<1> QED BY <1>3, <1>4 DEF Kept

\* CreateTable: complete, or undone with the transaction around it.
LEMMA CreateTableKept == ASSUME IInv, NEW c \in Clients, CreateTable(c) PROVE Kept
<1> DEFINE m == DDLBegin(txn, c)
           done == Finished(txn.working, c)
           torn == Torn(txn.working, c)
<1>1. txn \in TxnType /\ txn.working \in ContentType /\ MaxOps \in Nat
    BY Unpacked, DbAssumption
<1>2. m \in TxnType /\ m.working = txn.working
    BY <1>1, DDLBeginFields
<1>3. /\ MayChangeSchema(c) /\ txn.working.done < MaxOps /\ inc' = inc /\ begun' = begun
      /\ \/ DDLCommitL([m EXCEPT !.working = done], cur)
         \/ DDLRollback([m EXCEPT !.working = torn], cur)
    <2>1. /\ [m EXCEPT !.working = Finished(@, c)] = [m EXCEPT !.working = done]
          /\ [m EXCEPT !.working = Torn(@, c)] = [m EXCEPT !.working = torn]
        BY <1>2
    <2> QED BY <2>1 DEF CreateTable
<1>4. /\ done \in ContentType /\ done.done <= MaxOps /\ done.torn = txn.working.torn \ {c}
      /\ torn \in ContentType /\ torn.done <= MaxOps
      /\ done.copied \subseteq txn.working.copied /\ torn.copied \subseteq txn.working.copied
    <2>1. txn.working.done \in Nat
        BY <1>1 DEF ContentType
    <2> QED BY <1>1, <1>3, <2>1, ContentFields
<1>5. Lockers(txn) \subseteq {c} /\ (Whole(txn, cur, inc) => txn.working.torn = {})
    BY <1>3, MayChangeSchemaFacts
<1> HIDE DEF m, done, torn
<1>6. CASE DDLCommitL([m EXCEPT !.working = done], cur)
    <2> DEFINE v == [m EXCEPT !.working = done]
    <2>2. DDLCommitL(v, cur) /\ v = [DDLBegin(txn, c) EXCEPT !.working = done]
        BY <1>6 DEF m
    <2> HIDE DEF v
    <2>1. InSchema(v, c, cur, inc, begun) /\ v.working = done /\ v.stable = txn.stable
        <3>1. /\ MayChangeSchema(c) /\ done \in ContentType /\ done.done <= MaxOps
              /\ done.copied \subseteq txn.working.copied
            BY <1>3, <1>4
        <3> QED BY <2>2, <3>1, SchemaBegins, ZenonT(60)
    <2>3. Whole(txn, cur, inc) => v.stable.torn = {} /\ v.working.torn = {}
        BY <1>4, <1>5, <2>1 DEF Whole
    <2> QED BY <1>3, <1>5, <2>1, <2>2, <2>3, SchemaDone
<1>7. CASE DDLRollback([m EXCEPT !.working = torn], cur)
    <2> DEFINE v == [m EXCEPT !.working = torn]
    <2>2. DDLRollback(v, cur) /\ v = [DDLBegin(txn, c) EXCEPT !.working = torn]
        BY <1>7 DEF m
    <2> HIDE DEF v
    <2>1. InSchema(v, c, cur, inc, begun) /\ v.stable = txn.stable
        <3>1. /\ MayChangeSchema(c) /\ torn \in ContentType /\ torn.done <= MaxOps
              /\ torn.copied \subseteq txn.working.copied
            BY <1>3, <1>4
        <3> QED BY <2>2, <3>1, SchemaBegins, Zenon
    <2>3. Whole(txn, cur, inc) => v.stable.torn = {}
        BY <2>1 DEF Whole
    <2> QED BY <1>3, <1>5, <2>1, <2>2, <2>3, SchemaGivenUp
<1> QED BY <1>3, <1>6, <1>7

\* OpenDDL: the tables are released, and the change goes on until it is closed.
LEMMA OpenDDLKept == ASSUME IInv, NEW c \in Clients, OpenDDL(c) PROVE Kept
<1> DEFINE m == DDLBegin(txn, c)
           w == Torn(txn.working, c)
           v == [m EXCEPT !.working = w]
<1>1. /\ txn \in TxnType /\ cur \in CurType /\ inc \in IncType /\ begun \subseteq Clients
      /\ txn.working \in ContentType /\ MaxOps \in Nat
    BY Unpacked, DbAssumption
<1>2. m \in TxnType /\ m.working = txn.working
    BY <1>1, DDLBeginFields
<1>3. /\ MayChangeSchema(c) /\ txn.working.done < MaxOps /\ txn' = v
      /\ cur' = Disconnected(cur, TRUE) /\ inc' = [inc EXCEPT ![c] = Inc("ddl")] /\ begun' = begun
    <2>1. [m EXCEPT !.working = Torn(@, c)] = v
        BY <1>2
    <2> QED BY <2>1 DEF OpenDDL
<1>4. /\ w \in ContentType /\ w.done = txn.working.done /\ w.torn = txn.working.torn \cup {c}
      /\ w.done <= MaxOps /\ w.done < MaxOps /\ w.copied \subseteq txn.working.copied
    <2>1. txn.working.done \in Nat
        BY <1>1 DEF ContentType
    <2> QED BY <1>1, <1>3, <2>1, ContentFields
<1>5. /\ Lockers(txn) \subseteq {c} /\ (Whole(txn, cur, inc) => txn.working.torn = {}) /\ ~txn.failed
      /\ \A k \in Cursors : cur[k].reads = 0 /\ cur[k].mode # "update"
      /\ \A e \in Clients : inc[e].kind = "none"
    BY <1>3, MayChangeSchemaFacts
<1> HIDE DEF m, w
<1>6. InSchema(v, c, cur, inc, begun) /\ v.working = w /\ v.stable = txn.stable /\ v.failed = txn.failed
    <2>1. /\ MayChangeSchema(c) /\ w \in ContentType /\ w.done <= MaxOps
          /\ w.copied \subseteq txn.working.copied
        BY <1>3, <1>4
    <2>2. v = [DDLBegin(txn, c) EXCEPT !.working = w]
        BY DEF m
    <2> HIDE DEF v
    <2> QED BY <2>1, <2>2, SchemaBegins, ZenonT(60)
<1> HIDE DEF v
<1>7. inc' \in IncType /\ inc'[c].kind = "ddl" /\ \A e \in Clients : e # c => inc'[e].kind = "none"
    BY <1>1, <1>3, <1>5 DEF IncType, Inc
<1>8. Connected(cur)
    BY Unpacked DEF Objects
<1>9. /\ cur' \in CurType /\ Connected(cur')
      /\ \A k \in Cursors : ~cur'[k].connected /\ cur'[k].reads = 0 /\ cur'[k].mode # "update"
    <2>1. /\ cur' \in CurType
          /\ \A k \in Cursors : /\ cur'[k].mode = cur[k].mode /\ cur'[k].reads = cur[k].reads
                                /\ cur'[k].connected => cur[k].connected /\ cur[k].mode = "closed"
        BY <1>1, <1>3, CursorsLose
    <2>2. \A k \in Cursors : ~cur'[k].connected /\ cur'[k].reads = 0 /\ cur'[k].mode # "update"
        BY <1>5, <1>8, <2>1 DEF Connected
    <2> QED BY <2>1, <2>2 DEF Connected
<1>10. /\ v \in TxnType /\ Len(v.locks) = 1 /\ v.locks[1].holder = c /\ (v.locks[1].isTxn <=> c \in begun)
       /\ v.locks[1].reads = 0 /\ v.updaters = 0 /\ v.action = EDbSchemaLock /\ v.lockState = EDbSchemaLock
       /\ begun \subseteq {c} /\ v.stable.done <= MaxOps
    BY <1>6 DEF InSchema, Types
<1>11. Cardinality(StreamsOf(cur', c)) = 0 /\ Cardinality(Upd(cur')) = 0 /\ Cardinality(Dml(inc')) = 0
    <2>1. \A e \in Clients : inc'[e].kind # "dml"
        BY <1>7
    <2> QED BY <1>7, <1>9, <2>1, StreamsFacts, UpdFacts
<1>12. \A e \in Clients : Working(cur', inc', begun, e) <=> e = c
    BY <1>7, <1>9, <1>10, ObjectTypes DEF Working
<1>13. Ledger(v, cur', inc', begun) /\ Lockers(v) = {c}
    BY <1>10, <1>11, <1>12, OneHolder
<1>14. Fit(v)
    BY <1>10, Enumerations DEF Fit
<1>15. Objects(v, cur', inc') /\ Undoable(v, cur')
    <2>1. Objects(v, cur', inc')
        BY <1>7, <1>9, <1>10, Enumerations DEF Objects
    <2>2. v.working.copied = {} /\ v.stable.copied = {} /\ v.lockState >= EDbWriteLock
        BY <1>6, <1>10, Enumerations DEF InSchema
    <2> QED BY <2>1, <2>2 DEF Undoable, Copying
<1>16. Bounded(v, inc')
    BY <1>4, <1>6, <1>10 DEF Bounded
<1>17. Inv(v, cur', inc', begun)
    BY <1>1, <1>7, <1>9, <1>10, <1>13, <1>14, <1>15, <1>16 DEF Inv, Types
<1>18. Whole(txn, cur, inc) => Whole(v, cur', inc')
    BY <1>4, <1>5, <1>6, <1>7 DEF Whole, Owned
<1>19. Alone(txn, v)
    BY <1>5, <1>13 DEF Alone
<1> QED BY <1>3, <1>17, <1>18, <1>19 DEF Kept

\* While a change of the schema goes on its client is the only one at work.
LEMMA SchemaFacts ==
    ASSUME IInv, NEW c \in Clients, inc[c].kind = "ddl"
    PROVE  /\ txn.action = EDbSchemaLock /\ txn.lockState = EDbSchemaLock /\ txn.updaters = 0
           /\ Len(txn.locks) = 1 /\ txn.locks[1].holder = c /\ (txn.locks[1].isTxn <=> c \in begun)
           /\ txn.locks[1].reads = 0 /\ Lockers(txn) = {c} /\ begun \subseteq {c}
           /\ \A k \in Cursors : cur[k].reads = 0 /\ cur[k].mode # "update" /\ ~cur[k].connected
           /\ \A e \in Clients : e # c => inc[e].kind = "none"
<1>1. /\ Inv(txn, cur, inc, begun) /\ txn \in TxnType /\ cur \in CurType /\ begun \subseteq Clients
      /\ Fit(txn) /\ Objects(txn, cur, inc)
    BY Unpacked
<1>2. txn.action = EDbSchemaLock /\ txn.lockState = EDbSchemaLock /\ Len(txn.locks) = 1
    BY <1>1, Enumerations DEF Fit, Objects
<1>3. txn.updaters = 0
    BY <1>1, <1>2, Idle, Enumerations
<1>4. \A k \in Cursors : cur[k].reads = 0 /\ cur[k].mode # "update" /\ ~cur[k].connected
    BY <1>1, <1>2, ObjectTypes DEF Objects, Connected
<1>5. Working(cur, inc, begun, c)
    BY DEF Working
<1>6. /\ txn.locks[1].holder = c /\ Lockers(txn) = {c}
      /\ \A e \in Clients : Working(cur, inc, begun, e) <=> e = c
    BY <1>1, <1>2, <1>5, Sole
<1>7. (txn.locks[1].isTxn <=> c \in begun) /\ txn.locks[1].reads = 0
    BY <1>1, <1>2, <1>4, <1>6, Sole
<1>8. begun \subseteq {c} /\ \A e \in Clients : e # c => inc[e].kind = "none"
    BY <1>1, <1>6 DEF Working
<1> QED BY <1>2, <1>3, <1>4, <1>6, <1>7, <1>8

\* The change of the schema, once its object is gone.
LEMMA SchemaEnds ==
    ASSUME IInv, NEW c \in Clients, inc[c].kind = "ddl", inc' = [inc EXCEPT ![c] = NoInc],
           NEW v \in TxnType, v.locks = txn.locks, v.updaters = txn.updaters, v.action = txn.action,
           v.lockState = txn.lockState, v.working.done <= MaxOps, v.stable = txn.stable,
           v.working.copied \subseteq txn.working.copied
    PROVE  InSchema(v, c, cur, inc', begun) /\ Lockers(txn) \subseteq {c}
<1>1. /\ cur \in CurType /\ inc \in IncType /\ begun \subseteq Clients /\ Connected(cur)
      /\ txn \in TxnType /\ Undoable(txn, cur) /\ v.stable.done <= MaxOps
    BY Unpacked DEF Objects, Bounded
<1>2. inc' \in IncType /\ inc'[c].kind = "none" /\ \A e \in Clients : e # c => inc'[e] = inc[e]
    BY <1>1, StatementGone
<1>3. /\ txn.action = EDbSchemaLock /\ txn.lockState = EDbSchemaLock /\ txn.updaters = 0
      /\ Len(txn.locks) = 1 /\ txn.locks[1].holder = c /\ (txn.locks[1].isTxn <=> c \in begun)
      /\ txn.locks[1].reads = 0 /\ Lockers(txn) = {c} /\ begun \subseteq {c}
      /\ \A k \in Cursors : cur[k].reads = 0 /\ cur[k].mode # "update"
      /\ \A e \in Clients : e # c => inc[e].kind = "none"
    BY SchemaFacts
<1>4. \A e \in Clients : inc'[e].kind = "none"
    BY <1>2, <1>3
<1>5. v.working.copied = {} /\ v.stable.copied = {}
    BY <1>1, <1>3, NoCopies
<1> QED BY <1>1, <1>2, <1>3, <1>4, <1>5 DEF InSchema, Types

\* DDLLast: the change is complete.
LEMMA DDLLastKept == ASSUME IInv, NEW c \in Clients, DDLLast(c) PROVE Kept
<1> DEFINE w == Finished(txn.working, c)
           v == [txn EXCEPT !.working = w]
<1>1. /\ txn \in TxnType /\ Bounded(txn, inc) /\ txn.working \in ContentType /\ MaxOps \in Nat
    BY Unpacked, DbAssumption
<1>2. /\ inc[c].kind = "ddl" /\ ~inc[c].failed /\ inc' = [inc EXCEPT ![c] = NoInc] /\ begun' = begun
    BY DEF DDLLast, Running, Inc
<1>3. DDLCommitL(v, cur)
    BY DEF DDLLast
<1>4. /\ w \in ContentType /\ w.done <= MaxOps /\ w.torn = txn.working.torn \ {c}
      /\ w.copied \subseteq txn.working.copied
    <2>1. txn.working.done \in Nat /\ txn.working.done < MaxOps
        BY <1>1, <1>2 DEF ContentType, Bounded
    <2> QED BY <1>1, <2>1, ContentFields
<1> HIDE DEF w
<1>5. /\ v \in TxnType /\ v.working = w /\ v.stable = txn.stable /\ v.action = txn.action
      /\ v.lockState = txn.lockState /\ v.locks = txn.locks /\ v.updaters = txn.updaters
    BY <1>1, <1>4, WorkingFields
<1> HIDE DEF v
<1>6. v.working.done <= MaxOps /\ v.working.copied \subseteq txn.working.copied
    BY <1>4, <1>5
<1>7. InSchema(v, c, cur, inc', begun) /\ Lockers(txn) \subseteq {c}
    BY <1>2, <1>5, <1>6, SchemaEnds
<1>8. Whole(txn, cur, inc) => v.stable.torn = {} /\ v.working.torn = {}
    <2> SUFFICES ASSUME Whole(txn, cur, inc) PROVE v.stable.torn = {} /\ v.working.torn = {}
        OBVIOUS
    <2>1. ~txn.failed
        BY <1>2 DEF Whole
    <2>2. ASSUME NEW x \in txn.working.torn PROVE x = c
        <3>1. Owned(txn, cur, inc, x)
            BY <2>2 DEF Whole
        <3>2. /\ \A k \in Cursors : cur[k].mode # "update"
              /\ \A e \in Clients : e # c => inc[e].kind = "none"
            BY <1>2, SchemaFacts
        <3> QED BY <2>1, <3>1, <3>2 DEF Owned
    <2> QED BY <1>4, <1>5, <2>2 DEF Whole
<1> QED BY <1>2, <1>3, <1>7, <1>8, SchemaDone

\* A step of a change of the schema that fails changes nothing but what has failed.
LEMMA DDLFailsKept == ASSUME IInv, NEW c \in Clients, DDLFails(c) PROVE Kept
<1>1. /\ Inv(txn, cur, inc, begun) /\ txn \in TxnType /\ cur \in CurType /\ inc \in IncType
      /\ Objects(txn, cur, inc) /\ Bounded(txn, inc) /\ Undoable(txn, cur)
    BY Unpacked
<1>2. /\ inc[c].kind = "ddl" /\ inc' = [inc EXCEPT ![c].failed = TRUE] /\ cur' = cur /\ begun' = begun
      /\ txn' = txn \/ txn' = [txn EXCEPT !.failed = TRUE]
    BY DEF DDLFails, Running, Inc
<1>3. /\ inc' \in IncType /\ inc'[c].failed /\ \A e \in Clients : inc'[e].kind = inc[e].kind
    BY <1>1, <1>2, ZenonT(60) DEF IncType
<1>4. /\ txn' \in TxnType /\ txn'.action = txn.action /\ txn'.lockState = txn.lockState
      /\ txn'.locks = txn.locks /\ txn'.updaters = txn.updaters /\ txn'.maxLock = txn.maxLock
      /\ txn'.working = txn.working /\ txn'.stable = txn.stable /\ (txn.failed => txn'.failed)
    BY <1>1, <1>2 DEF TxnType
<1>5. Connected(cur') /\ Bounded(txn', inc') /\ Undoable(txn', cur')
    BY <1>1, <1>2, <1>3, <1>4 DEF Objects, Bounded, Undoable, Copying
<1>6. /\ \A k \in Cursors : /\ cur'[k].reads = cur[k].reads
                            /\ cur'[k].mode = "update" <=> cur[k].mode = "update"
      /\ \A k \in Cursors : cur'[k].connected => cur[k].connected
      /\ cur' \in CurType
    BY <1>1, <1>2
<1>7. Inv(txn', cur', inc', begun)
    BY <1>1, <1>3, <1>4, <1>5, <1>6, Stays
<1>8. \A e \in Clients : e # c => inc[e].kind = "none"
    BY <1>2, SchemaFacts
<1>9. Whole(txn, cur, inc) => Whole(txn', cur', inc')
    BY <1>2, <1>3, <1>4, <1>8 DEF Whole, Owned
<1> QED BY <1>2, <1>4, <1>7, <1>9, AloneTrivially DEF Kept

\* The close of a change that is not complete undoes it.
LEMMA CloseDDLKept == ASSUME IInv, NEW c \in Clients, CloseDDL(c) PROVE Kept
<1>1. txn \in TxnType /\ txn.working.done <= MaxOps
    BY Unpacked DEF Bounded
<1>2. /\ inc[c].kind = "ddl" /\ inc' = [inc EXCEPT ![c] = NoInc] /\ begun' = begun
      /\ DDLRollback(txn, cur)
    BY DEF CloseDDL
<1>3. InSchema(txn, c, cur, inc', begun) /\ Lockers(txn) \subseteq {c}
    BY <1>1, <1>2, SchemaEnds
<1>4. Whole(txn, cur, inc) => txn.stable.torn = {}
    BY DEF Whole
<1> QED BY <1>2, <1>3, <1>4, SchemaGivenUp

-----------------------------------------------------------------------------
(* The steps of the utilities *)

\* A utility is opened on a database nobody has a lock on.
LEMMA OpenUtilityKept ==
    ASSUME IInv, NEW c \in Clients, NEW kind \in {"compact", "recover"}, OpenUtility(c, kind)
    PROVE  Kept
<1> DEFINE l == IF kind = "recover" THEN EDbRecoveryLock ELSE EDbCompactLock
           s == Exclude(txn, c)
           all == kind = "recover"
<1>1. /\ Inv(txn, cur, inc, begun) /\ txn \in TxnType /\ cur \in CurType /\ inc \in IncType
      /\ begun \subseteq Clients /\ Objects(txn, cur, inc) /\ Bounded(txn, inc) /\ Undoable(txn, cur)
    BY Unpacked
<1>2. /\ ~txn.failed /\ txn.locks = <<>> /\ begun' = begun
      /\ txn' = [txn EXCEPT !.action = l, !.lockState = l, !.locks = s]
      /\ cur' = Disconnected(cur, all) /\ inc' = [inc EXCEPT ![c] = Inc(kind)]
    BY DEF OpenUtility, ReadyL
<1>3. Len(txn.locks) = 0
    BY <1>1, <1>2, ListTypes
<1>4. /\ \A k \in Cursors : cur[k].reads = 0 /\ cur[k].mode # "update"
      /\ \A e \in Clients : inc[e].kind = "none" /\ e \notin begun
      /\ Lockers(txn) = {} /\ txn.lockState = EDbReadLock /\ txn.updaters = 0
    BY <1>1, <1>3, Nobody
<1>5. /\ Touched(txn.working) = Touched(txn.stable)
      /\ txn.working.copied = {} /\ txn.stable.copied = {}
    BY <1>1, <1>4, NoCopies, Enumerations
<1>6. /\ s \in Seq(LockType) /\ Len(s) = 1 /\ s[1].holder = c /\ ~s[1].isTxn /\ s[1].reads = 0
    <2>1. MayExclude(txn, c)
        BY <1>3 DEF MayExclude
    <2> QED BY <1>1, <1>3, <2>1, Excluded
<1>7. /\ l \in LockTypes /\ l \in {EDbCompactLock, EDbRecoveryLock}
      /\ l = EDbRecoveryLock => kind = "recover"
      /\ kind = "recover" => l = EDbRecoveryLock
      /\ kind = "compact" => l = EDbCompactLock
    BY Enumerations
<1> HIDE DEF l, s
<1>8. /\ txn' \in TxnType /\ txn'.action = l /\ txn'.lockState = l /\ txn'.locks = s
      /\ txn'.updaters = txn.updaters /\ txn'.working = txn.working /\ txn'.stable = txn.stable
    BY <1>1, <1>2, <1>6, <1>7 DEF TxnType
<1>9. inc' \in IncType /\ inc'[c].kind = kind /\ \A e \in Clients : e # c => inc'[e].kind = "none"
    BY <1>1, <1>2, <1>4 DEF IncType, Inc
<1>10. /\ cur' \in CurType /\ Connected(cur')
       /\ \A k \in Cursors : cur'[k].reads = 0 /\ cur'[k].mode # "update"
       /\ l = EDbRecoveryLock => \A k \in Cursors : ~cur'[k].connected
    <2> DEFINE Lost == /\ cur' \in CurType
                       /\ \A k \in Cursors :
                             /\ cur'[k].mode = cur[k].mode /\ cur'[k].reads = cur[k].reads
                             /\ cur'[k].connected => cur[k].connected
                             /\ kind = "recover" => (cur'[k].connected => cur[k].mode = "closed")
    <2>1. ASSUME kind = "recover" PROVE Lost
        <3>1. cur' = Disconnected(cur, TRUE)
            BY <1>2, <2>1
        <3> QED BY <1>1, <2>1, <3>1, CursorsLose
    <2>2. ASSUME kind = "compact" PROVE Lost
        <3>1. cur' = Disconnected(cur, FALSE)
            BY <1>2, <2>2
        <3>2. Disconnected(cur, FALSE) = [x \in Cursors |-> cur[x]]
            BY DEF Disconnected
        <3>3. [x \in Cursors |-> cur[x]] = cur
            BY <1>1 DEF CurType
        <3>4. cur' = cur
            BY <3>1, <3>2, <3>3
        <3>5. ~(kind = "recover")
            BY <2>2
        <3> QED BY <1>1, <3>4, <3>5
    <2>5. Lost
        BY <2>1, <2>2
    <2>3. Connected(cur)
        BY <1>1 DEF Objects
    <2>4. Connected(cur')
        BY <1>1, <1>4, <2>3, <2>5, StillConnected
    <2>6. l = EDbRecoveryLock => \A k \in Cursors : ~cur'[k].connected
        BY <1>7, <2>3, <2>5 DEF Connected
    <2> QED BY <1>4, <2>4, <2>5, <2>6
<1>11. Cardinality(StreamsOf(cur', c)) = 0 /\ Cardinality(Upd(cur')) = 0 /\ Cardinality(Dml(inc')) = 0
    <2>1. \A e \in Clients : inc'[e].kind # "dml"
        BY <1>9
    <2> QED BY <1>9, <1>10, <2>1, StreamsFacts, UpdFacts
<1>12. \A e \in Clients : Working(cur', inc', begun, e) <=> e = c
    BY <1>4, <1>9, <1>10, ObjectTypes DEF Working
<1>13. Ledger(txn', cur', inc', begun) /\ Lockers(txn') = {c}
    <2>1. /\ Len(txn'.locks) = 1 /\ txn'.locks[1].holder = c /\ (txn'.locks[1].isTxn <=> c \in begun)
        BY <1>4, <1>6, <1>8
    <2>2. /\ txn'.locks[1].reads = Cardinality(StreamsOf(cur', c))
          /\ txn'.updaters = Cardinality(Upd(cur')) + Cardinality(Dml(inc'))
        BY <1>4, <1>6, <1>8, <1>11
    <2> HIDE DEF all
    <2> QED BY <1>8, <1>12, <2>1, <2>2, OneHolder
<1>14. Fit(txn')
    <2>1. /\ Len(txn'.locks) = 1 /\ ~txn'.locks[1].isTxn /\ txn'.locks[1].reads = 0
        BY <1>6, <1>8
    <2>2. /\ txn'.updaters = 0 /\ Touched(txn'.working) = Touched(txn'.stable)
          /\ txn'.action \in {3, 4} /\ txn'.lockState = txn'.action
        BY <1>4, <1>5, <1>7, <1>8, Enumerations
    <2> QED BY <2>1, <2>2, Enumerations DEF Fit
<1>15. Objects(txn', cur', inc')
    BY <1>7, <1>8, <1>9, <1>10, Enumerations DEF Objects
<1>16. Bounded(txn', inc') /\ Undoable(txn', cur')
    BY <1>1, <1>5, <1>8, <1>9 DEF Bounded, Undoable, Copying
<1>17. Inv(txn', cur', inc', begun')
    BY <1>1, <1>2, <1>8, <1>9, <1>10, <1>13, <1>14, <1>15, <1>16 DEF Inv, Types
<1>18. Whole(txn, cur, inc) => Whole(txn', cur', inc')
    <2>1. txn'.working.torn = txn'.stable.torn
        BY <1>5, <1>8, TouchedSame
    <2> QED BY <1>8, <1>9, <2>1 DEF Whole
<1> QED BY <1>8, <1>17, <1>18, AloneTrivially DEF Kept

\* While a utility runs its client is the only one at work, and nothing but stray blobs has changed.
LEMMA UtilityFacts ==
    ASSUME IInv, NEW c \in Clients, inc[c].kind \in {"compact", "recover"},
           inc' = [inc EXCEPT ![c] = NoInc]
    PROVE  /\ AtRest(cur, inc', begun) /\ Lockers(txn) = {c}
           /\ Touched(txn.working) = Touched(txn.stable) /\ txn.stable.done <= MaxOps
           /\ txn.working.copied = {} /\ txn.stable.copied = {}
<1>1. /\ Inv(txn, cur, inc, begun) /\ txn \in TxnType /\ cur \in CurType /\ inc \in IncType
      /\ begun \subseteq Clients /\ Fit(txn) /\ Objects(txn, cur, inc) /\ Bounded(txn, inc)
      /\ Undoable(txn, cur)
    BY Unpacked
<1>2. txn.action \in {EDbCompactLock, EDbRecoveryLock}
    BY <1>1 DEF Objects
<1>3. /\ txn.lockState # EDbReadLock /\ ~txn.locks[1].isTxn /\ txn.locks[1].reads = 0
      /\ Touched(txn.working) = Touched(txn.stable)
    BY <1>1, <1>2, Enumerations DEF Fit
<1>4. Len(txn.locks) = 1
    BY <1>1, <1>3 DEF Fit
<1>5. Working(cur, inc, begun, c)
    BY DEF Working
<1>6. /\ txn.locks[1].holder = c /\ Lockers(txn) = {c} /\ c \notin begun
      /\ \A e \in Clients : Working(cur, inc, begun, e) <=> e = c
      /\ \A k \in Cursors : cur[k].reads = 0
    BY <1>1, <1>3, <1>4, <1>5, Sole
<1>7. \A k \in Cursors : cur[k].mode # "update"
    <2>1. txn.action # EDbWriteLock
        BY <1>2, Enumerations
    <2> QED BY <1>1, <2>1, Idle
<1>8. inc' \in IncType /\ inc'[c].kind = "none" /\ \A e \in Clients : e # c => inc'[e] = inc[e]
    BY <1>1, StatementGone
<1>9. begun = {} /\ \A e \in Clients : inc'[e].kind = "none"
    BY <1>1, <1>6, <1>8 DEF Working
<1>10. AtRest(cur, inc', begun)
    BY <1>1, <1>6, <1>7, <1>8, <1>9 DEF AtRest, Objects
<1>11. txn.working.copied = {} /\ txn.stable.copied = {}
    BY <1>1, <1>7, NoCopies
<1> QED BY <1>1, <1>3, <1>6, <1>10, <1>11 DEF Bounded

\* A step of a utility that fails changes nothing but the utility.
LEMMA UtilityFailsKept == ASSUME IInv, NEW c \in Clients, UtilityFails(c) PROVE Kept
<1>1. /\ Inv(txn, cur, inc, begun) /\ txn \in TxnType /\ cur \in CurType /\ inc \in IncType
      /\ Objects(txn, cur, inc) /\ Bounded(txn, inc) /\ Undoable(txn, cur)
    BY Unpacked
<1>2. /\ inc[c].kind \in {"compact", "recover"} /\ inc' = [inc EXCEPT ![c].failed = TRUE]
      /\ txn' = txn /\ cur' = cur /\ begun' = begun
    BY DEF UtilityFails, Running, Inc
<1>3. /\ inc' \in IncType /\ \A e \in Clients : inc'[e].kind = inc[e].kind
      /\ \A e \in Clients : e # c => inc'[e] = inc[e]
    BY <1>1, <1>2 DEF IncType
<1>4. Connected(cur) /\ Bounded(txn, inc')
    BY <1>1, <1>3 DEF Objects, Bounded
<1>5. Inv(txn, cur, inc', begun)
    BY <1>1, <1>3, <1>4, Stays
<1>6. Whole(txn, cur, inc) => Whole(txn', cur', inc')
    BY <1>2, <1>3 DEF Whole, Owned
<1> QED BY <1>2, <1>5, <1>6, AloneTrivially DEF Kept

\* UtilityCommitL releases the lock.
LEMMA UtilityLastKept == ASSUME IInv, NEW c \in Clients, UtilityLast(c) PROVE Kept
<1> DEFINE m == Saved(txn)
           dam == m.damaged /\ inc[c].kind # "recover"
           v == [m EXCEPT !.damaged = dam]
<1>1. txn \in TxnType
    BY Unpacked
<1>2. /\ inc[c].kind \in {"compact", "recover"} /\ inc' = [inc EXCEPT ![c] = NoInc]
      /\ cur' = cur /\ begun' = begun
    BY DEF UtilityLast, Running, Inc
<1>3. txn' = Unlocked(v)
    BY DEF UtilityLast
<1>4. /\ AtRest(cur, inc', begun) /\ Lockers(txn) = {c}
      /\ Touched(txn.working) = Touched(txn.stable) /\ txn.stable.done <= MaxOps
      /\ txn.working.copied = {} /\ txn.stable.copied = {}
    BY <1>2, UtilityFacts
<1>5. m \in TxnType /\ m.working = txn.working /\ m.stable \in {txn.working, txn.stable}
    BY <1>1, SavedFields
<1> HIDE DEF m
<1>6. dam \in BOOLEAN
    OBVIOUS
<1> HIDE DEF dam
<1>7. v \in TxnType /\ v.working = m.working /\ v.stable = m.stable
    BY <1>5, <1>6 DEF TxnType
<1> HIDE DEF v
<1>8. /\ txn' \in TxnType /\ txn'.locks = <<>> /\ txn'.updaters = 0 /\ txn'.action = EDbReadLock
      /\ txn'.lockState = EDbReadLock /\ txn'.working = v.working /\ txn'.stable = v.stable
    BY <1>3, <1>7, UnlockedFields
<1>9. /\ txn'.working = txn.working /\ txn'.stable \in {txn.working, txn.stable}
      /\ Touched(txn'.stable) = Touched(txn.stable)
    BY <1>4, <1>5, <1>7, <1>8
<1>10. Inv(txn', cur, inc', begun) /\ Lockers(txn') = {}
    <2>1. /\ cur \in CurType /\ inc' \in IncType /\ begun = {} /\ Connected(cur)
          /\ \A k \in Cursors : cur[k].reads = 0 /\ cur[k].mode # "update"
          /\ \A e \in Clients : inc'[e].kind = "none"
        BY <1>4 DEF AtRest
    <2>2. /\ Touched(txn'.working) = Touched(txn'.stable)
          /\ txn'.working.copied = {} /\ txn'.stable.copied = {}
        BY <1>4, <1>9
    <2>3. txn'.stable.done <= MaxOps
        BY <1>4, <1>9, TouchedSame
    <2> QED BY <1>8, <2>1, <2>2, <2>3, Released
<1>11. Whole(txn, cur, inc) => Whole(txn', cur', inc')
    <2>1. txn'.stable.torn = txn.stable.torn /\ txn'.working.torn = txn.stable.torn
        BY <1>4, <1>9, TouchedSame
    <2> QED BY <1>2, <1>4, <2>1 DEF Whole, AtRest
<1>12. Alone(txn, txn')
    BY <1>4, <1>10 DEF Alone
<1> QED BY <1>2, <1>10, <1>11, <1>12 DEF Kept

\* UtilityRollback, by the close of a utility, releases the lock.
LEMMA CloseUtilityKept == ASSUME IInv, NEW c \in Clients, CloseUtility(c) PROVE Kept
<1>1. txn \in TxnType
    BY Unpacked
<1>2. /\ inc[c].kind \in {"compact", "recover"} /\ inc' = [inc EXCEPT ![c] = NoInc]
      /\ cur' = cur /\ begun' = begun
    BY DEF CloseUtility
<1>3. PICK r \in Revert(txn) : txn' = Unlocked(r)
    BY DEF CloseUtility
<1>4. /\ AtRest(cur, inc', begun) /\ Lockers(txn) = {c}
      /\ Touched(txn.working) = Touched(txn.stable) /\ txn.stable.done <= MaxOps
      /\ txn.working.copied = {} /\ txn.stable.copied = {}
    BY <1>2, UtilityFacts
<1>5. Touched(txn.working) # Touched(txn.stable) => txn.lockState >= EDbWriteLock
    BY <1>4
<1>6. /\ Inv(txn', cur, inc', begun) /\ Lockers(txn') = {}
      /\ txn'.stable = txn.stable /\ txn'.working.torn = txn.stable.torn
    BY <1>1, <1>3, <1>4, <1>5, Reverted, Zenon
<1>7. Whole(txn, cur, inc) => Whole(txn', cur', inc')
    BY <1>4, <1>6 DEF Whole, AtRest
<1>8. Alone(txn, txn')
    BY <1>4, <1>6 DEF Alone
<1> QED BY <1>2, <1>6, <1>7, <1>8 DEF Kept

-----------------------------------------------------------------------------
(* The steps of the notifier, and the database as a whole *)

\* RDbTransaction::Close gives the list of locks back its first length.
LEMMA CloseDatabaseKept == ASSUME IInv, CloseDatabase PROVE Kept
<1>1. /\ Inv(txn, cur, inc, begun) /\ txn \in TxnType /\ cur \in CurType /\ inc \in IncType
      /\ begun \subseteq Clients /\ Undoable(txn, cur) /\ Bounded(txn, inc) /\ Objects(txn, cur, inc)
    BY Unpacked
<1>2. /\ txn.locks = <<>> /\ txn' = [txn EXCEPT !.maxLock = 1, !.working = txn.stable]
      /\ cur' = cur /\ inc' = inc /\ begun' = begun
    BY DEF CloseDatabase
<1>3. Len(txn.locks) = 0
    BY <1>1, <1>2, ListTypes
<1>4. /\ \A k \in Cursors : cur[k].reads = 0 /\ cur[k].mode # "update"
      /\ \A c \in Clients : inc[c].kind = "none" /\ c \notin begun
      /\ txn.lockState = EDbReadLock /\ txn.action = EDbReadLock /\ txn.updaters = 0
    BY <1>1, <1>3, Nobody
<1>5. txn.stable.copied = {} /\ Lockers(txn) = {}
    BY <1>1, <1>3, <1>4, NoCopies, Nobody
<1>6. /\ txn' \in TxnType /\ txn'.action = txn.action /\ txn'.lockState = txn.lockState
      /\ txn'.locks = txn.locks /\ txn'.updaters = txn.updaters
      /\ txn'.working = txn.stable /\ txn'.stable = txn.stable /\ txn'.failed = txn.failed
    BY <1>1, <1>2 DEF TxnType
<1>7. begun = {} /\ txn.stable.done <= MaxOps /\ Connected(cur)
    BY <1>1, <1>4 DEF Bounded, Objects
<1>8. Inv(txn', cur, inc, begun) /\ Lockers(txn') = {}
    <2>1. /\ txn'.locks = <<>> /\ txn'.updaters = 0 /\ txn'.action = EDbReadLock
          /\ txn'.lockState = EDbReadLock /\ Touched(txn'.working) = Touched(txn'.stable)
          /\ txn'.stable.done <= MaxOps /\ txn'.working.copied = {} /\ txn'.stable.copied = {}
          /\ \A c \in Clients : inc[c].kind = "none"
        BY <1>2, <1>4, <1>5, <1>6, <1>7
    <2> QED BY <1>1, <1>4, <1>6, <1>7, <2>1, Released
<1>9. Whole(txn, cur, inc) => Whole(txn', cur', inc')
    BY <1>2, <1>4, <1>6 DEF Whole
<1>10. Alone(txn, txn')
    <2>1. txn'.stable = txn.stable /\ Lockers(txn) = {} /\ Lockers(txn') = {}
        BY <1>5, <1>6, <1>8
    <2> QED BY <2>1 DEF Alone
<1> QED BY <1>2, <1>8, <1>9, <1>10 DEF Kept

\* A step that leaves the database.
LEMMA UnchangedKept == ASSUME IInv, UNCHANGED <<txn, cur, inc, begun>> PROVE Kept
<1>1. txn' = txn /\ cur' = cur /\ inc' = inc /\ begun' = begun
    OBVIOUS
<1> QED BY <1>1, AloneTrivially DEF Kept, IInv

\* Every step of the database keeps the invariant.
LEMMA NextKept == ASSUME IInv, Next PROVE Kept
<1>1. ASSUME NEW k \in Cursors, CursorStep(k) PROVE Kept
    BY <1>1, OpenCursorKept, ResetKept, BeginUpdateKept, CopyFailsKept, WriteBlobKept, PutLKept,
       PutFailsKept, CancelKept, CloseCursorKept, DeleteLKept, ReadBlobKept, ReadReleaseKept DEF CursorStep
<1>2. ASSUME NEW c \in Clients, ClientStep(c) PROVE Kept
    <2>1. CASE Begin(c) \/ EndShared(c) \/ Commit(c) \/ CommitFails(c) \/ Rollback(c)
        BY <2>1, BeginKept, EndSharedKept, CommitKept, CommitFailsKept, RollbackKept
    <2>2. CASE InsertStatement(c) \/ OpenStatement(c) \/ NextRow(c) \/ NextFails(c)
               \/ NextLast(c) \/ LastFails(c) \/ CloseStatement(c)
        BY <2>2, InsertStatementKept, OpenStatementKept, NextRowKept, NextFailsKept, NextLastKept,
           LastFailsKept, CloseStatementKept
    <2>3. CASE FlushFails(c) \/ CreateTable(c) \/ OpenDDL(c) \/ DDLLast(c) \/ DDLFails(c) \/ CloseDDL(c)
        BY <2>3, FlushFailsKept, CreateTableKept, OpenDDLKept, DDLLastKept, DDLFailsKept, CloseDDLKept
    <2>4. CASE OpenUtility(c, "compact") \/ OpenUtility(c, "recover")
               \/ UtilityFails(c) \/ UtilityLast(c) \/ CloseUtility(c)
        BY <2>4, OpenUtilityKept, UtilityFailsKept, UtilityLastKept, CloseUtilityKept
    <2> QED BY <1>2, <2>1, <2>2, <2>3, <2>4 DEF ClientStep
<1>3. CASE ObserverStep
    BY <1>3, UnchangedKept DEF ObserverStep, Notify, CancelNotify, Handle
<1>4. CASE CloseDatabase
    BY <1>4, CloseDatabaseKept
<1>5. CASE OpenDatabase
    BY <1>5, UnchangedKept DEF OpenDatabase
<1> QED BY <1>1, <1>2, <1>3, <1>4, <1>5 DEF Next

\* The invariant holds of a new database, with nothing torn.
LEMMA Initially == ASSUME Init PROVE IInv /\ Whole(txn, cur, inc)
<1>1. txn \in TxnType /\ txn.locks = <<>> /\ txn.updaters = 0 /\ txn.action = EDbReadLock
      /\ txn.lockState = EDbReadLock /\ txn.working = txn.stable /\ txn.working.torn = {}
      /\ txn.working.done = 0 /\ txn.working.copied = {}
    <2>1. 0 \in LockTypes /\ <<>> \in Seq(LockType)
        BY Enumerations, EmptySeq
    <2> DEFINE w == Empty
    <2>2. w \in ContentType
        BY DEF ContentType, Empty
    <2>3. w.done = 0 /\ w.torn = {} /\ w.copied = {}
        BY DEF Empty
    <2>4. txn = [action |-> 0, lockState |-> 0, failed |-> FALSE, locks |-> <<>>, maxLock |-> 1,
                 updaters |-> 0, damaged |-> FALSE, working |-> w, stable |-> w]
        BY Enumerations DEF Init
    <2> HIDE DEF w
    <2>5. txn \in TxnType
        BY <2>1, <2>2, <2>4 DEF TxnType
    <2> QED BY <2>3, <2>4, <2>5, Enumerations
<1>2. Closed \in CursorType /\ Closed.mode = "closed" /\ Closed.reads = 0 /\ ~Closed.connected
    <2>1. 0 \in 0 .. MaxReads
        BY DbAssumption
    <2> QED BY <2>1 DEF Closed, CursorType
<1>3. cur \in CurType /\ \A k \in Cursors : cur[k] = Closed
    BY <1>2 DEF Init, CurType
<1>4. inc \in IncType /\ \A c \in Clients : inc[c].kind = "none"
    BY DEF Init, IncType, NoInc
<1>5. Connected(cur) /\ \A k \in Cursors : cur[k].reads = 0 /\ cur[k].mode # "update"
    BY <1>2, <1>3 DEF Connected
<1>6. begun = {} /\ txn.stable.done <= MaxOps
    BY <1>1, DbAssumption DEF Init
<1>7. IInv
    BY <1>1, <1>3, <1>4, <1>5, <1>6, Released DEF IInv
<1>8. Whole(txn, cur, inc)
    BY <1>1, <1>4 DEF Whole
<1> QED BY <1>7, <1>8

\* The inductive invariant, for all behaviours.
THEOREM DbInductive == Spec => []IInv
<1>1. Init => IInv
    BY Initially
<1>2. IInv /\ [Next]_vars => IInv'
    <2> SUFFICES ASSUME IInv, [Next]_vars PROVE IInv'
        OBVIOUS
    <2>1. CASE Next
        BY <2>1, NextKept DEF Kept, IInv
    <2>2. CASE UNCHANGED vars
        BY <2>2, UnchangedKept DEF Kept, IInv, vars
    <2> QED BY <2>1, <2>2
<1> QED BY <1>1, <1>2, PTL DEF Spec

-----------------------------------------------------------------------------
(* The properties *)

\* What the lock list holds, between the types of the invariant and those of TypeOK.
LEMMA CountsAreNatural ==
    ASSUME IInv
    PROVE  /\ txn.locks \in Seq([holder : Clients, isTxn : BOOLEAN, reads : Nat])
           /\ txn.updaters \in Nat /\ txn.working \in Content /\ txn.stable \in Content
<1>1. /\ Inv(txn, cur, inc, begun) /\ txn \in TxnType /\ cur \in CurType
      /\ Ledger(txn, cur, inc, begun) /\ Bounded(txn, inc)
      /\ txn.working \in ContentType /\ txn.stable \in ContentType
    BY Unpacked
<1>2. txn.updaters \in Nat
    BY <1>1, Idle
<1>3. txn.working \in Content /\ txn.stable \in Content
    BY <1>1, DbAssumption DEF Bounded, Content, ContentType
<1>4. ASSUME NEW i \in 1 .. Len(txn.locks)
      PROVE  txn.locks[i] \in [holder : Clients, isTxn : BOOLEAN, reads : Nat]
    <2>1. txn.locks[i] \in LockType /\ txn.locks[i].holder \in Clients
        BY <1>1, ListTypes
    <2>2. txn.locks[i].reads = Cardinality(StreamsOf(cur, txn.locks[i].holder))
        BY <1>1 DEF Ledger
    <2>3. txn.locks[i].reads \in Nat
        BY <1>1, <2>1, <2>2, StreamsFacts
    <2> QED BY <2>1, <2>3 DEF LockType
<1>5. txn.locks \in Seq([holder : Clients, isTxn : BOOLEAN, reads : Nat])
    <2>1. txn.locks \in Seq(LockType) /\ Len(txn.locks) \in Nat
        BY <1>1, ListTypes
    <2>2. txn.locks \in [1 .. Len(txn.locks) -> LockType]
        BY <2>1, LenProperties
    <2>3. txn.locks \in [1 .. Len(txn.locks) -> [holder : Clients, isTxn : BOOLEAN, reads : Nat]]
        BY <1>4, <2>2
    <2>4. ASSUME NEW S, NEW n \in Nat, NEW f \in [1 .. n -> S] PROVE f \in Seq(S)
        OBVIOUS
    <2> QED BY <2>1, <2>3, <2>4, Zenon
<1> QED BY <1>2, <1>3, <1>5

\* The invariant of the lock list that debug builds evaluate follows from the inductive one.
LEMMA LockInvariantHolds == ASSUME IInv PROVE LockInvariant
<1>1. /\ Inv(txn, cur, inc, begun) /\ txn \in TxnType /\ cur \in CurType
      /\ Ledger(txn, cur, inc, begun) /\ Fit(txn)
    BY Unpacked
<1>2. txn.updaters \in Nat /\ (txn.action # EDbWriteLock => txn.updaters = 0)
      /\ (txn.action = EDbWriteLock => txn.updaters > 0)
    <2>1. txn.updaters \in Nat /\ (txn.action = EDbWriteLock <=> txn.updaters # 0)
        BY <1>1, Idle DEF Fit
    <2> QED BY <2>1
<1>3. txn.lockState \in 0 .. 5 /\ txn.action \in 0 .. 5
    BY <1>1, Enumerations DEF TxnType
<1>4. CASE txn.locks = <<>>
    <2>1. Len(txn.locks) = 0
        BY <1>1, <1>4, ListTypes
    <2>2. txn.lockState = EDbReadLock /\ txn.action = EDbReadLock /\ txn.updaters = 0
        BY <1>1, <2>1, Nobody
    <2> QED BY <1>4, <2>2 DEF LockInvariant
<1>5. CASE txn.locks # <<>> /\ txn.lockState = EDbReadLock
    <2>1. txn.action = EDbReadLock /\ txn.updaters = 0 /\ Len(txn.locks) <= txn.maxLock
        BY <1>1, <1>2, <1>5, Enumerations DEF Fit
    <2>2. ASSUME NEW i \in 1 .. Len(txn.locks) PROVE txn.locks[i].isTxn \/ txn.locks[i].reads > 0
        <3> DEFINE h == txn.locks[i].holder
        <3>1. h \in Clients /\ h \in Lockers(txn)
            BY <1>1, ListTypes
        <3>2. /\ Working(cur, inc, begun, h) /\ (txn.locks[i].isTxn <=> h \in begun)
              /\ txn.locks[i].reads = Cardinality(StreamsOf(cur, h))
            BY <1>1, <3>1 DEF Ledger
        <3>3. /\ \A k \in Cursors : cur[k].mode # "update"
              /\ \A c \in Clients : inc[c].kind = "none"
            <4>1. txn.action \in {EDbReadLock, EDbWriteLock}
                BY <2>1
            <4> QED BY <1>1, <2>1, <4>1, Idle
        <3>4. CASE h \in begun
            BY <3>2, <3>4
        <3>5. CASE \E k \in Cursors : Owner[k] = h /\ cur[k].reads > 0
            <4>1. PICK k \in Cursors : Owner[k] = h /\ cur[k].reads # 0
                BY <1>1, <3>5, ObjectTypes
            <4>2. Cardinality(StreamsOf(cur, h)) \in Nat /\ Cardinality(StreamsOf(cur, h)) # 0
                BY <1>1, <3>1, <4>1, StreamsFacts
            <4> QED BY <3>2, <4>2
        <3> QED BY <3>1, <3>2, <3>3, <3>4, <3>5 DEF Working
    <2>3. ~(txn.lockState \in {EDbCompactLock, EDbRecoveryLock}) /\ ~(txn.lockState = EDbXReadLock)
        BY <1>5, Enumerations
    <2>4. \A i \in 1 .. Len(txn.locks) : txn.locks[i].isTxn \/ txn.locks[i].reads > 0
        BY <2>2
    <2> QED BY <1>5, <2>1, <2>3, <2>4 DEF LockInvariant
<1>6. CASE txn.locks # <<>> /\ txn.lockState \in {EDbCompactLock, EDbRecoveryLock}
    <2>1. /\ txn.action = txn.lockState /\ ~txn.locks[1].isTxn /\ txn.locks[1].reads = 0
          /\ txn.lockState # EDbReadLock
        BY <1>1, <1>6, Enumerations DEF Fit
    <2>2. Len(txn.locks) = 1 /\ txn.updaters = 0
        BY <1>1, <1>2, <1>6, <2>1, Enumerations DEF Fit
    <2> QED BY <1>6, <2>1, <2>2, Enumerations DEF LockInvariant, Primary
<1>7. CASE txn.locks # <<>> /\ txn.lockState \in {EDbXReadLock, EDbWriteLock, EDbSchemaLock}
    <2>1. Len(txn.locks) = 1 /\ txn.lockState # EDbReadLock
        BY <1>1, <1>7, Enumerations DEF Fit
    <2>2. /\ txn.action = EDbReadLock => txn.locks[1].isTxn
          /\ txn.action \in {EDbReadLock, EDbWriteLock, EDbSchemaLock}
          /\ txn.action = EDbSchemaLock => txn.lockState = EDbSchemaLock
          /\ txn.action = EDbWriteLock /\ txn.lockState = EDbSchemaLock => txn.locks[1].isTxn
        BY <1>1, <1>3, <1>7, <2>1, Enumerations DEF Fit
    <2>3. txn.action # EDbWriteLock => txn.updaters = 0
        BY <1>2
    <2>4. CASE txn.lockState = EDbXReadLock
        <3>1. \/ txn.action = EDbReadLock /\ txn.updaters = 0 /\ txn.locks[1].isTxn
              \/ txn.action = EDbWriteLock /\ txn.updaters > 0
            BY <1>2, <2>2, <2>4, Enumerations
        <3>2. /\ ~(txn.lockState = EDbReadLock) /\ ~(txn.lockState \in {EDbCompactLock, EDbRecoveryLock})
              /\ ~(txn.lockState = EDbWriteLock) /\ ~(txn.lockState = EDbSchemaLock)
            BY <2>4, Enumerations
        <3> QED BY <1>7, <2>1, <2>4, <3>1, <3>2 DEF LockInvariant, Primary
    <2>5. CASE txn.lockState \in {EDbWriteLock, EDbSchemaLock}
        <3>1. \/ txn.action = EDbReadLock /\ txn.updaters = 0 /\ txn.locks[1].isTxn
              \/ /\ txn.action = EDbWriteLock /\ txn.updaters > 0
                 /\ txn.lockState = EDbWriteLock \/ txn.locks[1].isTxn
              \/ txn.action = EDbSchemaLock /\ txn.lockState = EDbSchemaLock /\ txn.updaters = 0
            BY <1>2, <2>2, <2>3, <2>5, Enumerations
        <3>2. /\ ~(txn.lockState = EDbReadLock) /\ ~(txn.lockState \in {EDbCompactLock, EDbRecoveryLock})
              /\ ~(txn.lockState = EDbXReadLock)
            BY <2>5, Enumerations
        <3> QED BY <1>7, <2>1, <3>1, <3>2 DEF LockInvariant, Primary
    <2> QED BY <1>7, <2>4, <2>5
<1> QED BY <1>3, <1>4, <1>5, <1>6, <1>7, Enumerations

\* A client is at work exactly if an object of its, or its transaction, is.
LEMMA AtWorkIsWorking ==
    ASSUME IInv, NEW c \in Clients
    PROVE  AtWork(c) <=> Working(cur, inc, begun, c)
<1>1. cur \in CurType
    BY Unpacked
<1>2. Streams(c) = StreamsOf(cur, c)
    BY DEF Streams, StreamsOf
<1>3. Streams(c) # {} <=> \E k \in Cursors : Owner[k] = c /\ cur[k].reads > 0
    <2>1. /\ IsFiniteSet(Streams(c))
          /\ Cardinality(Streams(c)) = 0 <=> \A k \in Cursors : Owner[k] = c => cur[k].reads = 0
        BY <1>1, <1>2, StreamsFacts
    <2>2. Cardinality(Streams(c)) = 0 <=> Streams(c) = {}
        BY <2>1, FS_EmptySet
    <2>3. \A k \in Cursors : cur[k].reads # 0 <=> cur[k].reads > 0
        BY <1>1, ObjectTypes
    <2> QED BY <2>1, <2>2, <2>3
<1>4. Updating(c) # {} <=> \E k \in Cursors : Owner[k] = c /\ cur[k].mode = "update"
    BY DEF Updating
<1> QED BY <1>3, <1>4 DEF AtWork, Working

\* The list of locks is the list of the clients at work.
LEMMA LocksAreObjectsHolds == ASSUME IInv PROVE LocksAreObjects
<1>1. /\ txn \in TxnType /\ cur \in CurType /\ Ledger(txn, cur, inc, begun)
    BY Unpacked
<1>2. Lockers(txn) = {c \in Clients : AtWork(c)}
    <2>1. Lockers(txn) \subseteq Clients
        BY <1>1, ListTypes
    <2>2. \A c \in Clients : c \in Lockers(txn) <=> AtWork(c)
        BY <1>1, AtWorkIsWorking DEF Ledger
    <2> QED BY <2>1, <2>2
<1>3. Len(txn.locks) = Cardinality(Lockers(txn))
    <2> DEFINE n == Len(txn.locks)
               F == [i \in 1 .. n |-> txn.locks[i].holder]
    <2>1. n \in Nat
        BY <1>1, ListTypes
    <2>2. F \in [1 .. n -> Lockers(txn)]
        BY DEF Lockers
    <2>3. \A i, j \in 1 .. n : F[i] = F[j] => i = j
        BY <1>1 DEF Ledger, Distinct
    <2>4. \A h \in Lockers(txn) : \E i \in 1 .. n : F[i] = h
        BY DEF Lockers
    <2> HIDE DEF F
    <2>5. F \in Bijection(1 .. n, Lockers(txn))
        BY <2>2, <2>3, <2>4 DEF Bijection, Injection, Surjection, IsInjective
    <2>6. ExistsBijection(1 .. n, Lockers(txn))
        BY <2>5 DEF ExistsBijection
    <2>7. IsFiniteSet(1 .. n) /\ Cardinality(1 .. n) = n
        <3> HIDE DEF n
        <3> QED BY <2>1, FS_Interval
    <2> HIDE DEF n
    <2>8. Cardinality(Lockers(txn)) = n
        BY <2>6, <2>7, FS_Bijection
    <2> QED BY <2>8 DEF n
<1>4. ASSUME NEW i \in 1 .. Len(txn.locks)
      PROVE  /\ txn.locks[i].isTxn = (txn.locks[i].holder \in begun)
             /\ txn.locks[i].reads = Cardinality(Streams(txn.locks[i].holder))
    <2>1. txn.locks[i].isTxn \in BOOLEAN
        BY <1>1, ListTypes
    <2>2. /\ txn.locks[i].isTxn <=> txn.locks[i].holder \in begun
          /\ txn.locks[i].reads = Cardinality(StreamsOf(cur, txn.locks[i].holder))
        BY <1>1 DEF Ledger
    <2>3. Streams(txn.locks[i].holder) = StreamsOf(cur, txn.locks[i].holder)
        BY DEF Streams, StreamsOf
    <2>4. txn.locks[i].isTxn = (txn.locks[i].holder \in begun)
        BY <2>1, <2>2
    <2> QED BY <2>2, <2>3, <2>4
<1>5. txn.updaters = Cardinality(UNION {Updating(c) : c \in Clients})
                     + Cardinality({c \in Clients : inc[c].kind = "dml"})
    <2>1. UNION {Updating(c) : c \in Clients} = Upd(cur)
        BY DbAssumption DEF Updating, Upd
    <2> QED BY <1>1, <2>1 DEF Ledger, Dml
<1> QED BY <1>2, <1>3, <1>4, <1>5 DEF LocksAreObjects

(***************************************************************************)
(* RDbTransaction::_Invariant holds in every state, for any clients,       *)
(* cursors and growth of the list of locks.                                *)
(***************************************************************************)
THEOREM LocksFit == Spec => []LockInvariant
BY DbInductive, LockInvariantHolds, PTL

(***************************************************************************)
(* No lock is leaked or released early: the list of locks is, at any time, *)
(* that of the clients in a transaction or with an object at work.         *)
(***************************************************************************)
THEOREM NoLockLeaks == Spec => []LocksAreObjects
BY DbInductive, LocksAreObjectsHolds, PTL

(***************************************************************************)
(* What is not committed is under a write lock, or changed blobs of a      *)
(* cursor that will force a rollback: a rollback leaves nothing behind.    *)
(***************************************************************************)
THEOREM NothingLeftOver == Spec => []UnsavedIsLocked
<1>1. IInv => UnsavedIsLocked
    <2> SUFFICES ASSUME IInv PROVE UnsavedIsLocked
        OBVIOUS
    <2>1. /\ Inv(txn, cur, inc, begun) /\ txn \in TxnType
          /\ txn.working.copied \subseteq Cursors /\ Undoable(txn, cur)
        BY Unpacked DEF ContentType
    <2>2. ASSUME NEW k \in txn.working.copied
          PROVE  cur[k].mode = "update" /\ txn.lockState >= EDbXReadLock
        <3>1. k \in Cursors /\ cur[k].mode = "update"
            BY <2>1 DEF Undoable, Copying
        <3>2. txn.lockState # EDbReadLock
            BY <2>1, <3>1, LastOne
        <3> QED BY <2>1, <3>1, <3>2, Enumerations DEF TxnType
    <2> QED BY <2>1, <2>2 DEF Undoable, UnsavedIsLocked
<1> QED BY <1>1, DbInductive, PTL

(***************************************************************************)
(* A cursor with an update or a stream never loses its table, so that its  *)
(* Cancel and the release of its stream reach the transaction.             *)
(***************************************************************************)
THEOREM BusyCursorsConnected == Spec => []BusyIsConnected
<1>1. IInv => BusyIsConnected
    BY Unpacked DEF Objects, Connected, BusyIsConnected
<1> QED BY <1>1, DbInductive, PTL

(***************************************************************************)
(* Clients that neither give up a half-made statement outside a failed     *)
(* transaction nor go on with one inside it never see a part of a change   *)
(* committed.                                                              *)
(***************************************************************************)
THEOREM CommitsWhole == ASSUME Careless = {} PROVE Spec => []CommittedWhole
<1> DEFINE WInv == IInv /\ Whole(txn, cur, inc)
<1>1. Init => WInv
    BY Initially
<1>2. WInv /\ [Next]_vars => WInv'
    <2> SUFFICES ASSUME WInv, [Next]_vars PROVE WInv'
        OBVIOUS
    <2>1. CASE Next
        BY <2>1, NextKept DEF Kept, IInv
    <2>2. CASE UNCHANGED vars
        BY <2>2, UnchangedKept DEF Kept, IInv, vars
    <2> QED BY <2>1, <2>2
<1>3. WInv => CommittedWhole
    BY Unpacked DEF Whole, Undoable, Copying, CommittedWhole
<1> QED BY <1>1, <1>2, <1>3, PTL DEF Spec

(***************************************************************************)
(* Isolation: the content of the database, and what is committed of it,    *)
(* change only in steps during which no two clients hold locks.            *)
(***************************************************************************)
THEOREM ReadersIsolated == Spec => Isolation
<1> DEFINE A == txn'.working # txn.working \/ txn'.stable # txn.stable =>
                  Cardinality(Lockers(txn) \cup Lockers(txn')) <= 1
<1>1. IInv /\ [Next]_vars => [A]_vars
    <2> SUFFICES ASSUME IInv, Next PROVE A
        OBVIOUS
    <2>1. Alone(txn, txn')
        BY NextKept DEF Kept
    <2>2. ASSUME NEW c, Lockers(txn) \subseteq {c}, Lockers(txn') \subseteq {c}
          PROVE  Cardinality(Lockers(txn) \cup Lockers(txn')) <= 1
        <3>1. IsFiniteSet({c}) /\ Cardinality({c}) = 1
            BY FS_Singleton
        <3>2. Lockers(txn) \cup Lockers(txn') \in SUBSET {c}
            BY <2>2
        <3>3. Cardinality(Lockers(txn) \cup Lockers(txn')) <= Cardinality({c})
            BY <3>1, <3>2, FS_Subset
        <3> QED BY <3>1, <3>3
    <2> QED BY <2>1, <2>2 DEF Alone
<1> QED BY <1>1, DbInductive, PTL DEF Spec, Isolation

-----------------------------------------------------------------------------
(* The notifier *)

(***************************************************************************)
(* A client that waits has taken the last answer, and one that is behind   *)
(* has an answer that says so, or will have one as soon as it asks.        *)
(***************************************************************************)
Told(o) ==
    /\ o \in ObserverType
    /\ o.pending < 0 => o.answer = NoAnswer
    /\ o.behind => o.answer > EUnlock \/ o.pending > EUnlock

\* The fields of an observer.
LEMMA ObserverFields ==
    ASSUME NEW o \in ObserverType
    PROVE  /\ o.pending \in -2 .. 4 /\ o.answer \in -3 .. 4
           /\ o.behind \in BOOLEAN /\ o.detached \in BOOLEAN
BY Enumerations DEF ObserverType

\* An event is missed by nobody, provided that a change is told by more than an unlock.
LEMMA ObservedTold ==
    ASSUME NEW o, Told(o), NEW e \in Events, NEW changed \in BOOLEAN, changed => e > EUnlock
    PROVE  Told(Observed(o, e, changed))
<1> DEFINE bb == o.behind \/ changed
           told == [o EXCEPT !.behind = bb]
<1>1. o \in ObserverType /\ (o.pending < 0 => o.answer = NoAnswer)
      /\ (o.behind => o.answer > EUnlock \/ o.pending > EUnlock)
    BY DEF Told
<1>2. o.pending \in -2 .. 4 /\ o.answer \in -3 .. 4 /\ o.behind \in BOOLEAN /\ bb \in BOOLEAN
    BY <1>1, ObserverFields
<1>3. told \in ObserverType /\ told.pending = o.pending /\ told.answer = o.answer /\ told.behind = bb
    <2>1. bb \in BOOLEAN
        BY <1>2
    <2> HIDE DEF bb
    <2> QED BY <1>1, <2>1 DEF ObserverType
<1>4. bb => o.behind \/ e > EUnlock
    OBVIOUS
<1>5. e \in 0 .. 4
    BY Enumerations
<1>6. Observed(o, e, changed) =
         CASE o.pending >= 0 /\ e > o.pending -> [told EXCEPT !.pending = e]
           [] o.pending < 0 /\ ~(e = EUnlock /\ o.pending = WaitChange) ->
                 [told EXCEPT !.pending = 0, !.answer = e]
           [] OTHER -> told
    BY DEF Observed
<1> HIDE DEF told, bb
<1>7. CASE o.pending >= 0 /\ e > o.pending
    <2> DEFINE q == [told EXCEPT !.pending = e]
    <2>1. q \in ObserverType /\ q.pending = e /\ q.answer = told.answer /\ q.behind = told.behind
        BY <1>3 DEF ObserverType
    <2>2. ~(o.pending < 0)
        BY <1>2, <1>7
    <2>3. Observed(o, e, changed) = q
        BY <1>6, <1>7, <2>2
    <2> HIDE DEF q
    <2>4. Told(q)
        BY <1>1, <1>2, <1>3, <1>4, <1>5, <1>7, <2>1, Enumerations DEF Told
    <2> QED BY <2>3, <2>4
<1>8. CASE o.pending < 0 /\ ~(e = EUnlock /\ o.pending = WaitChange)
    <2> DEFINE q == [told EXCEPT !.pending = 0, !.answer = e]
    <2>1. q \in ObserverType /\ q.pending = 0 /\ q.answer = e /\ q.behind = told.behind
        <3>1. 0 \in Events
            BY Enumerations
        <3> QED BY <1>3, <3>1 DEF ObserverType
    <2>2. ~(o.pending >= 0 /\ e > o.pending)
        BY <1>2, <1>8
    <2>3. Observed(o, e, changed) = q
        BY <1>6, <1>8, <2>2
    <2> HIDE DEF q
    <2>4. Told(q)
        BY <1>1, <1>2, <1>3, <1>4, <1>5, <1>8, <2>1, Enumerations DEF Told
    <2> QED BY <2>3, <2>4
<1>9. CASE /\ ~(o.pending >= 0 /\ e > o.pending)
           /\ ~(o.pending < 0 /\ ~(e = EUnlock /\ o.pending = WaitChange))
    <2>1. Observed(o, e, changed) = told
        BY <1>6, <1>9
    <2>2. Told(told)
        BY <1>1, <1>2, <1>3, <1>4, <1>5, <1>9, Enumerations DEF Told
    <2> QED BY <2>1, <2>2
<1> QED BY <1>7, <1>8, <1>9

\* A rollback changes nothing that is committed.
LEMMA RollbackTold ==
    ASSUME NEW t, NEW k, Told(observer), DoRollback(t, k)
    PROVE  Told(observer')
<1>1. UnlockEvent(t, ERollback) \in Events
    BY Enumerations DEF UnlockEvent
<1>2. observer' = Observed(observer, UnlockEvent(t, ERollback), FALSE)
    BY DEF DoRollback
<1> QED BY <1>1, <1>2, ObservedTold

\* A commit that changes the store is more than an unlock.
LEMMA CommitTold ==
    ASSUME NEW t \in TxnType, NEW k, Told(observer), DoCommitL(t, k)
    PROVE  Told(observer')
<1> DEFINE e == UnlockEvent(t, ECommit)
           ch == Touched(Saved(t).stable) # Touched(t.stable)
<1>1. e \in Events /\ ch \in BOOLEAN
    BY Enumerations DEF UnlockEvent
<1>2. ch => e > EUnlock
    <2>1. t.lockState \in 0 .. 5
        BY Enumerations DEF TxnType
    <2>2. ASSUME t.lockState \in {EDbReadLock, EDbXReadLock} PROVE Saved(t).stable = t.stable
        <3>1. ~(t.lockState >= EDbWriteLock)
            BY <2>1, <2>2, Enumerations
        <3> QED BY <3>1, SavedFields
    <2> QED BY <2>2, Enumerations DEF UnlockEvent
<1>3. observer' = Observed(observer, e, ch)
    BY DEF DoCommitL
<1> HIDE DEF e, ch
<1> QED BY <1>1, <1>2, <1>3, ObservedTold

\* The ends of updates and of changes of the schema.
LEMMA EndsTold ==
    ASSUME NEW t \in TxnType, NEW k, Told(observer),
           DMLCommitL(t, k) \/ DMLRollback(t, k) \/ DDLCommitL(t, k) \/ DDLRollback(t, k)
    PROVE  Told(observer')
<1>1. CASE DMLCommitL(t, k)
    BY <1>1, CommitTold DEF DMLCommitL
<1>2. CASE DMLRollback(t, k)
    BY <1>2, RollbackTold DEF DMLRollback
<1>3. CASE DDLCommitL(t, k)
    BY <1>3, CommitTold DEF DDLCommitL
<1>4. CASE DDLRollback(t, k)
    <2> DEFINE f == [t EXCEPT !.failed = TRUE]
    <2>1. DoRollback(f, k) \/ observer' = observer
        BY <1>4 DEF DDLRollback
    <2> HIDE DEF f
    <2> QED BY <2>1, RollbackTold
<1> QED BY <1>1, <1>2, <1>3, <1>4

\* The change of one row by x.
LEMMA ChangeTold ==
    ASSUME txn \in TxnType, NEW c \in Clients, NEW x \in Clients \cup Cursors, Told(observer),
           ChangeRow(c, x) \/ ChangeRowFails(c, x)
    PROVE  Told(observer')
<1> DEFINE m == DMLBegin(txn, c)
           n == DMLTouch(m)
<1>1. m \in TxnType
    BY BeginFields
<1> HIDE DEF m
<1>2. n \in TxnType
    BY <1>1, TouchFields
<1>3. ChangeRow(c, x) => DMLCommitL([n EXCEPT !.working = Finished(@, x)], cur)
    BY DEF ChangeRow, m
<1>4. ChangeRowFails(c, x) => DMLRollback([n EXCEPT !.working = Torn(@, x)], cur)
    BY DEF ChangeRowFails, m
<1> HIDE DEF n
<1>5. Finished(n.working, x) \in ContentType /\ Torn(n.working, x) \in ContentType
    BY <1>2, ContentFields DEF TxnType
<1>6. /\ [n EXCEPT !.working = Finished(@, x)] \in TxnType
      /\ [n EXCEPT !.working = Torn(@, x)] \in TxnType
    BY <1>2, <1>5 DEF TxnType
<1> QED BY <1>3, <1>4, <1>6, EndsTold

\* The steps of a cursor.
LEMMA CursorStepTold ==
    ASSUME IInv, Told(observer), NEW k \in Cursors, CursorStep(k) PROVE Told(observer')
<1>1. txn \in TxnType /\ txn.working \in ContentType /\ Owner[k] \in Clients
    BY Unpacked, DbAssumption
<1>2. DMLTouch(txn) \in TxnType /\ DMLTouch(txn).working = txn.working
    BY <1>1, TouchFields
<1>3. CASE PutL(k)
    <2>1. [DMLTouch(txn) EXCEPT !.working = Finished(@, k)] \in TxnType
        BY <1>1, <1>2, ContentFields, WorkingFields
    <2> QED BY <1>3, <2>1, EndsTold DEF PutL
<1>4. CASE Cancel(k) \/ CloseCursor(k)
    <2> DEFINE t == [txn EXCEPT !.working = LeftCopy(@, k)]
    <2>1. t \in TxnType
        BY <1>1, BlobFields, WorkingFields
    <2>2. ASSUME NEW mode, Cancelled(k, mode) PROVE Told(observer')
        <3>1. DMLTouch(t) \in TxnType
            BY <2>1, TouchFields
        <3>2. (\E kk : DMLRollback(IF cur[k].dirty THEN DMLTouch(t) ELSE t, kk)) \/ observer' = observer
            BY <2>2 DEF Cancelled
        <3> HIDE DEF t
        <3> QED BY <2>1, <3>1, <3>2, EndsTold
    <2> QED BY <1>4, <2>2 DEF Cancel, CloseCursor
<1>5. CASE DeleteL(k)
    BY <1>1, <1>5, ChangeTold DEF DeleteL
<1>6. CASE ReadRelease(k)
    <2>1. ASSUME NEW t PROVE Told(Observed(observer, UnlockEvent(t, EUnlock), FALSE))
        <3>1. UnlockEvent(t, EUnlock) \in Events
            BY Enumerations DEF UnlockEvent
        <3> QED BY <3>1, ObservedTold
    <2>2. observer' = observer \/ \E t : observer' = Observed(observer, UnlockEvent(t, EUnlock), FALSE)
        <3> DEFINE t == [txn EXCEPT !.locks[GetLock(txn, Owner[k])].reads = @ - 1]
        <3>1. observer' = observer \/ observer' = Observed(observer, UnlockEvent(t, EUnlock), FALSE)
            BY <1>6 DEF ReadRelease
        <3> HIDE DEF t
        <3> QED BY <3>1
    <2> QED BY <2>1, <2>2
<1>7. CASE \/ OpenCursor(k) \/ Reset(k) \/ BeginUpdate(k) \/ CopyFails(k) \/ WriteBlob(k)
           \/ PutFails(k) \/ ReadBlob(k)
    BY <1>7 DEF OpenCursor, Reset, BeginUpdate, CopyFails, WriteBlob, PutFails, ReadBlob
<1> QED BY <1>3, <1>4, <1>5, <1>6, <1>7 DEF CursorStep

\* The steps of a client.
LEMMA ClientStepTold ==
    ASSUME IInv, Told(observer), NEW c \in Clients, ClientStep(c) PROVE Told(observer')
<1>1. txn \in TxnType /\ txn.working \in ContentType
    BY Unpacked
<1>2. DMLTouch(txn) \in TxnType /\ DMLTouch(txn).working = txn.working
    BY <1>1, TouchFields
<1>3. CASE Commit(c) \/ Rollback(c)
    BY <1>1, <1>3, CommitTold, RollbackTold DEF Commit, Rollback
<1>4. CASE InsertStatement(c)
    BY <1>1, <1>4, ChangeTold DEF InsertStatement
<1>5. CASE NextLast(c)
    <2> DEFINE v == [DMLTouch(txn) EXCEPT !.working.torn = @ \ {c}]
               w == [txn.working EXCEPT !.torn = @ \ {c}]
    <2>1. w \in ContentType
        BY <1>1 DEF ContentType
    <2>2. v = [DMLTouch(txn) EXCEPT !.working = w]
        BY <1>2
    <2>3. DMLCommitL(v, cur)
        BY <1>5 DEF NextLast
    <2> HIDE DEF v, w
    <2>4. v \in TxnType
        BY <1>2, <2>1, <2>2, WorkingFields
    <2> QED BY <2>3, <2>4, EndsTold
<1>6. CASE CloseStatement(c) \/ CloseDDL(c)
    BY <1>1, <1>6, EndsTold DEF CloseStatement, CloseDDL
<1>7. CASE CreateTable(c)
    <2> DEFINE m == DDLBegin(txn, c)
               a == [m EXCEPT !.working = Finished(@, c)]
               b == [m EXCEPT !.working = Torn(@, c)]
    <2>1. DDLCommitL(a, cur) \/ DDLRollback(b, cur)
        BY <1>7 DEF CreateTable
    <2>2. m \in TxnType /\ m.working = txn.working
        BY <1>1, DDLBeginFields
    <2> HIDE DEF m
    <2>3. a \in TxnType /\ b \in TxnType
        BY <1>1, <2>2, ContentFields, WorkingFields
    <2> HIDE DEF a, b
    <2> QED BY <2>1, <2>3, EndsTold
<1>8. CASE DDLLast(c)
    <2>1. [txn EXCEPT !.working = Finished(@, c)] \in TxnType
        BY <1>1, ContentFields, WorkingFields
    <2> QED BY <1>8, <2>1, EndsTold DEF DDLLast
<1>9. CASE UtilityLast(c)
    <2> DEFINE e == IF inc[c].kind = "recover" THEN ERecover ELSE EUnlock
               ch == Touched(Saved(txn).stable) # Touched(txn.stable)
    <2>1. inc[c].kind \in {"compact", "recover"} /\ inc' = [inc EXCEPT ![c] = NoInc]
        BY <1>9 DEF UtilityLast, Running, Inc
    <2>2. Touched(txn.working) = Touched(txn.stable)
        BY <2>1, UtilityFacts
    <2>3. e \in Events /\ ch = FALSE
        BY <1>1, <2>2, SavedFields, Enumerations
    <2>4. observer' = Observed(observer, e, ch)
        BY <1>9 DEF UtilityLast
    <2> HIDE DEF e, ch
    <2> QED BY <2>3, <2>4, ObservedTold
<1>10. CASE CloseUtility(c)
    <2>1. EUnlock \in Events
        BY Enumerations
    <2> QED BY <1>10, <2>1, ObservedTold DEF CloseUtility
<1>11. CASE \/ Begin(c) \/ EndShared(c) \/ CommitFails(c) \/ OpenStatement(c) \/ NextRow(c)
            \/ NextFails(c) \/ LastFails(c) \/ FlushFails(c) \/ OpenDDL(c) \/ DDLFails(c)
            \/ OpenUtility(c, "compact") \/ OpenUtility(c, "recover") \/ UtilityFails(c)
    BY <1>11 DEF Begin, EndShared, CommitFails, OpenStatement, NextRow, NextFails, LastFails,
                 FlushFails, OpenDDL, DDLFails, OpenUtility, UtilityFails
<1> QED BY <1>3, <1>4, <1>5, <1>6, <1>7, <1>8, <1>9, <1>10, <1>11 DEF ClientStep

\* The steps of the notifier's client.
LEMMA ObserverStepTold ==
    ASSUME Told(observer), ObserverStep PROVE Told(observer')
<1>1. /\ observer \in ObserverType /\ (observer.pending < 0 => observer.answer = NoAnswer)
      /\ (observer.behind => observer.answer > EUnlock \/ observer.pending > EUnlock)
    BY DEF Told
<1>2. /\ observer.pending \in -2 .. 4 /\ observer.answer \in -3 .. 4 /\ observer.behind \in BOOLEAN
      /\ 0 \in Events /\ EClose \in Events
    BY <1>1, ObserverFields, Enumerations
<1>3. ASSUME NEW type \in NotifyTypes, Notify(type) PROVE Told(observer')
    <2>1. /\ observer.pending >= 0 /\ observer.answer = NoAnswer
          /\ observer' =
               CASE observer.pending > EUnlock ->
                        [observer EXCEPT !.pending = 0, !.answer = observer.pending]
                 [] observer.pending <= EUnlock /\ observer.detached ->
                        [observer EXCEPT !.pending = 0, !.answer = EClose]
                 [] OTHER -> [observer EXCEPT !.pending = type]
        BY <1>3 DEF Notify
    <2>2. type \in {WaitUnlock, WaitChange} \cup Events /\ type < 0 /\ type \in -2 .. 4
        BY DbAssumption, Enumerations
    <2>3. observer.pending \in Events
        BY <1>2, <2>1, Enumerations
    <2>4. CASE observer.pending > EUnlock
        <3>1. ~(observer.pending <= EUnlock /\ observer.detached)
            BY <1>2, <2>4, Enumerations
        <3>2. observer' = [observer EXCEPT !.pending = 0, !.answer = observer.pending]
            BY <2>1, <2>4, <3>1
        <3>3. /\ observer' \in ObserverType /\ observer'.pending = 0
              /\ observer'.answer = observer.pending
            BY <1>1, <1>2, <2>3, <3>2 DEF ObserverType
        <3> QED BY <2>4, <3>3 DEF Told
    <2>5. CASE observer.pending <= EUnlock /\ observer.detached
        <3>1. ~(observer.pending > EUnlock)
            BY <1>2, <2>5, Enumerations
        <3>2. observer' = [observer EXCEPT !.pending = 0, !.answer = EClose]
            BY <2>1, <2>5, <3>1
        <3>3. /\ observer' \in ObserverType /\ observer'.pending = 0 /\ observer'.behind = observer.behind
            BY <1>1, <1>2, <3>2 DEF ObserverType
        <3>4. ~observer.behind
            BY <1>1, <2>1, <3>1, Enumerations
        <3> QED BY <3>3, <3>4 DEF Told
    <2>6. CASE ~(observer.pending > EUnlock) /\ ~(observer.pending <= EUnlock /\ observer.detached)
        <3>2. observer' = [observer EXCEPT !.pending = type]
            BY <2>1, <2>6
        <3>3. /\ observer' \in ObserverType /\ observer'.pending = type
              /\ observer'.answer = observer.answer /\ observer'.behind = observer.behind
            BY <1>1, <2>2, <3>2 DEF ObserverType
        <3>4. ~observer.behind
            BY <1>1, <2>1, <2>6, Enumerations
        <3> QED BY <2>1, <3>3, <3>4 DEF Told
    <2> QED BY <2>4, <2>5, <2>6
<1>4. CASE CancelNotify
    <2>1. observer.pending < 0 /\ observer' = [observer EXCEPT !.pending = 0, !.answer = KErrCancel]
        BY <1>4 DEF CancelNotify
    <2>2. /\ observer' \in ObserverType /\ observer'.pending = 0 /\ observer'.behind = observer.behind
        BY <1>1, <1>2, <2>1 DEF ObserverType
    <2>3. ~observer.behind
        BY <1>1, <1>2, <2>1, Enumerations
    <2> QED BY <2>2, <2>3 DEF Told
<1>5. CASE Handle
    <2> DEFINE b == observer.behind /\ observer.answer <= EUnlock
    <2>1. observer' = [observer EXCEPT !.answer = NoAnswer, !.behind = b]
        BY <1>1, <1>5 DEF Handle, ObserverType
    <2>2. b \in BOOLEAN /\ (b => observer.pending > EUnlock)
        BY <1>1, <1>2, Enumerations
    <2> HIDE DEF b
    <2>3. /\ observer' \in ObserverType /\ observer'.pending = observer.pending
          /\ observer'.answer = NoAnswer /\ observer'.behind = b
        BY <1>1, <2>1, <2>2 DEF ObserverType
    <2> QED BY <2>2, <2>3 DEF Told
<1> QED BY <1>3, <1>4, <1>5 DEF ObserverStep

\* A notifier on a database that is closed or opened again.
LEMMA ReopenTold ==
    ASSUME Told(observer), CloseDatabase \/ OpenDatabase PROVE Told(observer')
<1>1. CASE CloseDatabase
    <2> DEFINE q == Observed(observer, EClose, FALSE)
    <2>1. EClose \in Events
        BY Enumerations
    <2>2. Told(q)
        BY <2>1, ObservedTold
    <2>3. observer' = [q EXCEPT !.detached = TRUE]
        BY <1>1 DEF CloseDatabase
    <2> HIDE DEF q
    <2>4. q \in ObserverType
        BY <2>2 DEF Told
    <2>5. /\ observer' \in ObserverType /\ observer'.pending = q.pending
          /\ observer'.answer = q.answer /\ observer'.behind = q.behind
        BY <2>3, <2>4 DEF ObserverType
    <2> QED BY <2>2, <2>5 DEF Told
<1>2. CASE OpenDatabase
    <2>1. observer' = [pending |-> 0, answer |-> NoAnswer, behind |-> FALSE, detached |-> FALSE]
        BY <1>2 DEF OpenDatabase, NewObserver
    <2>2. 0 \in Events
        BY Enumerations
    <2> QED BY <2>1, <2>2 DEF Told, ObserverType
<1> QED BY <1>1, <1>2

\* The invariant of the notifier, for all behaviours.
LEMMA NotifierInductive == Spec => []Told(observer)
<1>1. Init => Told(observer)
    <2> SUFFICES ASSUME Init PROVE Told(observer)
        OBVIOUS
    <2>1. observer = [pending |-> 0, answer |-> NoAnswer, behind |-> FALSE, detached |-> FALSE]
        BY DEF Init, NewObserver
    <2>2. 0 \in Events
        BY Enumerations
    <2> QED BY <2>1, <2>2 DEF Told, ObserverType
<1>2. IInv /\ Told(observer) /\ [Next]_vars => Told(observer)'
    <2> SUFFICES ASSUME IInv, Told(observer), [Next]_vars PROVE Told(observer')
        OBVIOUS
    <2>1. CASE Next
        BY <2>1, CursorStepTold, ClientStepTold, ObserverStepTold, ReopenTold DEF Next
    <2>2. CASE UNCHANGED vars
        BY <2>2 DEF vars
    <2> QED BY <2>1, <2>2
<1> QED BY <1>1, <1>2, DbInductive, PTL DEF Spec

(***************************************************************************)
(* No commit is missed: a notifier's client that has not seen the latest   *)
(* one has an answer that tells it, or gets one with its next request.     *)
(***************************************************************************)
THEOREM CommitsAreTold == Spec => []ChangesAreTold
<1>1. Told(observer) => ChangesAreTold
    BY DEF Told, ChangesAreTold
<1> QED BY <1>1, NotifierInductive, PTL

(***************************************************************************)
(* Type correctness: the counts of updates and of reads, which the code    *)
(* decrements without asking, never go below zero.                         *)
(***************************************************************************)
THEOREM DbTypeCorrect == Spec => []TypeOK
<1>1. IInv /\ Told(observer) => TypeOK
    <2> SUFFICES ASSUME IInv, Told(observer) PROVE TypeOK
        OBVIOUS
    <2>1. /\ txn \in TxnType /\ cur \in CurType /\ inc \in IncType /\ begun \subseteq Clients
          /\ observer \in ObserverType
        BY Unpacked DEF Told
    <2>2. /\ txn.locks \in Seq([holder : Clients, isTxn : BOOLEAN, reads : Nat])
          /\ txn.updaters \in Nat /\ txn.working \in Content /\ txn.stable \in Content
        BY CountsAreNatural
    <2> DEFINE L == Seq([holder : Clients, isTxn : BOOLEAN, reads : Nat])
    <2> HIDE DEF L
    <2>3. txn \in [action : LockTypes, lockState : LockTypes, failed : BOOLEAN, locks : L,
                   maxLock : Nat, updaters : Nat, damaged : BOOLEAN, working : Content, stable : Content]
        BY <2>1, <2>2 DEF TxnType, L
    <2> QED BY <2>1, <2>3 DEF TypeOK, L, CurType, CursorType, IncType, ObserverType
<1> QED BY <1>1, DbInductive, NotifierInductive, PTL

=============================================================================
