--------------------------- MODULE DbTransaction ---------------------------
(***************************************************************************)
(* RDbTransaction, the lock and transaction state of one DBMS database     *)
(* (dbms/utable/UT_TRANS.CPP), with the objects that drive it: database    *)
(* handles (UT_DBS.CPP), cursors and their blob streams (UT_CURS.CPP,      *)
(* UT_BUF.CPP), incremental SQL statements (UT_DML.CPP), incremental       *)
(* schema changes and utilities (UT_INCR.CPP), the store below (US_DBS.CPP)*)
(* and one client notifier behind the server's observer (SD_SRC.CPP).      *)
(*                                                                         *)
(* A client is a CDbContext: all objects opened through one database       *)
(* handle share its lock.  One action is one call of a client; the server  *)
(* and the engine below it are single threaded.  A call the code answers   *)
(* with an error and no change of state, and one it panics the client for, *)
(* are not steps.                                                          *)
(***************************************************************************)
EXTENDS Integers, Sequences, FiniteSets

CONSTANTS
    Clients,                \* database handles (lock holders)
    Cursors,                \* rowset objects
    Owner,                  \* the client each cursor was opened by
    ELockListGranularity,   \* growth of the list of locks (4 in the code)
    EMaxLock,               \* its largest length (255 in the code)
    MaxReads,               \* bound: blob streams open at once on one cursor
    MaxOps,                 \* bound: operations in the content of the database
    NotifyTypes,            \* the kinds of notification the observer asks for
    Careless                \* which of the two calls below clients make

(***************************************************************************)
(* Careless holds "abandon" if clients close an unfinished statement whose *)
(* changes the close does not undo, "step" if they go on with a statement  *)
(* after another operation of theirs has failed.                           *)
(***************************************************************************)
ASSUME DbAssumption ==
    /\ Clients \cap Cursors = {}
    /\ IsFiniteSet(Clients) /\ IsFiniteSet(Cursors)
    /\ Owner \in [Cursors -> Clients]
    /\ ELockListGranularity \in Nat \ {0} /\ EMaxLock \in Nat
    /\ MaxReads \in Nat /\ MaxOps \in Nat
    /\ NotifyTypes \subseteq {-1, -2}
    /\ Careless \subseteq {"abandon", "step"}

VARIABLES
    txn,        \* RDbTransaction and the store it protects
    cur,        \* the cursors
    inc,        \* the incremental object of each client
    begun,      \* clients between Begin and Commit or Rollback
    observer    \* the client notifier and what its client knows

vars == <<txn, cur, inc, begun, observer>>

(***************************************************************************)
(* TDbLockType, ordered as in D32TABLE.H; RDbNotifier::TEvent and          *)
(* CDbNotifier::TType.                                                     *)
(***************************************************************************)
EDbReadLock == 0
EDbXReadLock == 1
EDbWriteLock == 2
EDbCompactLock == 3
EDbRecoveryLock == 4
EDbSchemaLock == 5
LockTypes == EDbReadLock .. EDbSchemaLock

EClose == 0
EUnlock == 1
ECommit == 2
ERollback == 3
ERecover == 4
Events == EClose .. ERecover
WaitUnlock == -1
WaitChange == -2
NoAnswer == -1
KErrCancel == -3

(***************************************************************************)
(* The content of the database: how many operations it reflects, who has   *)
(* an unfinished change in it (a cursor, or a client's statement), and the *)
(* blobs that were changed before the transaction was touched for them:    *)
(* those a cursor has copied for a row it inserts, and stray ones, whose   *)
(* row was never written.                                                  *)
(***************************************************************************)
Content == [done : 0 .. MaxOps, torn : SUBSET (Clients \cup Cursors),
            copied : SUBSET Cursors, stray : BOOLEAN]
Finished(w, x) == [w EXCEPT !.done = @ + 1, !.torn = @ \ {x}, !.copied = @ \ {x}]
Torn(w, x) == [w EXCEPT !.torn = @ \cup {x}]
OneRow(w, x) == [w EXCEPT !.done = @ + 1, !.torn = @ \cup {x}]
Copied(w, k) == [w EXCEPT !.copied = @ \cup {k}]
Strayed(w) == [w EXCEPT !.stray = TRUE]
LeftCopy(w, k) == [w EXCEPT !.copied = @ \ {k}, !.stray = @ \/ k \in w.copied]

\* What a transaction is about: the changes it was touched for.
Touched(w) == <<w.done, w.torn>>

(***************************************************************************)
(* TLock and the list of locks: iPrimary first, then iSharers.  The code   *)
(* packs the transaction bit and the count of reads into iState.           *)
(***************************************************************************)
Lock(c, isTxn, n) == [holder |-> c, isTxn |-> isTxn, reads |-> n]
Lockers(t) == {t.locks[i].holder : i \in 1 .. Len(t.locks)}
GetLock(t, c) == CHOOSE i \in 1 .. Len(t.locks) : t.locks[i].holder = c
InTransaction(t, c) == c \in Lockers(t) /\ t.locks[GetLock(t, c)].isTxn
Primary(t) == t.locks[1]

\* ReadyL: a failed transaction refuses everything but a rollback.
ReadyL(t) == ~t.failed

(***************************************************************************)
(* PrepareSLockL: a lock shared with others, if nobody has an exclusive    *)
(* one and the list has room or can be extended.                           *)
(***************************************************************************)
MayShare(t) ==
    Len(t.locks) > 0 =>
        /\ t.lockState = EDbReadLock /\ ~t.failed
        /\ Len(t.locks) = t.maxLock => t.maxLock + ELockListGranularity <= EMaxLock
Share(t, l) ==
    [t EXCEPT !.locks = Append(@, l),
              !.maxLock = IF Len(t.locks) = @ THEN @ + ELockListGranularity ELSE @]

\* A mistake: only the first lock of the list is looked at.
MayExcludeFirst(t, c) == Len(t.locks) > 0 => Primary(t).holder = c

\* PrepareXLockL: nobody else may hold a lock.
MayExclude(t, c) == Len(t.locks) > 0 => Len(t.locks) = 1 /\ Primary(t).holder = c
Exclude(t, c) == IF t.locks = <<>> THEN <<Lock(c, FALSE, 0)>> ELSE t.locks

\* A mistake: the last lock is dropped, whoever released his.
UnlockLast(t, i) == [t EXCEPT !.locks = SubSeq(@, 1, Len(@) - 1)]

\* Unlock(TLock&): the last lock of the list takes the place of the one released.
UnlockShared(t, i) ==
    LET n == Len(t.locks)
    IN  [t EXCEPT !.locks = [j \in 1 .. n - 1 |-> IF j = i THEN t.locks[n] ELSE t.locks[j]]]

\* Unlock(TEvent) on the state of the transaction.
Unlocked(t) ==
    [t EXCEPT !.action = EDbReadLock, !.lockState = EDbReadLock, !.failed = FALSE,
              !.locks = <<>>, !.updaters = 0]

(***************************************************************************)
(* CNotifier::Event, CDbsObserver::RunL and HObserver::Event.  The active  *)
(* object of the server's observer has a higher priority than the server,  *)
(* so that an event reaches the observers before the next request.         *)
(* behind: the client has not looked at the rows since they changed.       *)
(***************************************************************************)
Observed(o, e, changed) ==
    LET told == [o EXCEPT !.behind = @ \/ changed]
    IN  CASE o.pending >= 0 /\ e > o.pending -> [told EXCEPT !.pending = e]
          [] o.pending < 0 /\ ~(e = EUnlock /\ o.pending = WaitChange) ->
                [told EXCEPT !.pending = 0, !.answer = e]
          [] OTHER -> told

\* Unlock(TEvent): commits and rollbacks of less than a write lock are unlocks.
UnlockEvent(t, e) == IF t.lockState \in {EDbReadLock, EDbXReadLock} THEN EUnlock ELSE e

(***************************************************************************)
(* DoCommitL, after FlushL and SynchL have succeeded.  k are the cursors   *)
(* the calling handler leaves.  The store below is committed by a write    *)
(* lock or more.                                                           *)
(***************************************************************************)
Saved(t) ==
    [t EXCEPT !.stable = IF t.lockState >= EDbWriteLock THEN t.working ELSE @]
DoCommitL(t, k) ==
    /\ Primary(t).reads = 0             \* EDbStreamsPendingOnCommit
    /\ txn' = Unlocked(Saved(t))
    /\ cur' = k
    /\ observer' = Observed(observer, UnlockEvent(t, ECommit),
                            Touched(Saved(t).stable) # Touched(t.stable))

\* CDbTable::TValid: cursors notice a rollback, and the loss of their table.
Disconnected(k, all) ==
    [x \in Cursors |-> IF k[x].mode = "closed" \/ ~all THEN k[x]
                       ELSE [k[x] EXCEPT !.connected = FALSE]]
Abandoned(t, k) ==
    [x \in Cursors |-> IF k[x].mode = "closed" \/ t.lockState < EDbWriteLock THEN k[x]
                       ELSE [k[x] EXCEPT !.stale = TRUE]]

\* A mistake: only more than a write lock is undone.
RevertLess(t) ==
    IF t.lockState <= EDbWriteLock THEN {t}
    ELSE {[t EXCEPT !.working = t.stable, !.damaged = d] : d \in {t.damaged, TRUE}}

(***************************************************************************)
(* CDbStoreDatabase::Revert: undone from a write lock on; an index that    *)
(* was being written may be damaged by it.                                 *)
(***************************************************************************)
Revert(t) ==
    IF t.lockState < EDbWriteLock THEN {t}
    ELSE {[t EXCEPT !.working = t.stable, !.damaged = d] : d \in {t.damaged, TRUE}}

DoRollback(t, k) ==
    /\ Primary(t).reads = 0             \* EDbStreamsPendingOnRollback
    /\ \E r \in Revert(t) : txn' = Unlocked(r)
    /\ cur' = Disconnected(Abandoned(t, k), t.lockState = EDbSchemaLock)
    /\ observer' = Observed(observer, UnlockEvent(t, ERollback), FALSE)

----------------------------------------------------------------------------
(* Changes of rows. *)

\* DMLPrepareL.
DMLPrepareL(c) == MayExclude(txn, c) /\ txn.action <= EDbWriteLock

DMLBegin(t, c) ==
    [t EXCEPT !.action = IF @ = EDbReadLock THEN EDbWriteLock ELSE @,
              !.lockState = IF @ = EDbReadLock THEN EDbXReadLock ELSE @,
              !.updaters = @ + 1,
              !.locks = Exclude(t, c)]

\* DMLTouch: failed until DMLCommitL, in case the write does not complete.
DMLTouch(t) ==
    [t EXCEPT !.lockState = IF @ = EDbXReadLock THEN EDbWriteLock ELSE @, !.failed = TRUE]

\* A mistake: the action outlives the last update.
LessUpdaterKeeping(t) == [t EXCEPT !.updaters = @ - 1]

LessUpdater(t) ==
    [t EXCEPT !.action = IF t.updaters = 1 THEN EDbReadLock ELSE @, !.updaters = @ - 1]
LastUpdate(t) == t.updaters = 1 /\ ~Primary(t).isTxn

\* DMLCommitL, where the commit of an automatic transaction succeeds.
DMLCommitL(t, k) ==
    IF LastUpdate(t) THEN DoCommitL(t, k)
    ELSE /\ txn' = [LessUpdater(t) EXCEPT !.failed = FALSE]
         /\ cur' = k
         /\ UNCHANGED observer

DMLRollback(t, k) ==
    IF LastUpdate(t) THEN DoRollback(t, k)
    ELSE /\ txn' = LessUpdater(t)
         /\ cur' = k
         /\ UNCHANGED observer

----------------------------------------------------------------------------
(* Database handles: user transactions. *)

\* CInterface::Begin, BeginL.  A nested transaction is a panic.
Begin(c) ==
    /\ c \notin Lockers(txn) /\ ReadyL(txn) /\ MayShare(txn)
    /\ txn' = Share(txn, Lock(c, TRUE, 0))
    /\ begun' = begun \cup {c}
    /\ UNCHANGED <<cur, inc, observer>>

\* CommitL, Rollback and the destructor of the handle, while others hold a lock.
EndShared(c) ==
    /\ InTransaction(txn, c) /\ Len(txn.locks) > 1
    /\ txn.locks[GetLock(txn, c)].reads = 0
    /\ txn' = UnlockShared(txn, GetLock(txn, c))
    /\ begun' = begun \ {c}
    /\ UNCHANGED <<cur, inc, observer>>

\* CommitL of the last lock; updates must be complete.
Commit(c) ==
    /\ InTransaction(txn, c) /\ ReadyL(txn) /\ Len(txn.locks) = 1
    /\ txn.action = EDbReadLock         \* EDbUpdatesPendingOnCommit
    /\ DoCommitL(txn, cur)
    /\ begun' = begun \ {c}
    /\ UNCHANGED inc

\* FlushL or SynchL leaves: the client has to roll back.
CommitFails(c) ==
    /\ InTransaction(txn, c) /\ ReadyL(txn) /\ Len(txn.locks) = 1
    /\ txn.action = EDbReadLock /\ Primary(txn).reads = 0
    /\ txn.lockState >= EDbWriteLock
    /\ txn' = [txn EXCEPT !.failed = TRUE]
    /\ UNCHANGED <<cur, inc, begun, observer>>

Rollback(c) ==
    /\ InTransaction(txn, c) /\ Len(txn.locks) = 1
    /\ txn.action = EDbReadLock         \* EDbUpdatesPendingOnRollback
    /\ DoRollback(txn, cur)
    /\ begun' = begun \ {c}
    /\ UNCHANGED inc

----------------------------------------------------------------------------
(* Cursors. *)

Closed == [mode |-> "closed", dirty |-> FALSE, reads |-> 0, stale |-> FALSE, connected |-> FALSE]
CheckStateL(k) == cur[k].connected /\ ReadyL(txn) /\ ~cur[k].stale
NoStreams(k) == cur[k].reads = 0        \* EDbStreamOpen

\* DMLCheckL: rowsets open unless a schema change or a recovery is going on.
DMLCheckL == ReadyL(txn) /\ txn.action <= EDbCompactLock

OpenCursor(k) ==
    /\ cur[k].mode = "closed" /\ DMLCheckL
    /\ cur' = [cur EXCEPT ![k] = [Closed EXCEPT !.mode = "ready", !.connected = TRUE]]
    /\ UNCHANGED <<txn, inc, begun, observer>>

\* Reset: positioned afresh, after a rollback took its rows away.
Reset(k) ==
    /\ cur[k].mode = "ready" /\ NoStreams(k) /\ cur[k].connected /\ cur[k].stale
    /\ cur' = [cur EXCEPT ![k].stale = FALSE]
    /\ UNCHANGED <<txn, inc, begun, observer>>

(***************************************************************************)
(* InsertL and UpdateL.  InsertL(ECopy) duplicates the blobs of the row in *)
(* the store before DMLBegin, and does not make the cursor dirty for them. *)
(***************************************************************************)
BeginUpdate(k) ==
    /\ cur[k].mode = "ready" /\ NoStreams(k) /\ CheckStateL(k) /\ DMLPrepareL(Owner[k])
    /\ \E w \in {txn.working, Copied(txn.working, k)} :
          txn' = [DMLBegin(txn, Owner[k]) EXCEPT !.working = w]
    /\ cur' = [cur EXCEPT ![k].mode = "update"]
    /\ UNCHANGED <<inc, begun, observer>>

\* InsertL(ECopy) leaves after the blobs: the store has changed, and nothing else.
CopyFails(k) ==
    /\ cur[k].mode = "ready" /\ NoStreams(k) /\ CheckStateL(k) /\ DMLPrepareL(Owner[k])
    /\ txn' = [txn EXCEPT !.working = Strayed(@)]
    /\ UNCHANGED <<cur, inc, begun, observer>>

\* ColumnSinkL and SetNullL of a long column: the blobs change before the row.
WriteBlob(k) ==
    /\ cur[k].mode = "update" /\ NoStreams(k) /\ CheckStateL(k)
    /\ txn' = [txn EXCEPT !.working = Torn(@, k)]
    /\ cur' = [cur EXCEPT ![k].dirty = TRUE]
    /\ UNCHANGED <<inc, begun, observer>>

PutL(k) ==
    /\ cur[k].mode = "update" /\ NoStreams(k) /\ CheckStateL(k)
    /\ txn.working.done < MaxOps
    /\ DMLCommitL([DMLTouch(txn) EXCEPT !.working = Finished(@, k)],
                  [cur EXCEPT ![k].mode = "ready", ![k].dirty = FALSE])
    /\ UNCHANGED <<inc, begun>>

\* The row is written in part, or the commit of an automatic transaction fails.
PutFails(k) ==
    /\ cur[k].mode = "update" /\ NoStreams(k) /\ CheckStateL(k)
    /\ txn' = [DMLTouch(txn) EXCEPT !.working = Torn(@, k)]
    /\ cur' = [cur EXCEPT ![k].dirty = FALSE]
    /\ UNCHANGED <<inc, begun, observer>>

\* A mistake: changed blobs are forgotten.
CancelledClean(k, mode) ==
    IF cur[k].mode = "update"
    THEN DMLRollback([txn EXCEPT !.working = LeftCopy(@, k)],
                     [cur EXCEPT ![k] = IF mode = "closed" THEN Closed
                                        ELSE [@ EXCEPT !.mode = mode, !.dirty = FALSE]])
    ELSE /\ cur' = [cur EXCEPT ![k] = Closed]
         /\ UNCHANGED <<txn, observer>>

\* Cancel; blobs that were changed force a real rollback, the copies of a new row do not.
Cancelled(k, mode) ==
    IF cur[k].mode = "update"
    THEN LET t == [txn EXCEPT !.working = LeftCopy(@, k)]
         IN  DMLRollback(IF cur[k].dirty THEN DMLTouch(t) ELSE t,
                         [cur EXCEPT ![k] = IF mode = "closed" THEN Closed
                                            ELSE [@ EXCEPT !.mode = mode, !.dirty = FALSE]])
    ELSE /\ cur' = [cur EXCEPT ![k] = Closed]
         /\ UNCHANGED <<txn, observer>>
Cancel(k) ==
    /\ cur[k].mode = "update" /\ NoStreams(k)
    /\ Cancelled(k, "ready")
    /\ UNCHANGED <<inc, begun>>

CloseCursor(k) ==
    /\ cur[k].mode # "closed" /\ NoStreams(k)
    /\ Cancelled(k, "closed")
    /\ UNCHANGED <<inc, begun>>

\* DMLBeginLC, the change of one row by x, then DMLCommitL or DMLAbandon.
ChangeRow(c, x) ==
    /\ txn.working.done < MaxOps
    /\ DMLCommitL([DMLTouch(DMLBegin(txn, c)) EXCEPT !.working = Finished(@, x)], cur)
ChangeRowFails(c, x) ==
    DMLRollback([DMLTouch(DMLBegin(txn, c)) EXCEPT !.working = Torn(@, x)], cur)

DeleteL(k) ==
    /\ cur[k].mode = "ready" /\ NoStreams(k) /\ CheckStateL(k) /\ DMLPrepareL(Owner[k])
    /\ ChangeRow(Owner[k], k) \/ ChangeRowFails(Owner[k], k)
    /\ UNCHANGED <<inc, begun>>

(***************************************************************************)
(* ColumnSourceL of a large blob and the release of its stream.            *)
(* ReadPrepareL gives a lock to a client without one and refuses the       *)
(* client that is compacting.  A stream that cannot be opened is opened    *)
(* and released at once.                                                   *)
(***************************************************************************)
ReadBlob(k) ==
    LET c == Owner[k]
    IN  /\ cur[k].mode # "closed" /\ CheckStateL(k) /\ cur[k].reads < MaxReads
        /\ IF c \in Lockers(txn)
           THEN /\ txn.action # EDbCompactLock
                /\ txn' = [txn EXCEPT !.locks[GetLock(txn, c)].reads = @ + 1]
           ELSE /\ MayShare(txn)
                /\ txn' = Share(txn, Lock(c, FALSE, 1))
        /\ cur' = [cur EXCEPT ![k].reads = @ + 1]
        /\ UNCHANGED <<inc, begun, observer>>

\* ReleaseBlobSource, ReadRelease.
ReadRelease(k) ==
    LET i == GetLock(txn, Owner[k])
        t == [txn EXCEPT !.locks[i].reads = @ - 1]
        free == t.locks[i].reads = 0 /\ ~t.locks[i].isTxn
    IN  /\ cur[k].reads > 0
        /\ cur' = [cur EXCEPT ![k].reads = @ - 1]
        /\ CASE free /\ Len(t.locks) > 1 -> txn' = UnlockShared(t, i) /\ UNCHANGED observer
             [] free /\ Len(t.locks) = 1 /\ t.action = EDbReadLock ->
                    /\ txn' = Unlocked(t)
                    /\ observer' = Observed(observer, UnlockEvent(t, EUnlock), FALSE)
             [] OTHER -> txn' = t /\ UNCHANGED observer
        /\ UNCHANGED <<inc, begun>>

----------------------------------------------------------------------------
(* SQL statements that change rows. *)

NoInc == [kind |-> "none", failed |-> FALSE]
Inc(kind) == [kind |-> kind, failed |-> FALSE]
Running(c, kind) == inc[c] = Inc(kind)

\* OpenExecuteL of an INSERT: no incremental object.
InsertStatement(c) ==
    /\ DMLCheckL /\ DMLPrepareL(c)
    /\ ChangeRow(c, c) \/ ChangeRowFails(c, c)
    /\ inc[c] = NoInc
    /\ UNCHANGED <<inc, begun>>

\* OpenExecuteL of an UPDATE or DELETE, CDbIncrementalDML::NewL.
OpenStatement(c) ==
    /\ inc[c] = NoInc /\ DMLCheckL /\ DMLPrepareL(c)
    /\ txn' = DMLBegin(txn, c)
    /\ inc' = [inc EXCEPT ![c] = Inc("dml")]
    /\ UNCHANGED <<cur, begun, observer>>

\* NextL does not ask whether the transaction has failed since.
MayStep(c) == Running(c, "dml") /\ ("step" \notin Careless => ReadyL(txn))

\* NextL: one row, a complete update nested in the statement's own.
NextRow(c) ==
    /\ MayStep(c) /\ txn.working.done < MaxOps
    /\ txn' = [LessUpdater(DMLTouch(DMLBegin(txn, c))) EXCEPT
                 !.failed = FALSE, !.working = OneRow(@, c)]
    /\ UNCHANGED <<cur, inc, begun, observer>>

(***************************************************************************)
(* The row fails, or finding the next one does.  An UPDATE writes and      *)
(* deletes the blobs of the row before it begins the row's own update: if  *)
(* that, or PrepareToWriteRowL, leaves, they are changed and the           *)
(* transaction has neither failed nor a write lock for them.               *)
(***************************************************************************)
NextFails(c) ==
    /\ MayStep(c)
    /\ \/ txn' = [LessUpdater(DMLTouch(DMLBegin(txn, c))) EXCEPT !.working = Torn(@, c)]
       \/ UNCHANGED txn
       \/ txn' = [txn EXCEPT !.working = Strayed(@)]
    /\ inc' = [inc EXCEPT ![c].failed = TRUE]
    /\ UNCHANGED <<cur, begun, observer>>

\* There is no other row: the statement is complete.
NextLast(c) ==
    /\ MayStep(c)
    /\ DMLCommitL([DMLTouch(txn) EXCEPT !.working.torn = @ \ {c}], cur)
    /\ inc' = [inc EXCEPT ![c] = NoInc]
    /\ UNCHANGED begun

LastFails(c) ==
    /\ MayStep(c) /\ LastUpdate(txn)
    /\ txn' = DMLTouch(txn)
    /\ inc' = [inc EXCEPT ![c].failed = TRUE]
    /\ UNCHANGED <<cur, begun, observer>>

\* The destructor of a statement that is not complete.
CloseStatement(c) ==
    /\ inc[c].kind = "dml"
    /\ "abandon" \notin Careless /\ c \in txn.working.torn => ~ReadyL(txn) \/ LastUpdate(txn)
    /\ DMLRollback(txn, cur)
    /\ inc' = [inc EXCEPT ![c] = NoInc]
    /\ UNCHANGED begun

----------------------------------------------------------------------------
(* Changes of the schema. *)

\* A mistake: streams are not asked for.
MayChangeSchemaReading(c) ==
    ReadyL(txn) /\ MayExclude(txn, c) /\ txn.action = EDbReadLock

\* DDLPrepareL: sole owner of the database, no streams and no updates.
MayChangeSchema(c) ==
    /\ ReadyL(txn) /\ MayExclude(txn, c) /\ txn.action = EDbReadLock
    /\ Len(txn.locks) > 0 => Primary(txn).isTxn /\ Primary(txn).reads = 0

\* The rows changed so far in the transaction cannot be flushed.
FlushFails(c) ==
    /\ MayChangeSchema(c) /\ txn.lockState >= EDbWriteLock
    /\ txn' = [txn EXCEPT !.failed = TRUE]
    /\ UNCHANGED <<cur, inc, begun, observer>>

DDLBegin(t, c) ==
    [t EXCEPT !.action = EDbSchemaLock, !.lockState = EDbSchemaLock, !.locks = Exclude(t, c)]

\* DDLCommitL, where the commit of an automatic transaction succeeds.
DDLCommitL(t, k) ==
    IF Primary(t).isTxn
    THEN /\ txn' = [t EXCEPT !.action = EDbReadLock]
         /\ cur' = k
         /\ UNCHANGED observer
    ELSE DoCommitL(t, k)

DDLRollback(t, k) ==
    LET f == [t EXCEPT !.failed = TRUE]
    IN  IF Primary(t).isTxn
        THEN /\ txn' = [f EXCEPT !.action = EDbReadLock]
             /\ cur' = k
             /\ UNCHANGED observer
        ELSE DoRollback(f, k)

\* CreateTableL, in one step.
CreateTable(c) ==
    LET t == DDLBegin(txn, c)
    IN  /\ MayChangeSchema(c) /\ txn.working.done < MaxOps
        /\ \/ DDLCommitL([t EXCEPT !.working = Finished(@, c)], cur)
           \/ DDLRollback([t EXCEPT !.working = Torn(@, c)], cur)
        /\ inc[c] = NoInc
        /\ UNCHANGED <<inc, begun>>

\* OpenDropTableL, OpenAlterTableL, OpenCreateIndexL, OpenDropIndexL: the table is released.
OpenDDL(c) ==
    /\ inc[c] = NoInc /\ MayChangeSchema(c) /\ txn.working.done < MaxOps
    /\ txn' = [DDLBegin(txn, c) EXCEPT !.working = Torn(@, c)]
    /\ cur' = Disconnected(cur, TRUE)
    /\ inc' = [inc EXCEPT ![c] = Inc("ddl")]
    /\ UNCHANGED <<begun, observer>>

\* The last step, DoLastL.
DDLLast(c) ==
    /\ Running(c, "ddl")
    /\ DDLCommitL([txn EXCEPT !.working = Finished(@, c)], cur)
    /\ inc' = [inc EXCEPT ![c] = NoInc]
    /\ UNCHANGED begun

\* A step fails, or (failed) the commit of the last one.
DDLFails(c) ==
    /\ Running(c, "ddl")
    /\ \/ UNCHANGED txn
       \/ ~Primary(txn).isTxn /\ Primary(txn).reads = 0 /\ txn' = [txn EXCEPT !.failed = TRUE]
    /\ inc' = [inc EXCEPT ![c].failed = TRUE]
    /\ UNCHANGED <<cur, begun, observer>>

\* The destructor of a change that is not complete.
CloseDDL(c) ==
    /\ inc[c].kind = "ddl"
    /\ DDLRollback(txn, cur)
    /\ inc' = [inc EXCEPT ![c] = NoInc]
    /\ UNCHANGED begun

----------------------------------------------------------------------------
(* Utilities. *)

\* OpenUtilityL, UtilityPrepareL, UtilityBegin; recovery disconnects the tables.
OpenUtility(c, kind) ==
    /\ inc[c] = NoInc /\ ReadyL(txn) /\ txn.locks = <<>>
    /\ kind = "recover" => txn.damaged
    /\ LET l == IF kind = "recover" THEN EDbRecoveryLock ELSE EDbCompactLock
       IN  txn' = [txn EXCEPT !.action = l, !.lockState = l, !.locks = Exclude(txn, c)]
    /\ cur' = Disconnected(cur, kind = "recover")
    /\ inc' = [inc EXCEPT ![c] = Inc(kind)]
    /\ UNCHANGED <<begun, observer>>

UtilityFails(c) ==
    /\ Running(c, "compact") \/ Running(c, "recover")
    /\ inc' = [inc EXCEPT ![c].failed = TRUE]
    /\ UNCHANGED <<txn, cur, begun, observer>>

\* UtilityCommitL, once SynchL has succeeded.
UtilityLast(c) ==
    /\ Running(c, "compact") \/ Running(c, "recover")
    /\ txn' = Unlocked([Saved(txn) EXCEPT !.damaged = @ /\ inc[c].kind # "recover"])
    /\ observer' = Observed(observer, IF inc[c].kind = "recover" THEN ERecover ELSE EUnlock,
                            Touched(Saved(txn).stable) # Touched(txn.stable))
    /\ inc' = [inc EXCEPT ![c] = NoInc]
    /\ UNCHANGED <<cur, begun>>

\* UtilityRollback, by the destructor.
CloseUtility(c) ==
    /\ inc[c].kind \in {"compact", "recover"}
    /\ \E r \in Revert(txn) : txn' = Unlocked(r)
    /\ observer' = Observed(observer, EUnlock, FALSE)
    /\ inc' = [inc EXCEPT ![c] = NoInc]
    /\ UNCHANGED <<cur, begun>>

----------------------------------------------------------------------------
(* The client notifier. *)

\* A mistake: what happened since the last answer is dropped.
NotifyAnew(type) ==
    /\ observer.pending >= 0 /\ observer.answer = NoAnswer
    /\ observer' = [observer EXCEPT !.pending = type]
    /\ UNCHANGED <<txn, cur, inc, begun>>

\* HObserver::Notify: an event that was missed is reported first.
Notify(type) ==
    /\ observer.pending >= 0 /\ observer.answer = NoAnswer
    /\ observer' =
         CASE observer.pending > EUnlock -> [observer EXCEPT !.pending = 0, !.answer = observer.pending]
           [] observer.pending <= EUnlock /\ observer.detached -> [observer EXCEPT !.pending = 0, !.answer = EClose]
           [] OTHER -> [observer EXCEPT !.pending = type]
    /\ UNCHANGED <<txn, cur, inc, begun>>

CancelNotify ==
    /\ observer.pending < 0
    /\ observer' = [observer EXCEPT !.pending = 0, !.answer = KErrCancel]
    /\ UNCHANGED <<txn, cur, inc, begun>>

\* The client takes the answer and looks at the database if it has changed.
Handle ==
    /\ observer.answer # NoAnswer
    /\ observer' = [observer EXCEPT !.answer = NoAnswer, !.behind = @ /\ observer.answer <= EUnlock]
    /\ UNCHANGED <<txn, cur, inc, begun>>

\* RDbTransaction::Close, when the last object on the database goes; the store is not committed.
CloseDatabase ==
    /\ txn.locks = <<>> /\ ~observer.detached
    /\ \A k \in Cursors : cur[k].mode = "closed"
    /\ observer' = [Observed(observer, EClose, FALSE) EXCEPT !.detached = TRUE]
    /\ txn' = [txn EXCEPT !.maxLock = 1, !.working = txn.stable]
    /\ UNCHANGED <<cur, inc, begun>>

\* The client opens the database, and a notifier on it, again.
NewObserver == [pending |-> 0, answer |-> NoAnswer, behind |-> FALSE, detached |-> FALSE]
OpenDatabase ==
    /\ observer.detached /\ observer.answer = NoAnswer
    /\ observer' = NewObserver
    /\ UNCHANGED <<txn, cur, inc, begun>>

----------------------------------------------------------------------------
Empty == [done |-> 0, torn |-> {}, copied |-> {}, stray |-> FALSE]
Init ==
    /\ txn = [action |-> EDbReadLock, lockState |-> EDbReadLock, failed |-> FALSE,
              locks |-> <<>>, maxLock |-> 1, updaters |-> 0, damaged |-> FALSE,
              working |-> Empty, stable |-> Empty]
    /\ cur = [k \in Cursors |-> Closed]
    /\ inc = [c \in Clients |-> NoInc]
    /\ begun = {}
    /\ observer = NewObserver

CursorStep(k) ==
    \/ OpenCursor(k) \/ Reset(k) \/ BeginUpdate(k) \/ CopyFails(k) \/ WriteBlob(k)
    \/ PutL(k) \/ PutFails(k) \/ Cancel(k) \/ CloseCursor(k) \/ DeleteL(k) \/ ReadBlob(k) \/ ReadRelease(k)

ClientStep(c) ==
    \/ Begin(c) \/ EndShared(c) \/ Commit(c) \/ CommitFails(c) \/ Rollback(c)
    \/ InsertStatement(c) \/ OpenStatement(c) \/ NextRow(c) \/ NextFails(c)
    \/ NextLast(c) \/ LastFails(c) \/ CloseStatement(c)
    \/ FlushFails(c) \/ CreateTable(c) \/ OpenDDL(c) \/ DDLLast(c) \/ DDLFails(c) \/ CloseDDL(c)
    \/ OpenUtility(c, "compact") \/ OpenUtility(c, "recover")
    \/ UtilityFails(c) \/ UtilityLast(c) \/ CloseUtility(c)

ObserverStep == (\E type \in NotifyTypes : Notify(type)) \/ CancelNotify \/ Handle

Next ==
    \/ ~observer.detached /\ ((\E k \in Cursors : CursorStep(k)) \/ \E c \in Clients : ClientStep(c))
    \/ ObserverStep
    \/ CloseDatabase
    \/ OpenDatabase

Spec == Init /\ [][Next]_vars

----------------------------------------------------------------------------
(***************************************************************************)
(* The types of the state.  In particular the count of updaters and the    *)
(* counts of reads, which the code decrements without asking, stay natural *)
(* numbers.                                                                *)
(***************************************************************************)
TypeOK ==
    /\ txn \in [action : LockTypes, lockState : LockTypes, failed : BOOLEAN,
                locks : Seq([holder : Clients, isTxn : BOOLEAN, reads : Nat]),
                maxLock : Nat, updaters : Nat, damaged : BOOLEAN,
                working : Content, stable : Content]
    /\ cur \in [Cursors -> [mode : {"closed", "ready", "update"}, dirty : BOOLEAN,
                            reads : 0 .. MaxReads, stale : BOOLEAN, connected : BOOLEAN]]
    /\ inc \in [Clients -> [kind : {"none", "dml", "ddl", "compact", "recover"}, failed : BOOLEAN]]
    /\ begun \subseteq Clients
    /\ observer \in [pending : {WaitUnlock, WaitChange} \cup Events,
                     answer : {NoAnswer, KErrCancel} \cup Events,
                     behind : BOOLEAN, detached : BOOLEAN]

(***************************************************************************)
(* RDbTransaction::_Invariant, which debug builds evaluate around every    *)
(* call: an exclusive kind of lock has one holder, what is going on fits   *)
(* the lock, and a lock that outlives the operation that took it belongs   *)
(* to a user transaction.                                                  *)
(***************************************************************************)
LockInvariant ==
    LET t == txn
        inTransaction == Primary(t).isTxn
    IN  IF t.locks = <<>>
        THEN t.lockState = EDbReadLock /\ t.action = EDbReadLock /\ t.updaters = 0
        ELSE CASE t.lockState = EDbReadLock ->
                    /\ t.action = EDbReadLock /\ t.updaters = 0
                    /\ Len(t.locks) <= t.maxLock
                    /\ \A i \in 1 .. Len(t.locks) : t.locks[i].isTxn \/ t.locks[i].reads > 0
               [] t.lockState \in {EDbCompactLock, EDbRecoveryLock} ->
                    /\ t.action = t.lockState /\ Len(t.locks) = 1 /\ t.updaters = 0
                    /\ ~inTransaction /\ Primary(t).reads = 0
               [] t.lockState = EDbXReadLock ->
                    /\ Len(t.locks) = 1
                    /\ \/ t.action = EDbReadLock /\ t.updaters = 0 /\ inTransaction
                       \/ t.action = EDbWriteLock /\ t.updaters > 0
               [] OTHER ->
                    /\ Len(t.locks) = 1
                    /\ \/ t.action = EDbReadLock /\ t.updaters = 0 /\ inTransaction
                       \/ /\ t.action = EDbWriteLock /\ t.updaters > 0
                          /\ t.lockState = EDbWriteLock \/ inTransaction
                       \/ t.action = EDbSchemaLock /\ t.lockState = EDbSchemaLock /\ t.updaters = 0

(***************************************************************************)
(* No lock is leaked or released early: a client holds one lock exactly    *)
(* while it is in a transaction or has an object at work (a stream, an     *)
(* update, an incremental operation), and the counts in the lock list are  *)
(* those of the objects.                                                   *)
(***************************************************************************)
Streams(c) == {s \in Cursors \X (1 .. MaxReads) : Owner[s[1]] = c /\ s[2] <= cur[s[1]].reads}
Updating(c) == {k \in Cursors : Owner[k] = c /\ cur[k].mode = "update"}
AtWork(c) == c \in begun \/ Streams(c) # {} \/ Updating(c) # {} \/ inc[c].kind # "none"
LocksAreObjects ==
    /\ Lockers(txn) = {c \in Clients : AtWork(c)}
    /\ Len(txn.locks) = Cardinality(Lockers(txn))
    /\ \A i \in 1 .. Len(txn.locks) :
          /\ txn.locks[i].isTxn = (txn.locks[i].holder \in begun)
          /\ txn.locks[i].reads = Cardinality(Streams(txn.locks[i].holder))
    /\ txn.updaters = Cardinality(UNION {Updating(c) : c \in Clients})
                      + Cardinality({c \in Clients : inc[c].kind = "dml"})

(***************************************************************************)
(* What is committed never holds a part of a change the transaction was    *)
(* touched for: an update, a statement or a change of the schema that      *)
(* fails, or is given up, is not committed with the transaction around it, *)
(* nor the copies of blobs for a row before it is put.  Stray blobs, which *)
(* the code changes too early, are not in it: they may be committed.       *)
(***************************************************************************)
CommittedWhole == txn.stable.torn = {} /\ txn.stable.copied = {}

(***************************************************************************)
(* Changes that are not committed are always under the exclusive lock of   *)
(* the client making them, so that a rollback undoes them: nothing but     *)
(* stray blobs is left over in the store once the database is unlocked or  *)
(* only read.  Blobs that cursors have changed or copied are under an      *)
(* update's lock at least.                                                 *)
(***************************************************************************)
UnsavedIsLocked ==
    /\ Touched(txn.working) # Touched(txn.stable) =>
          \/ txn.lockState >= EDbWriteLock
          \/ \E k \in Cursors : cur[k].mode = "update" /\ cur[k].dirty
    /\ \A k \in txn.working.copied : cur[k].mode = "update" /\ txn.lockState >= EDbXReadLock

(***************************************************************************)
(* A cursor with an update or a stream is connected to its table: Cancel   *)
(* and the release of the stream reach the transaction through it.         *)
(***************************************************************************)
BusyIsConnected ==
    \A k \in Cursors : cur[k].mode = "update" \/ cur[k].reads > 0 => cur[k].connected

(***************************************************************************)
(* A notifier's client that has not seen the latest commit will be told:   *)
(* it has the answer, or its next request is answered at once.             *)
(***************************************************************************)
ChangesAreTold ==
    observer.behind => observer.answer > EUnlock \/ observer.pending > EUnlock

(***************************************************************************)
(* What the holder of a lock reads is changed by nobody else: a change of  *)
(* the content is made by the only holder, and a commit or rollback too.   *)
(***************************************************************************)
Isolation ==
    [][txn'.working # txn.working \/ txn'.stable # txn.stable =>
          Cardinality(Lockers(txn) \cup Lockers(txn')) <= 1]_vars

=============================================================================
