------------------------------ MODULE CenRepStore ------------------------------
(***************************************************************************)
(* What a repository promises its clients, with no lock counters, no cache, *)
(* no files and no failures: a store of settings, and transactions that     *)
(* take effect all at once or not at all.  A transaction is active only as  *)
(* long as the store is what it was when the transaction began.             *)
(* LossyStoreSpec promises less: the store may at any time fall back to its *)
(* defaults, but still takes each transaction as a whole or not at all.     *)
(***************************************************************************)
CONSTANTS Session, Key, Value, Absent, Untouched,
          Default   \* the store as the ROM has it

VARIABLES store,   \* the value of each setting, or Absent
          txn,     \* the transaction of each session: its mode, "none" or "failed"
          writes   \* what it will write: a value, Absent (delete) or Untouched

storeVars == <<store, txn, writes>>

Modes == {"EReadTransaction", "EConcurrentReadWriteTransaction", "EReadWriteTransaction"}
NoWrites == [k \in Key |-> Untouched]
WriteSets == [Key -> Value \cup {Absent, Untouched}]

Running(s) == txn[s] \in Modes
Holders(modes) == {s \in Session : txn[s] \in modes}

StoreInit ==
    /\ store = Default
    /\ txn = [s \in Session |-> "none"]
    /\ writes = [s \in Session |-> NoWrites]

\* The transactions of S fail if they are running, those of D are over.
Finish(S, D) ==
    /\ txn' = [s \in Session |-> IF s \in D THEN "none"
                                 ELSE IF s \in S /\ Running(s) THEN "failed" ELSE txn[s]]
    /\ writes' = [s \in Session |-> IF s \in S \cup D THEN NoWrites ELSE writes[s]]

\* A reader shares the store with readers, an exclusive writer with neither;
\* a concurrent writer can always start.
Begin(s, md) ==
    /\ txn[s] = "none"
    /\ md = "EReadTransaction" => Holders({"EReadWriteTransaction"}) = {}
    /\ md = "EReadWriteTransaction" => Holders({"EReadTransaction", "EReadWriteTransaction"}) = {}
    /\ txn' = [txn EXCEPT ![s] = md]
    /\ UNCHANGED <<store, writes>>

\* A writer notes what it will write.  A reader that is alone becomes the
\* exclusive writer when it does.
Update(s) ==
    /\ Running(s)
    /\ writes'[s] \in WriteSets
    /\ writes' = [writes EXCEPT ![s] = writes'[s]]
    /\ txn' = IF txn[s] # "EReadTransaction" THEN txn
              ELSE [txn EXCEPT ![s] = "EReadWriteTransaction"]
    /\ txn[s] = "EReadTransaction" => Holders({"EReadTransaction"}) = {s}
    /\ UNCHANGED store

\* All writes of s take effect.  If they change the store, nobody else's
\* transaction survives.
Commit(s) ==
    /\ Running(s)
    /\ store' = [k \in Key |-> IF writes[s][k] = Untouched THEN store[k] ELSE writes[s][k]]
    /\ Finish(IF store' = store THEN {} ELSE Session, {s})

\* A write or reset outside transactions: again nobody's transaction survives.
Change ==
    /\ store' \in [Key -> Value \cup {Absent}]
    /\ Finish(Session, {})

\* Transactions fail or are given up, and the store stays as it is.
GiveUp == UNCHANGED store /\ \E S, D \in SUBSET Session : Finish(S, D)

StoreNext ==
    \/ \E s \in Session : Update(s) \/ Commit(s) \/ \E md \in Modes : Begin(s, md)
    \/ Change \/ GiveUp

StoreSpec == StoreInit /\ [][StoreNext]_storeVars

\* Everything written is lost.  Transactions may go on.
Lose == store' = Default /\ \E S \in SUBSET Session : Finish(S, {})

LossyStoreSpec == StoreInit /\ [][StoreNext \/ Lose]_storeVars
=============================================================================
