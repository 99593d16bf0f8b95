--------------------------- MODULE CenRepRefinement ---------------------------
(* CenRepTransactions implements CenRepStore. *)
EXTENDS CenRepTransactions

CONSTANT Untouched   \* a key that a transaction does not write

ASSUME UntouchedAssumption == Untouched \notin Value \cup {Absent}

\* The abstract state: what the files hold, each session's transaction and
\* the values it is going to write.
TxnOf == [s \in Session |-> IF s \in failed THEN "failed"
                            ELSE IF InTransaction(s) THEN mode[s] ELSE "none"]
WritesOf == [s \in Session |-> [k \in Key |->
                IF pending[s][k] = Absent THEN Untouched
                ELSE IF pending[s][k].val = Deleted THEN Absent ELSE pending[s][k].val]]

Store == INSTANCE CenRepStore
             WITH store <- Content, txn <- TxnOf, writes <- WritesOf, Default <- Rom

\* Every behaviour of the server is one of the abstract store: a commit is all
\* or nothing whatever fails in it, no transaction outlives a change, and
\* loading, evicting and restoring the repository are invisible.
StoreRefinement == Store!StoreSpec

\* The same when loading fails and the persists file may be deleted: what the
\* repository holds is still the whole commits since the file was last lost,
\* never a part of one, whatever fails at which point.
LossyRefinement == Store!LossyStoreSpec


=============================================================================
