---------------------------- MODULE MCTransactions ----------------------------
(* Small instances of CenRepTransactions for TLC. *)
EXTENDS CenRepRefinement, TLC

CONSTANTS s1, s2, s3, v1, v2, w1

Sessions1 == {s1}
Sessions2 == {s1, s2}
Sessions3 == {s1, s2, s3}
Symmetry3 == Permutations(Sessions3)
Symmetry2 == Permutations(Sessions2)

Values1 == {v1}
Values2 == {v1, v2}
ValuesVW == {v1, w1}
Types == [v \in {v1, v2, w1} |-> IF v = w1 THEN "string" ELSE "int"]

\* One key that has a ROM value.
Keys1 == {1}
Rom1 == [k \in Keys1 |-> v1]

\* A key with and a key without a ROM value.
Keys2 == {1, 2}
Rom2 == [k \in Keys2 |-> IF k = 1 THEN v1 ELSE Absent]
Ranges2 == {{1, 2}}
Moves12 == {[k \in {1} |-> 2]}

NoPairs == {}
Denied21 == {<<s2, 1>>}
Normal == {"ENoBackupActivty"}
Restoring == {"ENoBackupActivty", "ERestoreInProgress"}
AllBur == {"ENoBackupActivty", "EBackupInProgress", "ERestoreInProgress"}
=============================================================================
