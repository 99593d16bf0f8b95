------------------------------- MODULE MCCache -------------------------------
(* Small instances of CenRepCache for TLC. *)
EXTENDS CenRepCache

CONSTANTS r1, r2, r3

Repos3 == {r1, r2, r3}

\* Two of the small ones fit into a cache of size 4; the large one, whose
\* clients use transactions, fits only alone.
Sizes == [r \in Repos3 |-> IF r = r3 THEN 3 ELSE 2]
=============================================================================
