-------------------------- MODULE MCDbTransaction --------------------------
(* Database handles on one database; the first has a cursor. *)
EXTENDS DbTransaction, TLC

CONSTANTS c1, c2, c3, k1

JustChange == {WaitChange}
OwnerOf == [k \in Cursors |-> c1]
OtherHandles == Permutations(Clients \ {c1}) 
Handles == {c1 :> c1 @@ p : p \in OtherHandles}
=============================================================================
