----------------------------- MODULE MCPermStore -----------------------------
(* Small instances of PermStore for TLC. *)
EXTENDS PermStore

CONSTANTS d1, d2

Just1 == {d1}
Just2 == {d2}
FirstStream == {<<1, 0>>}
SecondStream == {<<2, 0>>}
TwoData == {d1, d2}
=============================================================================
