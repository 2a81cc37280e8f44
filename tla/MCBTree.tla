------------------------------ MODULE MCBTree ------------------------------
(* Values for TLC. *)
EXTENDS BTree

MCKey == 1..10
=============================================================================
