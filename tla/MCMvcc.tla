------------------------------- MODULE MCMvcc -------------------------------
(* Mvcc for TLC: all transactions but the one of CREATE TABLE are           *)
(* interchangeable.                                                         *)
EXTENDS Mvcc, TLC

Symmetry == Permutations(Txn \ {DdlTxn})
=============================================================================
