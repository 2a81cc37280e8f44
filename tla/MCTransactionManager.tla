------------------------ MODULE MCTransactionManager ------------------------
(* TransactionManager for TLC: transactions are interchangeable. *)
EXTENDS TransactionManager, TLC

Symmetry == Permutations(Txn)
=============================================================================
