---------------------------- MODULE MCBufferPool ----------------------------
(* Model values of the buffer pool. *)
EXTENDS BufferPool

Symmetry == Permutations(Client) \cup Permutations(Value)
=============================================================================
