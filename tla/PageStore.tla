------------------------------ MODULE PageStore ------------------------------
(***************************************************************************)
(* What the buffer pool promises its callers: a page is one cell, whatever *)
(* frame it is in.  A caller that holds a page writes the cell, and nothing *)
(* else does.                                                              *)
(***************************************************************************)
EXTENDS Integers

CONSTANTS PageId,   \* pages of the open files
          Data,     \* contents of a page
          Zero,     \* the contents of a page nobody has written
          Gone,     \* the contents of a deleted page
          Client,   \* threads that use the pool
          NoPage    \* not a page

VARIABLES store,    \* store[p]: the contents of page p
          held      \* held[c]: the page that client c holds

vars == <<store, held>>

Init ==
    /\ store = [p \in PageId |-> Zero]
    /\ held = [c \in Client |-> NoPage]

Hold(c, p) ==
    /\ held[c] = NoPage /\ store[p] # Gone
    /\ held' = [held EXCEPT ![c] = p]
    /\ UNCHANGED store

Write(c, v) ==
    /\ held[c] # NoPage
    /\ store' = [store EXCEPT ![held[c]] = v]
    /\ UNCHANGED held

Release(c) ==
    /\ held' = [held EXCEPT ![c] = NoPage]
    /\ UNCHANGED store

Delete(p) ==
    /\ \A c \in Client : held[c] # p
    /\ store' = [store EXCEPT ![p] = Gone]
    /\ UNCHANGED held

Next ==
    \/ \E c \in Client : Release(c)
    \/ \E c \in Client, p \in PageId : Hold(c, p)
    \/ \E c \in Client, v \in Data : Write(c, v)
    \/ \E p \in PageId : Delete(p)

Spec == Init /\ [][Next]_vars
=============================================================================
