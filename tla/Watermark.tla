------------------------------ MODULE Watermark ------------------------------
(***************************************************************************)
(* class Watermark (src/src/transaction/watermark.h, watermark.cpp): the   *)
(* read timestamps of the running transactions and a lower bound of them.  *)
(*                                                                         *)
(* A watermark is a record with the three members of the class.            *)
(* current_reads_ counts how many transactions read at each timestamp; the *)
(* transaction manager hands every timestamp out once, so every count is 1 *)
(* and the map is the set of its keys.                                     *)
(*                                                                         *)
(* RemoveTxn is not protected by a lock of its own, and abort calls it     *)
(* without the lock that begin and commit hold.  It is therefore given in  *)
(* two halves, for a caller to take in two steps: it erases the timestamp  *)
(* and decides on the new watermark, then it stores that watermark.        *)
(***************************************************************************)
EXTENDS Integers, FiniteSets

\* What RemoveTxn decides to store when it leaves the watermark alone.
NoChange == -1

\* The least element of a non-empty set of numbers: current_reads_.begin(),
\* the first key of a std::map.
Lowest(S) == CHOOSE m \in S : \A n \in S : m <= n

\* The constructor.
NewWatermark(ts) == [commit_ts |-> ts, watermark |-> ts, current_reads |-> {}]

AddTxn(wm, read_ts) ==
    [wm EXCEPT !.current_reads = @ \cup {read_ts},
               !.watermark     = IF read_ts < @ THEN read_ts ELSE @]

\* RemoveTxn, first half: the timestamp leaves current_reads_ ...
EraseRead(wm, read_ts) == [wm EXCEPT !.current_reads = @ \ {read_ts}]

\* ... and this is the value RemoveTxn is about to store in watermark_.  The
\* mutant forgets the readers that are left.
RaiseToForgetful(wm, read_ts) ==
    IF read_ts = wm.watermark THEN wm.commit_ts ELSE NoChange

RaiseTo(wm, read_ts) ==
    LET rest == wm.current_reads \ {read_ts}
    IN  IF read_ts \in wm.current_reads /\ read_ts = wm.watermark
        THEN IF rest = {} THEN wm.commit_ts ELSE Lowest(rest)
        ELSE NoChange

\* RemoveTxn, second half: the store.  The mutant stores without the test.
StoreAlways(wm, value) == [wm EXCEPT !.watermark = value]

StoreWatermark(wm, value) ==
    IF value = NoChange THEN wm ELSE [wm EXCEPT !.watermark = value]

UpdateCommitTs(wm, ts) ==
    [wm EXCEPT !.commit_ts = ts,
               !.watermark = IF wm.current_reads = {} THEN ts ELSE @]
=============================================================================
