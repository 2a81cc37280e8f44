------------------------------- MODULE RmFile -------------------------------
(***************************************************************************)
(* RmFileHandle, RmScan and Bitmap (src/src/record/): the pages of the     *)
(* file of one table, with the callers that the executors and the rollback *)
(* of a transaction are, a sequential scan, and a server that is killed    *)
(* and started again.                                                      *)
(*                                                                         *)
(* Row contents are numbers given out in the order of the INSERTs.  A page *)
(* changes in one step; between the choice of a slot and the write of the  *)
(* row the log is forced, and other sessions run.                          *)
(***************************************************************************)
EXTENDS Integers, FiniteSets, FiniteSetsExt

CONSTANTS Session,          \* the threads that write the table
          SlotsPerPage,     \* num_records_per_page
          MaxPages,         \* bound: pages of the file
          MaxRows,          \* bound: INSERTs
          MaxRollbacks,     \* bound: rolled back DELETEs
          MaxKills          \* bound: kills of the server

ASSUME SlotsAssumption == SlotsPerPage \in Nat \ {0}
ASSUME BoundAssumption ==
    {MaxPages, MaxRows, MaxRollbacks, MaxKills} \subseteq Nat /\ IsFiniteSet(Session)

VARIABLES
    hdr,        \* RmFileHdr of the open file
    page,       \* the pages, as the buffer pool has them
    disk,       \* the header and the pages in the file
    session,    \* what each thread is doing
    scan,       \* the cursor of a sequential scan
    told,       \* ghost: the rows that were reported as inserted, and where
    count,      \* ghost: INSERTs, rolled back DELETEs, kills and lost rows
    shared,     \* ghost: the slots that two INSERTs had at the same time
    spare       \* ghost: the pages that a rolled back DELETE made

vars == <<hdr, page, disk, session, scan, told, count, shared, spare>>

NoPage == -2                \* RM_NO_PAGE
Slot == 0..(SlotsPerPage - 1)
NoRow == 0
Idle == [op |-> "idle"]

\* A page that was never written is read as zeros.
EmptyPage(next) ==
    [num |-> 0, next |-> next, bits |-> {}, row |-> [s \in Slot |-> NoRow], pins |-> 0]

NoScan == [page_no |-> NoPage, slot_no |-> -1, seen |-> {}, must |-> {}, over |-> FALSE]

\* RmManager::create_file: a header and no pages.
Init ==
    /\ hdr = [num_pages |-> 1, first_free |-> NoPage]
    /\ page = <<>>
    /\ disk = [hdr |-> hdr, page |-> <<>>]
    /\ session = [t \in Session |-> Idle]
    /\ scan = NoScan
    /\ told = {}
    /\ count = [rows |-> 0, rollbacks |-> 0, kills |-> 0, lost |-> 0]
    /\ shared = {}
    /\ spare = {}

-----------------------------------------------------------------------------
(***************************************************************************)
(* Bitmap.                                                                 *)
(***************************************************************************)
\* The first slot after start whose bit has the value, or SlotsPerPage.
next_bit(value, bits, start) ==
    Min({i \in Slot : i > start /\ (i \in bits) = value} \cup {SlotsPerPage})

first_bit(value, bits) == next_bit(value, bits, -1)

-----------------------------------------------------------------------------
(***************************************************************************)
(* RmFileHandle.  F is the header and the pages; its disk part is only the *)
(* header, which some operations write through.                            *)
(***************************************************************************)
File == [hdr |-> hdr, page |-> page, dhdr |-> disk.hdr]

Becomes(F) ==
    /\ hdr' = F.hdr
    /\ page' = F.page
    /\ disk' = [disk EXCEPT !.hdr = F.dhdr]

\* Mutant: the header is not written.
create_unwritten(F) ==
    LET p == F.hdr.num_pages
    IN  [hdr |-> [num_pages |-> p + 1, first_free |-> p], dhdr |-> F.dhdr,
         page |-> [q \in 1..p |-> IF q = p THEN [EmptyPage(F.hdr.first_free) EXCEPT !.pins = 1]
                                ELSE F.page[q]]]

\* The new page is pinned, is the first free one, and the header is written.
create_new_page_handle(F) ==
    LET p == F.hdr.num_pages
        h == [num_pages |-> p + 1, first_free |-> p]
    IN  [hdr |-> h, dhdr |-> h,
         page |-> [q \in 1..p |-> IF q = p THEN [EmptyPage(F.hdr.first_free) EXCEPT !.pins = 1]
                                ELSE F.page[q]]]

\* fetch_page_handle refuses the page of the header.
HasFree(F) == F.hdr.first_free >= 1 /\ F.hdr.first_free < F.hdr.num_pages

fetch_page_handle(F, p) == [F EXCEPT !.page[p].pins = @ + 1]

create_page_handle(F) ==
    IF HasFree(F) THEN fetch_page_handle(F, F.hdr.first_free) ELSE create_new_page_handle(F)

unpin_page(F, p) == [F EXCEPT !.page[p].pins = @ - 1]

\* Mutants: the bit of the record is not set; the last slot is used before the page
\* is full.
FilledUnset(F, p, s, row, next) ==
    LET r == [F.page[p] EXCEPT !.num = @ + 1, !.row[s] = row]
    IN  [F EXCEPT !.page[p] = r,
                  !.hdr.first_free = IF r.num = SlotsPerPage THEN next ELSE @]

FilledLate(F, p, s, row, next) ==
    LET r == [F.page[p] EXCEPT !.num = @ + 1, !.bits = @ \cup {s}, !.row[s] = row]
    IN  [F EXCEPT !.page[p] = r,
                  !.hdr.first_free = IF r.num > SlotsPerPage THEN next ELSE @]

\* The row is written, its bit set, and a page that is full is no longer free.
Filled(F, p, s, row, next) ==
    LET r == [F.page[p] EXCEPT !.num = @ + 1, !.bits = @ \cup {s}, !.row[s] = row]
    IN  [F EXCEPT !.page[p] = r,
                  !.hdr.first_free = IF r.num = SlotsPerPage THEN next ELSE @]

\* The page becomes the first free one, whether or not it is one already.
release_page_handle(F, p) ==
    LET h == [F.hdr EXCEPT !.first_free = p]
    IN  [F EXCEPT !.page[p].next = F.hdr.first_free, !.hdr = h, !.dhdr = h]

\* Out of the slot, the bitmap and the count.  A slot that is not set is left,
\* and the page stays pinned.
Erased(F, p, s) ==
    LET r == [F.page[p] EXCEPT !.num = @ - 1, !.bits = @ \ {s}, !.row[s] = NoRow]
        E == [F EXCEPT !.page[p] = r]
    IN  IF s \notin F.page[p].bits THEN F
        ELSE unpin_page(IF r.num < SlotsPerPage THEN release_page_handle(E, p) ELSE E, p)

-----------------------------------------------------------------------------
(***************************************************************************)
(* The callers.                                                            *)
(***************************************************************************)
\* The threads whose INSERT has this slot.
Holding(rid) == {t \in Session : session[t] # Idle /\ session[t].rid = rid}

\* insert_record, to the log record: a page is pinned and a slot chosen.  When
\* the page has none, the INSERT is told an invalid Rid and takes it for one.
InsertChoose(t) ==
    LET F   == create_page_handle(File)
        p   == IF HasFree(File) THEN hdr.first_free ELSE hdr.num_pages
        s   == first_bit(FALSE, F.page[p].bits)
        row == count.rows + 1
    IN  /\ session[t] = Idle
        /\ count.rows < MaxRows
        /\ HasFree(File) \/ hdr.num_pages <= MaxPages
        /\ IF s = SlotsPerPage
           THEN /\ Becomes(unpin_page(F, p))
                /\ count' = [count EXCEPT !.rows = row, !.lost = @ + 1]
                /\ UNCHANGED <<session, shared>>
           ELSE /\ Becomes(F)
                /\ session' = [session EXCEPT ![t] = [op |-> "insert", rid |-> <<p, s>>, row |-> row]]
                /\ count' = [count EXCEPT !.rows = row]
                /\ shared' = shared \cup {session[u].rid : u \in Holding(<<p, s>>)}
        /\ UNCHANGED <<scan, told, spare>>

\* Mutant: the page is not unpinned.
InsertWritePinned(t) ==
    /\ session[t].op = "insert"
    /\ Becomes(Filled(File, session[t].rid[1], session[t].rid[2], session[t].row, NoPage))
    /\ session' = [session EXCEPT ![t].op = "index"]
    /\ UNCHANGED <<scan, told, count, shared, spare>>

\* insert_record, after it.
InsertWrite(t) ==
    LET p == session[t].rid[1]
        s == session[t].rid[2]
    IN  /\ session[t].op = "insert"
        /\ Becomes(unpin_page(Filled(File, p, s, session[t].row, NoPage), p))
        /\ session' = [session EXCEPT ![t].op = "index"]
        /\ UNCHANGED <<scan, told, count, shared, spare>>

\* InsertExecutor: the entries of the indexes, and the end of the statement.
InsertDone(t) ==
    /\ session[t].op = "index"
    /\ told' = told \cup {<<session[t].row, session[t].rid>>}
    /\ session' = [session EXCEPT ![t] = Idle]
    /\ UNCHANGED <<hdr, page, disk, scan, count, shared, spare>>

\* A unique index refuses the row, which is taken out again (delete_record).
InsertRefused(t) ==
    LET p == session[t].rid[1]
        s == session[t].rid[2]
    IN  /\ session[t].op = "index"
        /\ Becomes(Erased(fetch_page_handle(File, p), p, s))
        /\ session' = [session EXCEPT ![t] = Idle]
        /\ scan' = [scan EXCEPT !.must = @ \ {<<p, s>>}]
        /\ UNCHANGED <<told, count, shared, spare>>

\* update_record: what UPDATE, DELETE (a tombstone), the rollback of an UPDATE and
\* the stamp of a commit do.  The row is still that row.
update_record(t, entry) ==
    LET p == entry[2][1]
        s == entry[2][2]
    IN  /\ session[t] = Idle
        /\ Becomes(unpin_page([fetch_page_handle(File, p) EXCEPT !.page[p].row[s] = entry[1]], p))
        /\ UNCHANGED <<session, scan, told, count, shared, spare>>

\* insert_record(rid), for a DELETE that is rolled back: the slot of the tombstone
\* is set already.  The page made first is never used and stays pinned.
RollbackDelete(t, entry) ==
    LET p == entry[2][1]
        s == entry[2][2]
        F == fetch_page_handle(create_new_page_handle(File), p)
    IN  /\ session[t] = Idle
        /\ hdr.num_pages <= MaxPages
        /\ count.rollbacks < MaxRollbacks
        /\ Becomes(unpin_page(Filled(F, p, s, entry[1], F.page[p].next), p))
        /\ count' = [count EXCEPT !.rollbacks = @ + 1]
        /\ spare' = spare \cup {hdr.num_pages}
        /\ UNCHANGED <<session, scan, told, shared>>

-----------------------------------------------------------------------------
(***************************************************************************)
(* RmScan.                                                                 *)
(***************************************************************************)
Occupied == UNION {{<<p, s>> : s \in page[p].bits} : p \in DOMAIN page}

ScanStart ==
    /\ scan = NoScan
    /\ scan' = [NoScan EXCEPT !.page_no = 1, !.must = Occupied]
    /\ UNCHANGED <<hdr, page, disk, session, told, count, shared, spare>>

\* Mutant: the slot is not reset for the next page.
ScanNextKeepsSlot ==
    LET p == scan.page_no
        s == next_bit(TRUE, page[p].bits, scan.slot_no)
    IN  /\ scan # NoScan /\ ~scan.over
        /\ scan' = IF p >= hdr.num_pages THEN [scan EXCEPT !.over = TRUE]
                   ELSE IF s < SlotsPerPage
                   THEN [scan EXCEPT !.slot_no = s, !.seen = @ \cup {<<p, s>>}]
                   ELSE [scan EXCEPT !.page_no = p + 1]
        /\ UNCHANGED <<hdr, page, disk, session, told, count, shared, spare>>

\* next, one page of its loop.
ScanNext ==
    LET p == scan.page_no
        s == next_bit(TRUE, page[p].bits, scan.slot_no)
    IN  /\ scan # NoScan /\ ~scan.over
        /\ scan' = IF p >= hdr.num_pages THEN [scan EXCEPT !.over = TRUE]
                   ELSE IF s < SlotsPerPage
                   THEN [scan EXCEPT !.slot_no = s, !.seen = @ \cup {<<p, s>>}]
                   ELSE [scan EXCEPT !.page_no = p + 1, !.slot_no = -1]
        /\ UNCHANGED <<hdr, page, disk, session, told, count, shared, spare>>

ScanClose ==
    /\ scan.over
    /\ scan' = NoScan
    /\ UNCHANGED <<hdr, page, disk, session, told, count, shared, spare>>

-----------------------------------------------------------------------------
(***************************************************************************)
(* The file.                                                               *)
(***************************************************************************)
\* The buffer pool writes a page.
WritePage(p) ==
    /\ disk' = [disk EXCEPT !.page = [q \in DOMAIN @ \cup {p} |-> IF q = p THEN page[p] ELSE @[q]]]
    /\ disk' # disk
    /\ UNCHANGED <<hdr, page, session, scan, told, count, shared, spare>>

\* RmManager::close_file, of a server that is stopped, and open_file.
CloseFile ==
    /\ \A t \in Session : session[t] = Idle
    /\ scan = NoScan
    /\ disk' = [hdr |-> hdr, page |-> page]
    /\ disk' # disk
    /\ page' = [p \in DOMAIN page |-> [page[p] EXCEPT !.pins = 0]]
    /\ spare' = {}
    /\ UNCHANGED <<hdr, session, scan, told, count, shared>>

\* A kill: what is in the file is read again.
Kill ==
    /\ count.kills < MaxKills
    /\ hdr' = disk.hdr
    /\ page' = [p \in 1..(disk.hdr.num_pages - 1) |->
                   IF p \in DOMAIN disk.page THEN [disk.page[p] EXCEPT !.pins = 0]
                   ELSE EmptyPage(0)]
    /\ session' = [t \in Session |-> Idle]
    /\ scan' = NoScan
    /\ told' = {}
    /\ shared' = {} /\ spare' = {}
    /\ count' = [count EXCEPT !.kills = @ + 1]
    /\ UNCHANGED disk

Next ==
    \/ \E t \in Session :
           \/ InsertChoose(t) \/ InsertWrite(t) \/ InsertDone(t) \/ InsertRefused(t)
           \/ \E entry \in told : update_record(t, entry) \/ RollbackDelete(t, entry)
    \/ ScanStart \/ ScanNext \/ ScanClose
    \/ \E p \in DOMAIN page : WritePage(p)
    \/ CloseFile
    \/ Kill

Spec == Init /\ [][Next]_vars

-----------------------------------------------------------------------------
(***************************************************************************)
(* Properties.                                                             *)
(***************************************************************************)
\* Type invariant.
RmTypeOK ==
    /\ DOMAIN page = 1..(hdr.num_pages - 1)
    /\ hdr.first_free \in {NoPage} \cup 0..MaxPages
    /\ \A p \in DOMAIN page : page[p].bits \subseteq Slot /\ page[p].pins >= 0

\* get_records_num never says less than the bitmaps do: a page that is taken for
\* full may have room, a page that is full is never taken for one with room.
RecordsCounted ==
    \A p \in DOMAIN page : page[p].num >= Cardinality(page[p].bits)

\* A row that was reported as inserted is in its slot, whatever the other threads do,
\* unless two INSERTs had that slot at the same time: insert_record looks for it
\* before the log is forced and sets its bit after (rm_file_handle.cpp:109, 134).
RowsKept ==
    \A entry \in told : entry[2] \notin shared =>
        LET p == entry[2][1] IN
        /\ entry[2][2] \in page[p].bits
        /\ page[p].row[entry[2][2]] = entry[1]

\* A scan has returned, when it is over, every row that was there when it began
\* and was not taken out meanwhile, however many were inserted behind it.
ScanVisitsAll == scan.over => scan.must \subseteq scan.seen

\* A row whose page has been written is found by the scan after a kill: the
\* header in the file has the page.
WrittenRowsReachable ==
    \A p \in DOMAIN disk.page : p < disk.hdr.num_pages

\* The headers tell the truth about the pages, in the pool and in the file.
HeadersTrue == RmTypeOK /\ RecordsCounted /\ WrittenRowsReachable

\* An INSERT finds a slot, unless a DELETE was rolled back or the server killed.
InsertPlaced ==
    count.rollbacks = 0 /\ count.kills = 0 => count.lost = 0

\* A page has a pin of every INSERT that has chosen a slot of it, and one for ever of
\* the rolled back DELETE that made it (rm_file_handle.cpp:184).  More only where two
\* INSERTs had one slot: the delete_record that finds its bit reset does not unpin
\* (:238).
Inserting(p) == {t \in Session : session[t].op = "insert" /\ session[t].rid[1] = p}

PinsReturned ==
    \A p \in DOMAIN page :
        \/ page[p].pins = Cardinality(Inserting(p)) + Cardinality(spare \cap {p})
        \/ \E s \in Slot : <<p, s>> \in shared
=============================================================================
