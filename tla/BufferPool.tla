----------------------------- MODULE BufferPool -----------------------------
(***************************************************************************)
(* BufferPoolManager (src/src/storage/buffer_pool_manager.cpp) with its    *)
(* LRUReplacer (src/src/replacer/lru_replacer.cpp), over the page files of *)
(* DiskManager (src/src/storage/disk_manager.cpp).                         *)
(*                                                                         *)
(* Every operation of the pool holds latch_ from its first line to its     *)
(* last, so it is one step.  The callers write into Page::data_ without    *)
(* the latch, between the fetch and the unpin: a step of its own.  A       *)
(* client is a thread that holds at most one page; a thread that holds     *)
(* several is several clients.                                             *)
(*                                                                         *)
(* An operation that returns false or nullptr changes nothing and is left  *)
(* out: fetch_page and new_page return nullptr when find_victim_page found *)
(* no frame, and new_page's later returns need a negative descriptor,      *)
(* which no caller passes.  An operation that throws is not: by then it    *)
(* has taken its frame.                                                    *)
(***************************************************************************)
EXTENDS Integers, Sequences, FiniteSets, SequencesExt

CONSTANTS PoolSize,     \* frames of the pool
          Fd,           \* descriptors of the open files
          MaxPage,      \* pages of a file (a bound)
          MaxFree,      \* frame numbers in free_list_ (a bound)
          Client,       \* threads that use the pool
          Value,        \* contents a client writes
          Zero,         \* a page of zeroes
          Gone          \* stands for the contents of a deleted page

ASSUME PoolAssumption == PoolSize \in Nat \ {0} /\ MaxPage \in Nat /\ MaxFree \in Nat
ASSUME ZeroAssumption == Zero \notin Value /\ Gone \notin Value \cup {Zero}
ASSUME ClientAssumption == IsFiniteSet(Client)

VARIABLES
    pages,          \* pages_: id_, data_, is_dirty_ and pin_count_ of each frame
    page_table,     \* page_table_
    free_list,      \* free_list_
    LRUlist,        \* LRUlist_, the frame used last in front
    disk,           \* the pages in the files
    fd2pageno,      \* fd2pageno_: pages allocated in each file
    handle,         \* the page each client has fetched, and whether it wrote it
    dead,           \* ghost: the pages that delete_page deleted
    taken           \* ghost: the frames last taken by an operation that threw

vars == <<pages, page_table, free_list, LRUlist, disk, fd2pageno, handle, dead, taken>>

Frame == 1 .. PoolSize
PageId == Fd \X (0 .. MaxPage - 1)
Data == Value \cup {Zero}
NoFrame == 0
NoPage == <<>>          \* INVALID_PAGE_ID
NoHandle == [page |-> NoPage, frame |-> NoFrame, wrote |-> FALSE]

Holds(c) == handle[c].frame # NoFrame

Init ==
    /\ pages = [f \in Frame |-> [id |-> NoPage, data |-> Zero, dirty |-> FALSE, pin |-> 0]]
    /\ page_table = [p \in PageId |-> NoFrame]
    /\ free_list = [f \in Frame |-> f]
    /\ LRUlist = <<>>
    /\ disk = [p \in PageId |-> Zero]
    /\ fd2pageno = [fd \in Fd |-> 0]
    /\ handle = [c \in Client |-> NoHandle]
    /\ dead = {}
    /\ taken = {}

-----------------------------------------------------------------------------
(***************************************************************************)
(* LRUReplacer.  victim takes the last frame.                              *)
(***************************************************************************)
pin(f) == IF \E i \in DOMAIN LRUlist : LRUlist[i] = f
          THEN RemoveAt(LRUlist, CHOOSE i \in DOMAIN LRUlist : LRUlist[i] = f)
          ELSE LRUlist

unpin(f) == IF \E i \in DOMAIN LRUlist : LRUlist[i] = f
            THEN LRUlist ELSE <<f>> \o LRUlist

(***************************************************************************)
(* find_victim_page: the frame f is the next one to use.  The fetch_page   *)
(* or new_page that asked for it pins it at its end, which takes it out of *)
(* LRUlist_ wherever it came from.                                         *)
(***************************************************************************)
VictimIs(f) ==
    /\ IF free_list # <<>> THEN f = Head(free_list)
       ELSE LRUlist # <<>> /\ f = LRUlist[Len(LRUlist)]
    /\ free_list' = IF free_list # <<>> THEN Tail(free_list) ELSE free_list

find_victim_page(f) == VictimIs(f) /\ LRUlist' = pin(f)

\* A disk error ends the operation before it pins the frame, which nobody gives
\* back to the list it was taken from.
DiskError(f) ==
    /\ VictimIs(f)
    /\ LRUlist' = IF free_list # <<>> THEN LRUlist ELSE pin(f)
    /\ taken' = taken \cup {f}

\* update_page, in three parts: the write of a dirty page to its file, ...
NoWriteBack(f) == disk      \* a bug: the dirty page is dropped

WriteBack(f) ==
    IF pages[f].id # NoPage /\ pages[f].dirty
    THEN [disk EXCEPT ![pages[f].id] = pages[f].data] ELSE disk

\* ... the new mapping, in which f no longer holds its old page, ...
RemapOnly(f, p) == [page_table EXCEPT ![p] = f]     \* a bug: no erase

Remap(f, p) ==
    [q \in PageId |-> IF q = p THEN f
                      ELSE IF q = pages[f].id THEN NoFrame ELSE page_table[q]]

\* ... and the frame.  is_dirty_ is cleared only with a write.
Refill(f, p, data, pins) ==
    [pages EXCEPT ![f] = [id |-> p, data |-> data, pin |-> pins,
                          dirty |-> pages[f].dirty /\ pages[f].id = NoPage]]

-----------------------------------------------------------------------------
Hold(c, p, f) == handle' = [handle EXCEPT ![c] = [page |-> p, frame |-> f, wrote |-> FALSE]]

\* The caller gets the only pin of the frame.
HoldNew(c, p, f) == Hold(c, p, f) /\ taken' = taken \ {f}

OnePin(f) == 1          \* a bug: a hit does not count the pins before it

HitPins(f) == pages[f].pin + 1

\* fetch_page of a page that the pool has, ...
FetchHit(c, p) ==
    LET f == page_table[p]
    IN  /\ ~Holds(c) /\ f # NoFrame
        /\ LRUlist' = pin(f)
        /\ pages' = [pages EXCEPT ![f].pin = HitPins(f)]
        /\ Hold(c, p, f)
        /\ UNCHANGED <<page_table, free_list, disk, fd2pageno, dead, taken>>

\* ... and of one that it has to read.  A page past the end of its file is read
\* as zeroes.
FetchMiss(c, p) ==
    /\ ~Holds(c) /\ page_table[p] = NoFrame
    /\ \E f \in Frame :
        /\ find_victim_page(f)
        /\ disk' = WriteBack(f)
        /\ page_table' = Remap(f, p)
        /\ pages' = Refill(f, p, disk'[p], 1)
        /\ HoldNew(c, p, f)
    /\ UNCHANGED <<fd2pageno, dead>>

\* Callers fetch the page numbers that new_page handed out.
fetch_page(c, p) ==
    /\ p[2] < fd2pageno[p[1]]
    /\ FetchHit(c, p) \/ FetchMiss(c, p)

\* The page of zeroes is not dirty.
new_page(c, fd) ==
    LET p == <<fd, fd2pageno[fd]>>
    IN  /\ ~Holds(c) /\ fd2pageno[fd] < MaxPage
        /\ \E f \in Frame :
            /\ find_victim_page(f)
            /\ disk' = WriteBack(f)
            /\ page_table' = Remap(f, p)
            /\ pages' = Refill(f, p, Zero, 1)
            /\ HoldNew(c, p, f)
        /\ fd2pageno' = [fd2pageno EXCEPT ![fd] = @ + 1]
        /\ UNCHANGED dead

(***************************************************************************)
(* write_page throws in update_page (line 51): the victim keeps its page,  *)
(* its mapping and its contents.  new_page has taken its page number.      *)
(***************************************************************************)
WriteError ==
    /\ \E f \in Frame : pages[f].id # NoPage /\ pages[f].dirty /\ DiskError(f)
    /\ UNCHANGED <<pages, page_table, disk, handle, dead>>

FetchWriteError(c, p) ==
    /\ ~Holds(c) /\ p[2] < fd2pageno[p[1]] /\ page_table[p] = NoFrame
    /\ WriteError
    /\ UNCHANGED fd2pageno

NewWriteError(c, fd) ==
    /\ ~Holds(c) /\ fd2pageno[fd] < MaxPage
    /\ WriteError
    /\ fd2pageno' = [fd2pageno EXCEPT ![fd] = @ + 1]

(***************************************************************************)
(* read_page throws in fetch_page (line 97), after update_page: the page   *)
(* is mapped to a frame of zeroes, with the pins it had.                   *)
(***************************************************************************)
FetchReadError(c, p) ==
    /\ ~Holds(c) /\ p[2] < fd2pageno[p[1]] /\ page_table[p] = NoFrame
    /\ \E f \in Frame :
        /\ DiskError(f)
        /\ disk' = WriteBack(f)
        /\ page_table' = Remap(f, p)
        /\ pages' = Refill(f, p, Zero, pages[f].pin)
    /\ UNCHANGED <<fd2pageno, handle, dead>>

\* The caller of fetch_page or new_page writes through its Page pointer.
WriteData(c, v) ==
    /\ Holds(c)
    /\ pages' = [pages EXCEPT ![handle[c].frame].data = v]
    /\ handle' = [handle EXCEPT ![c].wrote = TRUE]
    /\ UNCHANGED <<page_table, free_list, LRUlist, disk, fd2pageno, dead, taken>>

-----------------------------------------------------------------------------
\* The frame is evictable when its last pin goes.
EvictableAtOnce(f) == unpin(f)      \* a bug: when any pin goes

NeverEvictable(f) == LRUlist        \* a bug: the replacer is not told

Evictable(f) == IF pages[f].pin = 1 THEN unpin(f) ELSE LRUlist

\* unpin_page never clears is_dirty_.
LastWriter(f, is_dirty) == is_dirty                     \* a bug

Dirtied(f, is_dirty) == pages[f].dirty \/ is_dirty

\* unpin_page does nothing when there is no pin.
Pinned(f) == pages[f].pin # 0

\* The caller unpins the page whose number it finds in the frame, as dirty when
\* it wrote the frame.
unpin_page(c) ==
    LET p == pages[handle[c].frame].id
        f == page_table[p]
    IN  /\ Holds(c)
        /\ IF f # NoFrame /\ Pinned(f)
           THEN /\ pages' = [pages EXCEPT ![f].pin = @ - 1,
                                          ![f].dirty = Dirtied(f, handle[c].wrote)]
                /\ LRUlist' = Evictable(f)
           ELSE UNCHANGED <<pages, LRUlist>>
        /\ handle' = [handle EXCEPT ![c] = NoHandle]
        /\ UNCHANGED <<page_table, free_list, disk, fd2pageno, dead, taken>>

\* flush_page writes the page even while a client writes into it.
flush_page(p) ==
    LET f == page_table[p]
    IN  /\ f # NoFrame
        /\ disk' = [disk EXCEPT ![p] = pages[f].data]
        /\ pages' = [pages EXCEPT ![f].dirty = FALSE]
        /\ UNCHANGED <<page_table, free_list, LRUlist, fd2pageno, handle, dead, taken>>

(***************************************************************************)
(* delete_page.  update_page is called with the page's own number: the     *)
(* page is written, its frame zeroed, and the mapping erased and set       *)
(* again.  The frame goes to free_list_ and stays in LRUlist_.             *)
(***************************************************************************)
delete_page(p) ==
    LET f == page_table[p]
    IN  /\ p[2] < fd2pageno[p[1]]
        /\ f # NoFrame
        /\ pages[f].pin = 0
        /\ Len(free_list) < MaxFree
        /\ disk' = WriteBack(f)
        /\ page_table' = Remap(f, p)
        /\ pages' = Refill(f, p, Zero, 0)
        /\ free_list' = Append(free_list, f)
        /\ dead' = dead \cup {p}
        /\ UNCHANGED <<LRUlist, fd2pageno, handle, taken>>

\* flush_all_pages writes every frame that holds a page of the file.
FlushedDisk(fd) ==
    [p \in PageId |->
        IF p[1] = fd /\ \E f \in Frame : pages[f].id = p
        THEN pages[CHOOSE f \in Frame :
                       pages[f].id = p /\ \A g \in Frame : pages[g].id = p => g <= f].data
        ELSE disk[p]]

FlushedPages(fd) ==
    [f \in Frame |-> IF pages[f].id # NoPage /\ pages[f].id[1] = fd
                     THEN [pages[f] EXCEPT !.dirty = FALSE] ELSE pages[f]]

flush_all_pages(fd) ==
    /\ disk' = FlushedDisk(fd)
    /\ pages' = FlushedPages(fd)
    /\ UNCHANGED <<page_table, free_list, LRUlist, fd2pageno, handle, dead, taken>>

(***************************************************************************)
(* The file is closed and removed, as drop_table does once it has deleted  *)
(* the pages, and the next file that is created gets its descriptor.       *)
(* close_file flushes the pages; nothing takes them out of the page table, *)
(* and nothing asks whether somebody holds one.                            *)
(***************************************************************************)
ReplaceFile(fd) ==
    /\ disk' = [p \in PageId |-> IF p[1] = fd THEN Zero ELSE disk[p]]
    /\ pages' = FlushedPages(fd)
    /\ fd2pageno' = [fd2pageno EXCEPT ![fd] = 0]
    /\ dead' = {p \in dead : p[1] # fd}
    /\ UNCHANGED <<page_table, free_list, LRUlist, handle, taken>>

-----------------------------------------------------------------------------
(***************************************************************************)
(* PoolNext is the pool over files that stay open, whose pages nobody uses *)
(* after delete_page and can be read.  Nothing in the code ensures this:   *)
(* DROP TABLE deletes pages that another session may be scanning           *)
(* (sm_manager.cpp:340).  Next is the pool without these assumptions.      *)
(***************************************************************************)
Calls(Usable) ==
    \/ \E c \in Client :
        \/ \E p \in Usable : fetch_page(c, p) \/ FetchWriteError(c, p)
        \/ \E fd \in Fd : new_page(c, fd) \/ NewWriteError(c, fd)
        \/ \E v \in Value : WriteData(c, v)
        \/ unpin_page(c)
    \/ \E p \in PageId : flush_page(p)
    \/ \E p \in Usable : delete_page(p)
    \/ \E fd \in Fd : flush_all_pages(fd)

PoolNext == Calls(PageId \ dead)

Next ==
    \/ Calls(PageId)
    \/ \E c \in Client, p \in PageId : FetchReadError(c, p)
    \/ \E fd \in Fd : ReplaceFile(fd)

PoolSpec == Init /\ [][PoolNext]_vars
Spec == Init /\ [][Next]_vars

-----------------------------------------------------------------------------
(***************************************************************************)
(* Properties.                                                             *)
(***************************************************************************)
Contents == [id : PageId \cup {NoPage}, data : Data, dirty : BOOLEAN, pin : Nat]

Handles == [page : PageId \cup {NoPage}, frame : Frame \cup {NoFrame}, wrote : BOOLEAN]

\* The type of every variable: no pin count goes below zero.
TypeOK ==
    /\ pages \in [Frame -> Contents]
    /\ page_table \in [PageId -> Frame \cup {NoFrame}]
    /\ free_list \in Seq(Frame)
    /\ LRUlist \in Seq(Frame)
    /\ disk \in [PageId -> Data]
    /\ fd2pageno \in [Fd -> 0 .. MaxPage]
    /\ handle \in [Client -> Handles]
    /\ dead \subseteq PageId
    /\ taken \subseteq Frame

\* A page that page_table_ has is in the frame it says (update_page), whatever
\* becomes of the files.
TableMatchesFrame ==
    \A p \in PageId : page_table[p] # NoFrame => pages[page_table[p]].id = p

\* Both, while descriptors are reused.
FramesInv == TypeOK /\ TableMatchesFrame

\* A frame that unpin_page can no longer find: page_table_ has no entry for its
\* page, or one for another frame.  update_page makes it so when a second frame
\* has the same page, which takes a replaced file.
Unmapped(f) == pages[f].id # NoPage /\ page_table[pages[f].id] # f

\* Every frame can be used again: it is free or evictable, or a client holds it
\* and will unpin it.  The frames lost for good are those whose mapping went to
\* another frame, and those that a disk error took.
NoFrameLost ==
    \A f \in Frame :
        \/ \E i \in DOMAIN free_list : free_list[i] = f
        \/ \E i \in DOMAIN LRUlist : LRUlist[i] = f
        \/ \E c \in Client : handle[c].frame = f
        \/ Unmapped(f)
        \/ f \in taken

\* The page that a client has fetched stays in its frame, and page_table_ leads
\* every other client to the same frame, until the client unpins it.
PinnedStable ==
    \A c \in Client : Holds(c) =>
        /\ pages[handle[c].frame].id = handle[c].page
        /\ page_table[handle[c].page] = handle[c].frame

\* pin_count_ is the number of clients that hold the frame: no pin is leaked,
\* and none is released twice.
PinExact ==
    \A f \in Frame : pages[f].pin = Cardinality({c \in Client : handle[c].frame = f})

\* A page that differs from its file will be written to it: the frame is dirty,
\* or the client that wrote it has still to unpin it.
NoLostWrite ==
    \A f \in Frame :
        /\ pages[f].id \in PageId \ dead
        /\ pages[f].data # disk[pages[f].id]
        => pages[f].dirty \/ \E c \in Client : handle[c].frame = f /\ handle[c].wrote

\* The contents of a page, wherever it is, and the page a client holds.
Shown == [p \in PageId |-> IF p \in dead THEN Gone
                           ELSE IF page_table[p] # NoFrame THEN pages[page_table[p]].data
                           ELSE disk[p]]

Held == [c \in Client |-> handle[c].page]

\* The pool is a store of pages: eviction, reading back and flushing change the
\* contents of no page, and a write changes one.
Store == INSTANCE PageStore WITH store <- Shown, held <- Held

ImplementsStore == Store!Spec
=============================================================================
