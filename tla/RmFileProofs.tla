---------------------------- MODULE RmFileProofs ----------------------------
(***************************************************************************)
(* The file of a table: its headers, its scan, its inserts, its rows and   *)
(* its pins, for every size of a page and of the file, and for every       *)
(* number of threads.                                                      *)
(***************************************************************************)
EXTENDS RmFile, FiniteSetTheorems, TLAPS

Link == {NoPage} \cup 0 .. MaxPages
Rows == [Slot -> Nat]
Rec == [num : Int, next : Link, bits : SUBSET Slot, row : Rows, pins : Int]
Hdr(n) == [num_pages : {n}, first_free : Link]

\* The header, the pages and the header in the file, of n pages with the header's.
Files(n) == [hdr : Hdr(n), page : [1 .. n - 1 -> Rec], dhdr : Hdr(n)]

\* Only page p may differ.
Others(F, G, p) == \A q \in DOMAIN F.page \ {p} : G.page[q] = F.page[q]

-----------------------------------------------------------------------------
(***************************************************************************)
(* The smallest member of a set of numbers, for next_bit.                  *)
(***************************************************************************)
LEMMA Smallest ==
    ASSUME NEW S \in SUBSET Nat, S # {}
    PROVE  \E n \in S : \A m \in S : n <= m
<1> DEFINE down(k) == 0 .. k
           T == {down(k) : k \in S}
<1>1. T \subseteq FiniteSubsetsOf(Nat) /\ T # {}
  <2>1. \A k \in S : down(k) \in SUBSET Nat /\ IsFiniteSet(down(k))
    BY FS_Interval
  <2> QED BY <2>1 DEF FiniteSubsetsOf
<1>2. PICK x \in T : \A y \in T : <<y, x>> \notin StrictSubsetOrdering(Nat)
  <2> HIDE DEF T
  <2> QED BY <1>1, FS_StrictSubsetOrderingWellFounded, WFMin
<1>3. PICK n \in S : x = down(n)
  BY <1>2
<1>4. ASSUME NEW m \in S, ~(n <= m) PROVE FALSE
  <2>1. down(m) \in SUBSET Nat /\ down(n) \in SUBSET Nat
    OBVIOUS
  <2>2. down(m) \subseteq down(n) /\ n \in down(n) /\ n \notin down(m)
    BY <1>4
  <2>3. down(m) \in T
    OBVIOUS
  <2> HIDE DEF down
  <2> QED BY <2>1, <2>2, <2>3, <1>2, <1>3 DEF StrictSubsetOrdering
<1> QED BY <1>4

LEMMA MinIsLeast ==
    ASSUME NEW C \in SUBSET Nat, C # {}
    PROVE  Min(C) \in C /\ \A m \in C : Min(C) <= m
<1>1. PICK n \in C : \A m \in C : n <= m
  BY Smallest
<1> QED BY <1>1 DEF Min

\* Bitmap::first_bit(false, ...): the first slot that is free.
LEMMA FirstFree ==
    ASSUME NEW bits \in SUBSET Slot
    PROVE  LET s == first_bit(FALSE, bits)
           IN  /\ s = SlotsPerPage \/ s \in Slot \ bits
               /\ s = SlotsPerPage => bits = Slot
<1> DEFINE C == {i \in Slot : i > -1 /\ (i \in bits) = FALSE} \cup {SlotsPerPage}
           s == Min(C)
<1>2. \A i : i \in C <=> i = SlotsPerPage \/ (i \in Slot /\ i > -1 /\ i \notin bits)
  <2>1. \A i : ((i \in bits) = FALSE) <=> i \notin bits
    OBVIOUS
  <2> QED BY <2>1
<1>3. s = first_bit(FALSE, bits)
  BY DEF first_bit, next_bit
<1> HIDE DEF C
<1>1. C \in SUBSET Nat /\ C # {}
  BY <1>2, SlotsAssumption DEF Slot
<1>4. s \in C /\ \A m \in C : s <= m
  BY <1>1, MinIsLeast
<1> HIDE DEF s
<1>5. ASSUME s = SlotsPerPage, NEW i \in Slot PROVE i \in bits
  BY <1>2, <1>4, <1>5, SlotsAssumption DEF Slot
<1> QED BY <1>2, <1>3, <1>4, <1>5

\* Bitmap::next_bit(true, ...): the next slot that is set; those it passes over are not.
LEMMA NextSet ==
    ASSUME NEW bits \in SUBSET Slot, NEW start \in Int
    PROVE  LET s == next_bit(TRUE, bits, start)
           IN  /\ s \in 0 .. SlotsPerPage
               /\ s < SlotsPerPage => s \in bits /\ s > start
               /\ \A i \in bits : i > start => s <= i
<1> DEFINE C == {i \in Slot : i > start /\ (i \in bits) = TRUE} \cup {SlotsPerPage}
           s == Min(C)
<1>2. \A i : i \in C <=> i = SlotsPerPage \/ (i \in Slot /\ i > start /\ i \in bits)
  BY Zenon
<1>3. s = next_bit(TRUE, bits, start)
  BY DEF next_bit
<1> HIDE DEF C
<1>1. C \in SUBSET Nat /\ C # {}
  BY <1>2, SlotsAssumption DEF Slot
<1>4. s \in C /\ \A m \in C : s <= m
  BY <1>1, MinIsLeast
<1> HIDE DEF s
<1>5. s \in 0 .. SlotsPerPage /\ (s < SlotsPerPage => s \in bits /\ s > start)
  BY <1>2, <1>4, SlotsAssumption DEF Slot
<1> QED BY <1>2, <1>3, <1>4, <1>5

-----------------------------------------------------------------------------
(***************************************************************************)
(* The operations of RmFileHandle on a file of n pages.                    *)
(***************************************************************************)
LEMMA Parts ==
    ASSUME NEW n \in Nat \ {0}, NEW F \in Files(n)
    PROVE  /\ F = [hdr |-> F.hdr, page |-> F.page, dhdr |-> F.dhdr]
           /\ F.hdr \in Hdr(n) /\ F.dhdr \in Hdr(n) /\ F.page \in [1 .. n - 1 -> Rec]
           /\ F.hdr.num_pages = n /\ F.hdr.first_free \in Link /\ DOMAIN F.page = 1 .. n - 1
           /\ \A p \in 1 .. n - 1 : F.page[p] \in Rec
<1>1. /\ F = [hdr |-> F.hdr, page |-> F.page, dhdr |-> F.dhdr]
      /\ F.hdr \in Hdr(n) /\ F.dhdr \in Hdr(n) /\ F.page \in [1 .. n - 1 -> Rec]
  BY DEF Files
<1> QED BY <1>1 DEF Hdr

LEMMA FetchPage ==
    ASSUME NEW n \in Nat \ {0}, NEW F \in Files(n), NEW p \in 1 .. n - 1
    PROVE  LET G == fetch_page_handle(F, p)
           IN  /\ G \in Files(n) /\ Others(F, G, p) /\ G.hdr = F.hdr /\ G.dhdr = F.dhdr
               /\ G.page[p].num = F.page[p].num /\ G.page[p].next = F.page[p].next
               /\ G.page[p].bits = F.page[p].bits /\ G.page[p].row = F.page[p].row
               /\ G.page[p].pins = F.page[p].pins + 1
<1> DEFINE o == F.page[p]
           r == [o EXCEPT !.pins = @ + 1]
           G == fetch_page_handle(F, p)
<1>1. o \in Rec /\ F.hdr \in Hdr(n) /\ F.dhdr \in Hdr(n)
  BY Parts
<1>4. G = [F EXCEPT !.page = [F.page EXCEPT ![p] = r], !.hdr = F.hdr, !.dhdr = F.dhdr]
  BY DEF fetch_page_handle, Files
<1>2. /\ r \in Rec /\ r.num = o.num /\ r.next = o.next /\ r.bits = o.bits /\ r.row = o.row
      /\ r.pins = o.pins + 1
  <2> HIDE DEF o
  <2> QED BY <1>1 DEF Rec
<1> HIDE DEF r, G
<1>5. G \in Files(n) /\ Others(F, G, p) /\ G.hdr = F.hdr /\ G.dhdr = F.dhdr /\ G.page[p] = r
  BY <1>2, <1>4 DEF Files, Others
<1> QED BY <1>5, <1>2 DEF G

LEMMA UnpinPage ==
    ASSUME NEW n \in Nat \ {0}, NEW F \in Files(n), NEW p \in 1 .. n - 1
    PROVE  LET G == unpin_page(F, p)
           IN  /\ G \in Files(n) /\ Others(F, G, p) /\ G.hdr = F.hdr /\ G.dhdr = F.dhdr
               /\ G.page[p].num = F.page[p].num /\ G.page[p].next = F.page[p].next
               /\ G.page[p].bits = F.page[p].bits /\ G.page[p].row = F.page[p].row
               /\ G.page[p].pins = F.page[p].pins - 1
<1> DEFINE o == F.page[p]
           r == [o EXCEPT !.pins = @ - 1]
           G == unpin_page(F, p)
<1>1. o \in Rec /\ F.hdr \in Hdr(n) /\ F.dhdr \in Hdr(n)
  BY Parts
<1>4. G = [F EXCEPT !.page = [F.page EXCEPT ![p] = r], !.hdr = F.hdr, !.dhdr = F.dhdr]
  BY DEF unpin_page, Files
<1>2. /\ r \in Rec /\ r.num = o.num /\ r.next = o.next /\ r.bits = o.bits /\ r.row = o.row
      /\ r.pins = o.pins - 1
  <2> HIDE DEF o
  <2> QED BY <1>1 DEF Rec
<1> HIDE DEF r, G
<1>5. G \in Files(n) /\ Others(F, G, p) /\ G.hdr = F.hdr /\ G.dhdr = F.dhdr /\ G.page[p] = r
  BY <1>2, <1>4 DEF Files, Others
<1> QED BY <1>5, <1>2 DEF G

\* A new page is empty, pinned once, the first free one, and known to both headers.
LEMMA NewPage ==
    ASSUME NEW n \in Nat \ {0}, n <= MaxPages, NEW F \in Files(n)
    PROVE  LET G == create_new_page_handle(F)
           IN  /\ G \in Files(n + 1)
               /\ G.hdr = [num_pages |-> n + 1, first_free |-> n] /\ G.dhdr = G.hdr
               /\ \A q \in 1 .. n - 1 : G.page[q] = F.page[q]
               /\ G.page[n].num = 0 /\ G.page[n].bits = {} /\ G.page[n].pins = 1
<1> DEFINE r == [EmptyPage(F.hdr.first_free) EXCEPT !.pins = 1]
           h == [num_pages |-> n + 1, first_free |-> n]
           pg == [q \in 1 .. n |-> IF q = n THEN r ELSE F.page[q]]
<1>0. F.hdr.first_free \in Link
  BY Parts
<1>1. r \in Rec /\ r.num = 0 /\ r.bits = {} /\ r.pins = 1
  BY <1>0 DEF EmptyPage, Rec, Rows, NoRow
<1>3. h \in Hdr(n + 1)
  BY BoundAssumption DEF Hdr, Link
<1>4. create_new_page_handle(F) = [hdr |-> h, dhdr |-> h, page |-> pg]
  <2>1. F.hdr.num_pages = n
    BY Parts
  <2> QED BY <2>1 DEF create_new_page_handle
<1> HIDE DEF r, h
<1>6. pg \in [1 .. n -> Rec] /\ pg[n] = r /\ \A q \in 1 .. n - 1 : pg[q] = F.page[q]
  <2>1. \A q \in 1 .. n - 1 : F.page[q] \in Rec
    BY Parts
  <2> QED BY <1>1, <2>1
<1> HIDE DEF pg
<1>7. [hdr |-> h, dhdr |-> h, page |-> pg] \in Files(n + 1)
  BY <1>3, <1>6 DEF Files
<1> QED BY <1>1, <1>4, <1>6, <1>7 DEF h

LEMMA FilledPage ==
    ASSUME NEW n \in Nat \ {0}, NEW F \in Files(n), NEW p \in 1 .. n - 1, NEW s \in Slot,
           NEW row \in Nat, NEW next \in Link
    PROVE  LET G == Filled(F, p, s, row, next)
           IN  /\ G \in Files(n) /\ Others(F, G, p) /\ G.dhdr = F.dhdr
               /\ G.hdr.first_free = IF F.page[p].num + 1 = SlotsPerPage THEN next
                                     ELSE F.hdr.first_free
               /\ G.page[p].num = F.page[p].num + 1 /\ G.page[p].next = F.page[p].next
               /\ G.page[p].bits = F.page[p].bits \cup {s}
               /\ G.page[p].row = [F.page[p].row EXCEPT ![s] = row]
               /\ G.page[p].pins = F.page[p].pins
<1> DEFINE o == F.page[p]
           r == [o EXCEPT !.num = @ + 1, !.bits = @ \cup {s}, !.row[s] = row]
           f == IF r.num = SlotsPerPage THEN next ELSE F.hdr.first_free
           h == [F.hdr EXCEPT !.first_free = f]
           G == Filled(F, p, s, row, next)
<1>1. o \in Rec /\ F.hdr \in Hdr(n) /\ F.dhdr \in Hdr(n) /\ F.hdr.first_free \in Link
  BY Parts
<1>2. /\ r \in Rec /\ r.num = o.num + 1 /\ r.next = o.next /\ r.bits = o.bits \cup {s}
      /\ r.row = [o.row EXCEPT ![s] = row] /\ r.pins = o.pins
  <2> HIDE DEF o
  <2> DEFINE a == o.num + 1
             b == o.bits \cup {s}
             w == [o.row EXCEPT ![s] = row]
  <2>1. r = [o EXCEPT !.num = a, !.bits = b, !.row = w]
    BY <1>1 DEF Rec
  <2>2. a \in Int /\ b \in SUBSET Slot /\ w \in Rows
    BY <1>1 DEF Rec, Rows
  <2> HIDE DEF a, b, w, r
  <2>3. r \in Rec
    BY <1>1, <2>1, <2>2 DEF Rec
  <2>4. r.num = a /\ r.next = o.next /\ r.bits = b /\ r.row = w /\ r.pins = o.pins
    BY <1>1, <2>1 DEF Rec
  <2> QED BY <2>3, <2>4 DEF a, b, w
<1>3. G = [F EXCEPT !.page = [F.page EXCEPT ![p] = r], !.hdr = h, !.dhdr = F.dhdr]
  <2>1. G = [F EXCEPT !.page[p] = r, !.hdr.first_free = f]
    BY DEF Filled
  <2> HIDE DEF r, f, G
  <2> QED BY <2>1 DEF Files
<1> HIDE DEF r
<1>4. h \in Hdr(n) /\ h.first_free = f
  <2>1. f \in Link
    BY <1>1
  <2> HIDE DEF f
  <2> QED BY <1>1, <2>1 DEF Hdr
<1>5. G \in Files(n) /\ Others(F, G, p) /\ G.hdr = h /\ G.dhdr = F.dhdr /\ G.page[p] = r
  <2> HIDE DEF G, h
  <2> QED BY <1>2, <1>3, <1>4 DEF Files, Others
<1> HIDE DEF G, h
<1> QED BY <1>2, <1>4, <1>5 DEF G

\* release_page_handle: the page is the first free one, in the file too.
LEMMA ReleasePage ==
    ASSUME NEW n \in Nat \ {0}, NEW F \in Files(n), NEW p \in 1 .. n - 1, n <= MaxPages + 1
    PROVE  LET G == release_page_handle(F, p)
           IN  /\ G \in Files(n) /\ Others(F, G, p) /\ G.dhdr = G.hdr /\ G.hdr.first_free = p
               /\ G.page[p].num = F.page[p].num /\ G.page[p].bits = F.page[p].bits
               /\ G.page[p].row = F.page[p].row /\ G.page[p].pins = F.page[p].pins
<1> DEFINE o == F.page[p]
           r == [o EXCEPT !.next = F.hdr.first_free]
           h == [F.hdr EXCEPT !.first_free = p]
           G == release_page_handle(F, p)
<1>1. o \in Rec /\ F.hdr \in Hdr(n) /\ F.hdr.first_free \in Link
  BY Parts
<1>2. /\ r \in Rec /\ r.num = o.num /\ r.bits = o.bits /\ r.row = o.row /\ r.pins = o.pins
  <2> HIDE DEF o
  <2> QED BY <1>1 DEF Rec
<1>3. G = [F EXCEPT !.page = [F.page EXCEPT ![p] = r], !.hdr = h, !.dhdr = h]
  <2>1. G = [F EXCEPT !.page[p] = r, !.hdr = h, !.dhdr = h]
    BY DEF release_page_handle, Files
  <2> HIDE DEF r, h, G
  <2> QED BY <2>1 DEF Files
<1>4. h \in Hdr(n) /\ h.first_free = p
  <2>1. p \in Link
    BY BoundAssumption DEF Link
  <2> QED BY <1>1, <2>1 DEF Hdr
<1> HIDE DEF r, h, G
<1>5. G \in Files(n) /\ Others(F, G, p) /\ G.hdr = h /\ G.dhdr = h /\ G.page[p] = r
  BY <1>2, <1>3, <1>4 DEF Files, Others
<1> QED BY <1>2, <1>4, <1>5 DEF G

\* delete_record, the slot being set, on a page that it has pinned.
TakenOut(F, G, p, s) ==
    /\ Others(F, G, p)
    /\ \/ G.hdr.first_free = p /\ G.page[p].num < SlotsPerPage
       \/ G.hdr = F.hdr
    /\ G.page[p].num = F.page[p].num - 1 /\ G.page[p].bits = F.page[p].bits \ {s}
    /\ G.page[p].row = [F.page[p].row EXCEPT ![s] = NoRow]
    /\ G.page[p].pins = F.page[p].pins - 1

LEMMA ErasedPage ==
    ASSUME NEW n \in Nat \ {0}, NEW F \in Files(n), NEW p \in 1 .. n - 1, n <= MaxPages + 1,
           NEW s \in Slot, s \in F.page[p].bits
    PROVE  Erased(F, p, s) \in Files(n) /\ TakenOut(F, Erased(F, p, s), p, s)
<1> DEFINE o == F.page[p]
           r == [o EXCEPT !.num = @ - 1, !.bits = @ \ {s}, !.row[s] = NoRow]
           E == [F EXCEPT !.page[p] = r]
           R == IF r.num < SlotsPerPage THEN release_page_handle(E, p) ELSE E
<1>1. o \in Rec /\ F.hdr \in Hdr(n) /\ F.dhdr \in Hdr(n)
  BY Parts
<1>2. /\ r \in Rec /\ r.num = o.num - 1 /\ r.bits = o.bits \ {s}
      /\ r.row = [o.row EXCEPT ![s] = NoRow] /\ r.pins = o.pins
  <2> HIDE DEF o
  <2> DEFINE a == o.num - 1
             b == o.bits \ {s}
             w == [o.row EXCEPT ![s] = NoRow]
  <2>1. r = [o EXCEPT !.num = a, !.bits = b, !.row = w]
    BY <1>1 DEF Rec
  <2>2. a \in Int /\ b \in SUBSET Slot /\ w \in Rows
    <3>1. o.row \in Rows /\ s \in Slot /\ a \in Int /\ b \in SUBSET Slot
      BY <1>1 DEF Rec, o
    <3> QED BY <3>1 DEF Rows, NoRow
  <2> HIDE DEF a, b, w, r
  <2>3. r \in Rec
    BY <1>1, <2>1, <2>2 DEF Rec
  <2>4. r.num = a /\ r.next = o.next /\ r.bits = b /\ r.row = w /\ r.pins = o.pins
    BY <1>1, <2>1 DEF Rec
  <2> QED BY <2>3, <2>4 DEF a, b, w
<1>3. Erased(F, p, s) = unpin_page(R, p)
  BY DEF Erased
<1>4. E = [F EXCEPT !.page = [F.page EXCEPT ![p] = r], !.hdr = F.hdr, !.dhdr = F.dhdr]
  <2> HIDE DEF r
  <2> QED BY DEF Files
<1> HIDE DEF r, E
<1>5. E \in Files(n) /\ Others(F, E, p) /\ E.hdr = F.hdr /\ E.dhdr = F.dhdr /\ E.page[p] = r
  BY <1>2, <1>4 DEF Files, Others
<1>6. /\ R \in Files(n) /\ Others(E, R, p)
      /\ \/ R.hdr.first_free = p /\ R.dhdr = R.hdr /\ R.page[p].num < SlotsPerPage
         \/ R.hdr = E.hdr /\ R.dhdr = E.dhdr
      /\ R.page[p].num = r.num /\ R.page[p].bits = r.bits
      /\ R.page[p].row = r.row /\ R.page[p].pins = r.pins
  <2>1. CASE r.num < SlotsPerPage
    BY <2>1, <1>5, ReleasePage
  <2>2. CASE ~(r.num < SlotsPerPage)
    BY <2>2, <1>5 DEF Others
  <2> QED BY <2>1, <2>2
<1> HIDE DEF R
<1>7. DOMAIN E.page = DOMAIN F.page /\ DOMAIN R.page = DOMAIN F.page
  BY <1>5, <1>6, Parts
<1>8. Others(F, unpin_page(R, p), p)
  BY <1>5, <1>6, <1>7, UnpinPage DEF Others
<1> DEFINE G == unpin_page(R, p)
<1>9. /\ G \in Files(n) /\ G.hdr = R.hdr /\ G.dhdr = R.dhdr
      /\ G.page[p].num = R.page[p].num /\ G.page[p].bits = R.page[p].bits
      /\ G.page[p].row = R.page[p].row /\ G.page[p].pins = R.page[p].pins - 1
  BY <1>6, UnpinPage
<1> HIDE DEF G
<1> QED BY <1>2, <1>3, <1>5, <1>6, <1>8, <1>9 DEF G, TakenOut

\* update_record, on a page that it has pinned.
LEMMA WrittenRow ==
    ASSUME NEW n \in Nat \ {0}, NEW F \in Files(n), NEW p \in 1 .. n - 1, NEW s \in Slot,
           NEW row \in Nat
    PROVE  LET G == [F EXCEPT !.page[p].row[s] = row]
           IN  /\ G \in Files(n) /\ Others(F, G, p) /\ G.hdr = F.hdr /\ G.dhdr = F.dhdr
               /\ G.page[p].num = F.page[p].num /\ G.page[p].bits = F.page[p].bits
               /\ G.page[p].row = [F.page[p].row EXCEPT ![s] = row]
               /\ G.page[p].pins = F.page[p].pins
<1> DEFINE o == F.page[p]
           w == [o.row EXCEPT ![s] = row]
           r == [o EXCEPT !.row = w]
           G == [F EXCEPT !.page[p].row[s] = row]
<1>1. o \in Rec
  BY Parts
<1>2. G = [F EXCEPT !.page = [F.page EXCEPT ![p] = r]]
  BY DEF Files
<1>3. w \in Rows
  <2> HIDE DEF o
  <2> QED BY <1>1 DEF Rec, Rows
<1>4. r \in Rec /\ r.num = o.num /\ r.bits = o.bits /\ r.row = w /\ r.pins = o.pins
  <2> HIDE DEF o, w
  <2> QED BY <1>1, <1>3 DEF Rec
<1> HIDE DEF r, G
<1>5. G \in Files(n) /\ Others(F, G, p) /\ G.hdr = F.hdr /\ G.dhdr = F.dhdr /\ G.page[p] = r
  BY <1>2, <1>4 DEF Files, Others
<1> QED BY <1>4, <1>5 DEF G
-----------------------------------------------------------------------------
(***************************************************************************)
(* The inductive invariant, for every set of threads.                      *)
(***************************************************************************)
Place(n) == (1 .. n - 1) \X Slot
Sess(n) == {Idle} \cup [op : {"insert", "index"}, rid : Place(n), row : Nat]
Scans(n) == [page_no : Int, slot_no : Int, seen : SUBSET (Int \X Int), must : SUBSET Place(n),
             over : BOOLEAN]

\* The types; both headers have the same number of pages.
Types ==
    /\ hdr.num_pages \in 1 .. MaxPages + 1
    /\ File \in Files(hdr.num_pages)
    /\ DOMAIN disk = {"hdr", "page"}
    /\ disk = [hdr |-> disk.hdr, page |-> disk.page]
    /\ disk.page \in [DOMAIN disk.page -> Rec] /\ DOMAIN disk.page \subseteq 1 .. hdr.num_pages - 1
    /\ session \in [Session -> Sess(hdr.num_pages)]
    /\ scan \in Scans(hdr.num_pages)
    /\ told \subseteq Nat \X Place(hdr.num_pages)
    /\ count \in [rows : Nat, rollbacks : Nat, kills : Nat, lost : Nat]

\* The count of a page is never below its bitmap, in the pool and in the file.
Full(r) == r.num >= Cardinality(r.bits)
Counted ==
    /\ \A p \in DOMAIN page : Full(page[p])
    /\ \A p \in DOMAIN disk.page : Full(disk.page[p])

\* A page has a pin of every INSERT that has chosen a slot of it.
PinsCover == \A p \in DOMAIN page : page[p].pins >= Cardinality(Inserting(p))

\* The first free page has room.
FreeHasRoom ==
    count.rollbacks = 0 /\ count.kills = 0 =>
        count.lost = 0 /\ (HasFree(File) => page[hdr.first_free].num < SlotsPerPage)

\* What a scan must return is there, and was returned if it is before the cursor.
Behind(x) == x[1] < scan.page_no \/ (x[1] = scan.page_no /\ x[2] <= scan.slot_no)
ScanInv ==
    /\ scan # NoScan => scan.page_no >= 1
    /\ \A x \in scan.must : x[2] \in page[x[1]].bits /\ (Behind(x) => x \in scan.seen)
    /\ scan.over => scan.must \subseteq scan.seen

Inv == Types /\ Counted /\ PinsCover /\ FreeHasRoom /\ ScanInv

\* The slot of an INSERT is free until it writes, and nobody else's after, unless the
\* slot is shared.
Free(t) == session[t].op = "insert" => session[t].rid[2] \notin page[session[t].rid[1]].bits
Own(t) ==
    session[t].op = "index" =>
        LET x == session[t].rid IN
        /\ x[2] \in page[x[1]].bits /\ page[x[1]].row[x[2]] = session[t].row
        /\ \A entry \in told : entry[2] # x
Alone ==
    \A t, u \in Session :
        t # u /\ session[t] # Idle /\ session[u] # Idle /\ session[t].rid = session[u].rid
            => session[t].rid \in shared
Kept ==
    /\ RowsKept
    /\ \A t \in Session : session[t] # Idle /\ session[t].rid \notin shared => Free(t) /\ Own(t)
    /\ Alone

\* The pins are those of the INSERTs and of the rolled back DELETEs.
Pinned == spare \subseteq DOMAIN page /\ PinsReturned

-----------------------------------------------------------------------------
(***************************************************************************)
(* What the types say, and what a step keeps of them.                      *)
(***************************************************************************)
LEMMA Basics ==
    ASSUME Types
    PROVE  LET n == hdr.num_pages
           IN  /\ n \in Nat \ {0} /\ n <= MaxPages + 1 /\ MaxPages \in Nat
               /\ File \in Files(n) /\ File.hdr = hdr /\ File.page = page /\ File.dhdr = disk.hdr
               /\ hdr \in Hdr(n) /\ disk.hdr \in Hdr(n) /\ page \in [1 .. n - 1 -> Rec]
               /\ hdr.first_free \in Link /\ DOMAIN page = 1 .. n - 1
               /\ \A p \in 1 .. n - 1 : page[p] \in Rec
<1> DEFINE n == hdr.num_pages
<1>1. n \in Nat \ {0} /\ n <= MaxPages + 1 /\ MaxPages \in Nat
  BY BoundAssumption DEF Types
<1>2. File \in Files(n) /\ File.hdr = hdr /\ File.page = page /\ File.dhdr = disk.hdr
  BY DEF Types, File
<1> HIDE DEF n
<1>3. /\ File.hdr \in Hdr(n) /\ File.dhdr \in Hdr(n) /\ File.page \in [1 .. n - 1 -> Rec]
      /\ File.hdr.first_free \in Link
  BY <1>1, <1>2, Parts
<1> QED BY <1>1, <1>2, <1>3 DEF n

\* Growing keeps places, threads and scans.
LEMMA Grow ==
    ASSUME NEW n \in Nat, NEW m \in Nat, n <= m
    PROVE  Place(n) \subseteq Place(m) /\ Sess(n) \subseteq Sess(m) /\ Scans(n) \subseteq Scans(m)
<1>1. Place(n) \subseteq Place(m)
  BY DEF Place
<1>2. Sess(n) \subseteq Sess(m)
  BY <1>1 DEF Sess
<1>3. Scans(n) \subseteq Scans(m)
  BY <1>1 DEF Scans
<1> QED BY <1>1, <1>2, <1>3

LEMMA Becoming ==
    ASSUME Types, NEW m \in 1 .. MaxPages + 1, hdr.num_pages <= m, NEW G \in Files(m), Becomes(G),
           session' \in [Session -> Sess(m)], scan' \in Scans(m), told' \subseteq Nat \X Place(m),
           count' \in [rows : Nat, rollbacks : Nat, kills : Nat, lost : Nat]
    PROVE  /\ Types' /\ disk'.page = disk.page /\ page' = G.page /\ hdr' = G.hdr
           /\ DOMAIN page' = 1 .. m - 1 /\ hdr'.num_pages = m
<1>1. hdr' = G.hdr /\ page' = G.page /\ disk'.hdr = G.dhdr /\ disk'.page = disk.page
      /\ disk' = [hdr |-> disk'.hdr, page |-> disk'.page]
  <2>1. disk = [hdr |-> disk.hdr, page |-> disk.page] /\ disk' = [disk EXCEPT !.hdr = G.dhdr]
    BY DEF Types, Becomes
  <2>2. disk' = [hdr |-> G.dhdr, page |-> disk.page]
    BY <2>1
  <2> QED BY <2>2 DEF Becomes
<1>2. m \in Nat \ {0} /\ hdr.num_pages \in Nat \ {0}
  BY Basics, BoundAssumption
<1>3. G = [hdr |-> G.hdr, page |-> G.page, dhdr |-> G.dhdr] /\ G.hdr.num_pages = m
      /\ DOMAIN G.page = 1 .. m - 1
  BY <1>2, Parts
<1>4. File' = G
  BY <1>1, <1>3 DEF File
<1>5. disk'.page \in [DOMAIN disk'.page -> Rec] /\ DOMAIN disk'.page \subseteq 1 .. m - 1
  BY <1>1, <1>2 DEF Types
<1>6. hdr'.num_pages = m
  BY <1>1, <1>3
<1>7. DOMAIN disk' = {"hdr", "page"}
  BY <1>1
<1>8. Types'
  BY <1>1, <1>4, <1>5, <1>6, <1>7 DEF Types
<1> QED BY <1>1, <1>3, <1>6, <1>8

\* The types of the variables that a step leaves alone, in a file that may have grown.
LEMMA Left ==
    ASSUME Types, NEW m \in Nat, hdr.num_pages <= m
    PROVE  /\ session \in [Session -> Sess(m)] /\ scan \in Scans(m) /\ told \subseteq Nat \X Place(m)
           /\ count \in [rows : Nat, rollbacks : Nat, kills : Nat, lost : Nat]
<1>1. hdr.num_pages \in Nat
  BY Basics
<1>2. /\ Place(hdr.num_pages) \subseteq Place(m) /\ Sess(hdr.num_pages) \subseteq Sess(m)
      /\ Scans(hdr.num_pages) \subseteq Scans(m)
  BY <1>1, Grow
<1> QED BY <1>2 DEF Types

\* A thread that has chosen a slot.
LEMMA Chosen ==
    ASSUME Types, NEW t \in Session, session[t].op \in {"insert", "index"}
    PROVE  /\ session[t] \in [op : {"insert", "index"}, rid : Place(hdr.num_pages), row : Nat]
           /\ session[t].rid \in Place(hdr.num_pages) /\ session[t].row \in Nat
           /\ session[t].rid[1] \in 1 .. hdr.num_pages - 1 /\ session[t].rid[2] \in Slot
           /\ session[t].rid = <<session[t].rid[1], session[t].rid[2]>>
<1>1. session[t] \in [op : {"insert", "index"}, rid : Place(hdr.num_pages), row : Nat]
  BY DEF Types, Sess, Idle
<1>2. session[t].rid \in Place(hdr.num_pages) /\ session[t].row \in Nat
  BY <1>1
<1> QED BY <1>1, <1>2 DEF Place

-----------------------------------------------------------------------------
(***************************************************************************)
(* What each step that changes a page does.                                *)
(***************************************************************************)
\* Only page p may differ, and there are m - 1 pages; the pages in the file stay.
Step(m, p) ==
    /\ Types' /\ hdr'.num_pages = m /\ DOMAIN page' = 1 .. m - 1 /\ disk'.page = disk.page
    /\ \A q \in DOMAIN page \ {p} : page'[q] = page[q]

\* A slot is chosen in the first free page.
ChosenFree(t) ==
    LET p == hdr.first_free
    IN  /\ p \in DOMAIN page /\ HasFree(File) /\ Step(hdr.num_pages, p) /\ hdr' = hdr
        /\ page'[p].num = page[p].num /\ page'[p].bits = page[p].bits /\ page'[p].row = page[p].row
        /\ page'[p].pins = page[p].pins + 1
        /\ \E s \in Slot \ page[p].bits, row \in Nat :
               /\ session' = [session EXCEPT ![t] = [op |-> "insert", rid |-> <<p, s>>, row |-> row]]
               /\ shared' = shared \cup {session[u].rid : u \in Holding(<<p, s>>)}
        /\ count'.lost = count.lost

\* None is free in it, against what the header says.
ChosenNone ==
    LET p == hdr.first_free
    IN  /\ p \in DOMAIN page /\ HasFree(File) /\ Step(hdr.num_pages, p) /\ hdr' = hdr
        /\ page'[p].num = page[p].num /\ page'[p].bits = page[p].bits /\ page'[p].row = page[p].row
        /\ page'[p].pins = page[p].pins
        /\ page[p].bits = Slot /\ UNCHANGED <<session, shared>>

\* A slot is chosen in a new page.
ChosenNew(t) ==
    LET p == hdr.num_pages
    IN  /\ Step(p + 1, p) /\ hdr'.first_free = p
        /\ page'[p].num = 0 /\ page'[p].bits = {} /\ page'[p].pins = 1
        /\ \E s \in Slot, row \in Nat :
               /\ session' = [session EXCEPT ![t] = [op |-> "insert", rid |-> <<p, s>>, row |-> row]]
               /\ shared' = shared \cup {session[u].rid : u \in Holding(<<p, s>>)}
        /\ count'.lost = count.lost

LEMMA InsertChooseDoes ==
    ASSUME Types, NEW t \in Session, InsertChoose(t)
    PROVE  /\ session[t] = Idle /\ UNCHANGED <<scan, told, spare>>
           /\ count'.rollbacks = count.rollbacks /\ count'.kills = count.kills
           /\ ChosenFree(t) \/ ChosenNone \/ ChosenNew(t)
<1> DEFINE n == hdr.num_pages
           F == create_page_handle(File)
           p == IF HasFree(File) THEN hdr.first_free ELSE hdr.num_pages
           s == first_bit(FALSE, F.page[p].bits)
           row == count.rows + 1
           x == [op |-> "insert", rid |-> <<p, s>>, row |-> row]
           both == shared \cup {session[u].rid : u \in Holding(<<p, s>>)}
           counts == [rows : Nat, rollbacks : Nat, kills : Nat, lost : Nat]
<1>1. /\ session[t] = Idle /\ UNCHANGED <<scan, told, spare>> /\ (HasFree(File) \/ n <= MaxPages)
      /\ \/ /\ s = SlotsPerPage /\ Becomes(unpin_page(F, p))
            /\ count' = [count EXCEPT !.rows = row, !.lost = @ + 1] /\ UNCHANGED <<session, shared>>
         \/ /\ s # SlotsPerPage /\ Becomes(F) /\ session' = [session EXCEPT ![t] = x]
            /\ count' = [count EXCEPT !.rows = row] /\ shared' = both
  BY DEF InsertChoose
<1>2. count \in counts
  BY DEF Types
<1>3. /\ count' \in counts /\ row \in Nat
      /\ count'.rollbacks = count.rollbacks /\ count'.kills = count.kills
      /\ s # SlotsPerPage => count'.lost = count.lost
  <2> HIDE DEF s, x, F, p, both
  <2>1. CASE s = SlotsPerPage
    <3> DEFINE a == count.rows + 1
               b == count.lost + 1
    <3>1. count' = [count EXCEPT !.rows = a, !.lost = b]
      BY <1>1, <2>1
    <3>2. a \in Nat /\ b \in Nat /\ a = row
      BY <1>2
    <3> HIDE DEF a, b, row
    <3> QED BY <1>2, <2>1, <3>1, <3>2
  <2>2. CASE s # SlotsPerPage
    <3>1. count' = [count EXCEPT !.rows = count.rows + 1]
      BY <1>1, <2>2
    <3> QED BY <1>2, <3>1
  <2> QED BY <2>1, <2>2
<1>4. n \in Nat \ {0} /\ n <= MaxPages + 1 /\ MaxPages \in Nat /\ File \in Files(n) /\ File.hdr = hdr
      /\ File.page = page /\ DOMAIN page = 1 .. n - 1
  BY Basics
<1>5. HasFree(File) => p \in 1 .. n - 1 /\ p = hdr.first_free
  <2>1. hdr.first_free \in Int
    BY Basics, BoundAssumption DEF Link, NoPage
  <2> QED BY <1>4, <2>1 DEF HasFree
<1>6. CASE HasFree(File)
  <2>1. F = fetch_page_handle(File, p) /\ p \in 1 .. n - 1 /\ p = hdr.first_free
    BY <1>4, <1>5, <1>6 DEF create_page_handle
  <2> HIDE DEF F, p, n
  <2>2. /\ F \in Files(n) /\ Others(File, F, p) /\ F.hdr = hdr
        /\ F.page[p].num = page[p].num /\ F.page[p].bits = page[p].bits /\ F.page[p].row = page[p].row
        /\ F.page[p].pins = page[p].pins + 1
    BY <1>4, <2>1, FetchPage
  <2>3. page[p].bits \in SUBSET Slot /\ page[p].pins \in Int
    <3>1. page[p] \in Rec
      BY <1>4, <2>1, Parts
    <3> QED BY <3>1 DEF Rec
  <2>4. /\ s = SlotsPerPage \/ s \in Slot \ page[p].bits
        /\ s = SlotsPerPage => page[p].bits = Slot
    BY <2>2, <2>3, FirstFree
  <2> HIDE DEF s
  <2>5. /\ session \in [Session -> Sess(n)] /\ scan \in Scans(n) /\ told \subseteq Nat \X Place(n)
    BY <1>4, Left DEF n
  <2>6. CASE s = SlotsPerPage
    <3> DEFINE G == unpin_page(F, p)
    <3>1. /\ G \in Files(n) /\ Others(F, G, p) /\ G.hdr = F.hdr
          /\ G.page[p].num = F.page[p].num /\ G.page[p].bits = F.page[p].bits
          /\ G.page[p].row = F.page[p].row /\ G.page[p].pins = F.page[p].pins - 1
      <4>1. n \in Nat \ {0} /\ F \in Files(n) /\ p \in 1 .. n - 1
        BY <1>4, <2>1, <2>2
      <4> QED BY <4>1, UnpinPage
    <3>2. Becomes(G) /\ session' = session /\ shared' = shared
      BY <1>1, <2>6
    <3> HIDE DEF G
    <3>3. /\ Types' /\ disk'.page = disk.page /\ page' = G.page /\ hdr' = G.hdr
          /\ DOMAIN page' = 1 .. n - 1 /\ hdr'.num_pages = n
      BY <1>1, <1>3, <1>4, <2>5, <3>1, <3>2, Becoming DEF n
    <3>4. \A q \in DOMAIN page \ {p} : page'[q] = page[q]
      <4>1. DOMAIN F.page = DOMAIN page
        BY <1>4, <2>2, Parts
      <4> QED BY <1>4, <2>2, <3>1, <3>3, <4>1 DEF Others
    <3>5. page[p].bits = Slot
      BY <2>4, <2>6
    <3>6. page'[p].pins = page[p].pins
      BY <2>2, <2>3, <3>1, <3>3
    <3>7. ChosenNone
      BY <1>4, <1>6, <2>1, <2>2, <3>1, <3>2, <3>3, <3>4, <3>5, <3>6 DEF ChosenNone, Step, n
    <3> QED BY <1>1, <1>3, <3>7
  <2>7. CASE s # SlotsPerPage
    <3>1. s \in Slot \ page[p].bits
      BY <2>4, <2>7
    <3>2. x \in Sess(n)
      BY <1>3, <2>1, <3>1 DEF Sess, Place
    <3>3. Becomes(F) /\ session' = [session EXCEPT ![t] = x] /\ shared' = both
      BY <1>1, <2>7
    <3>4. session' \in [Session -> Sess(n)]
      BY <2>5, <3>2, <3>3
    <3> HIDE DEF both, x
    <3>5. /\ Types' /\ disk'.page = disk.page /\ page' = F.page /\ hdr' = F.hdr
          /\ DOMAIN page' = 1 .. n - 1 /\ hdr'.num_pages = n
      BY <1>1, <1>3, <1>4, <2>2, <2>5, <3>3, <3>4, Becoming DEF n
    <3>6. \A q \in DOMAIN page \ {p} : page'[q] = page[q]
      BY <1>4, <2>2, <3>5 DEF Others
    <3>7. ChosenFree(t)
      BY <1>3, <1>4, <1>6, <2>1, <2>2, <2>7, <3>1, <3>3, <3>5, <3>6 DEF ChosenFree, Step, n, both, x
    <3> QED BY <1>1, <1>3, <3>7
  <2> QED BY <2>6, <2>7
<1>7. CASE ~HasFree(File)
  <2>1. F = create_new_page_handle(File) /\ p = n /\ n <= MaxPages
    BY <1>1, <1>7 DEF create_page_handle
  <2> HIDE DEF F, p, n
  <2>2. /\ F \in Files(n + 1) /\ F.hdr = [num_pages |-> n + 1, first_free |-> n]
        /\ \A q \in 1 .. n - 1 : F.page[q] = page[q]
        /\ F.page[n].num = 0 /\ F.page[n].bits = {} /\ F.page[n].pins = 1
    BY <1>4, <2>1, NewPage
  <2>3. s \in Slot
    <3>1. s = first_bit(FALSE, {})
      BY <2>1, <2>2
    <3> HIDE DEF s
    <3>2. Slot # {}
      BY SlotsAssumption DEF Slot
    <3> QED BY <3>1, <3>2, FirstFree
  <2> HIDE DEF s
  <2>4. s # SlotsPerPage
    BY <2>3, SlotsAssumption DEF Slot
  <2>5. /\ session \in [Session -> Sess(n + 1)] /\ scan \in Scans(n + 1)
        /\ told \subseteq Nat \X Place(n + 1)
    BY <1>4, Left DEF n
  <2>6. x \in Sess(n + 1)
    BY <1>3, <1>4, <2>1, <2>3 DEF Sess, Place
  <2>7. Becomes(F) /\ session' = [session EXCEPT ![t] = x] /\ shared' = both
    BY <1>1, <2>4
  <2>8. session' \in [Session -> Sess(n + 1)]
    BY <2>5, <2>6, <2>7
  <2>9. /\ Types' /\ disk'.page = disk.page /\ page' = F.page /\ hdr' = F.hdr
        /\ DOMAIN page' = 1 .. (n + 1) - 1 /\ hdr'.num_pages = n + 1
    <3>1. n + 1 \in 1 .. MaxPages + 1
      BY <1>4, <2>1
    <3>2. hdr.num_pages <= n + 1
      BY <1>4 DEF n
    <3>3. scan' \in Scans(n + 1) /\ told' \subseteq Nat \X Place(n + 1)
      BY <1>1, <2>5
    <3> DEFINE m == n + 1
    <3>4. m \in 1 .. MaxPages + 1 /\ hdr.num_pages <= m /\ F \in Files(m) /\ Becomes(F)
          /\ session' \in [Session -> Sess(m)] /\ scan' \in Scans(m)
          /\ told' \subseteq Nat \X Place(m) /\ count' \in counts
      BY <1>3, <2>2, <2>7, <2>8, <3>1, <3>2, <3>3
    <3> HIDE DEF m
    <3>5. /\ Types' /\ disk'.page = disk.page /\ page' = F.page /\ hdr' = F.hdr
          /\ DOMAIN page' = 1 .. m - 1 /\ hdr'.num_pages = m
      BY <3>4, Becoming
    <3> QED BY <3>5 DEF m
  <2>10. \A q \in DOMAIN page \ {n} : page'[q] = page[q]
    BY <1>4, <2>2, <2>9
  <2>11. ChosenNew(t)
    <3>1. Step(n + 1, n)
      BY <2>9, <2>10 DEF Step
    <3>2. hdr'.first_free = n /\ page'[n].num = 0 /\ page'[n].bits = {} /\ page'[n].pins = 1
      BY <2>2, <2>9
    <3>3. count'.lost = count.lost /\ x = [op |-> "insert", rid |-> <<n, s>>, row |-> row]
      BY <1>3, <2>1, <2>4
    <3> HIDE DEF row
    <3> QED BY <1>3, <2>3, <2>7, <3>1, <3>2, <3>3 DEF ChosenNew, n
  <2> QED BY <1>1, <1>3, <2>11
<1> QED BY <1>6, <1>7

LEMMA InsertWriteDoes ==
    ASSUME Types, NEW t \in Session, InsertWrite(t)
    PROVE  LET p == session[t].rid[1]
               s == session[t].rid[2]
           IN  /\ session[t].op = "insert" /\ UNCHANGED <<scan, told, count>>
               /\ p \in DOMAIN page /\ s \in Slot /\ Step(hdr.num_pages, p)
               /\ session' = [session EXCEPT ![t].op = "index"]
               /\ page'[p].num = page[p].num + 1 /\ page'[p].bits = page[p].bits \cup {s}
               /\ page'[p].row = [page[p].row EXCEPT ![s] = session[t].row]
               /\ page'[p].pins = page[p].pins - 1
               /\ hdr'.first_free = IF page[p].num + 1 = SlotsPerPage THEN NoPage ELSE hdr.first_free
<1> DEFINE n == hdr.num_pages
           p == session[t].rid[1]
           s == session[t].rid[2]
           row == session[t].row
           F == Filled(File, p, s, row, NoPage)
           G == unpin_page(F, p)
<1>1. /\ session[t].op = "insert" /\ Becomes(G) /\ UNCHANGED <<scan, told, count>>
      /\ session' = [session EXCEPT ![t].op = "index"]
  BY DEF InsertWrite
<1>2. n \in Nat \ {0} /\ n <= MaxPages + 1 /\ MaxPages \in Nat /\ File \in Files(n) /\ File.hdr = hdr
      /\ File.page = page /\ DOMAIN page = 1 .. n - 1
  BY Basics
<1>3. /\ session[t] \in [op : {"insert", "index"}, rid : Place(n), row : Nat]
      /\ p \in 1 .. n - 1 /\ s \in Slot /\ row \in Nat
  BY <1>1, Chosen
<1>4. NoPage \in Link
  BY DEF Link
<1>5. session' \in [Session -> Sess(n)]
  <2>1. [session[t] EXCEPT !.op = "index"] \in Sess(n)
    BY <1>3 DEF Sess
  <2>2. session \in [Session -> Sess(n)]
    BY DEF Types
  <2> QED BY <1>1, <2>1, <2>2
<1>6. scan \in Scans(n) /\ told \subseteq Nat \X Place(n)
      /\ count \in [rows : Nat, rollbacks : Nat, kills : Nat, lost : Nat]
  BY DEF Types
<1> HIDE DEF n, p, s, row, F
<1>7. /\ F \in Files(n) /\ Others(File, F, p)
      /\ F.hdr.first_free = IF page[p].num + 1 = SlotsPerPage THEN NoPage ELSE hdr.first_free
      /\ F.page[p].num = page[p].num + 1
      /\ F.page[p].bits = page[p].bits \cup {s}
      /\ F.page[p].row = [page[p].row EXCEPT ![s] = row] /\ F.page[p].pins = page[p].pins
  BY <1>2, <1>3, <1>4, FilledPage DEF F
<1>8. /\ G \in Files(n) /\ Others(F, G, p) /\ G.hdr = F.hdr
      /\ G.page[p].num = F.page[p].num /\ G.page[p].bits = F.page[p].bits
      /\ G.page[p].row = F.page[p].row /\ G.page[p].pins = F.page[p].pins - 1
  <2>1. n \in Nat \ {0} /\ F \in Files(n) /\ p \in 1 .. n - 1
    BY <1>2, <1>3, <1>7
  <2> QED BY <2>1, UnpinPage
<1> HIDE DEF G
<1>9. /\ Types' /\ disk'.page = disk.page /\ page' = G.page /\ hdr' = G.hdr
      /\ DOMAIN page' = 1 .. n - 1 /\ hdr'.num_pages = n
  <2>1. n \in 1 .. MaxPages + 1 /\ hdr.num_pages <= n
    BY <1>2 DEF n
  <2> QED BY <2>1, <1>1, <1>5, <1>6, <1>8, Becoming
<1>10. \A q \in DOMAIN page \ {p} : page'[q] = page[q]
  <2>1. DOMAIN F.page = DOMAIN page
    BY <1>2, <1>7, Parts
  <2> QED BY <1>2, <1>7, <1>8, <1>9, <2>1 DEF Others
<1>11. Step(n, p)
  BY <1>9, <1>10 DEF Step
<1>12. /\ page'[p].num = page[p].num + 1 /\ page'[p].bits = page[p].bits \cup {s}
       /\ page'[p].row = [page[p].row EXCEPT ![s] = row]
       /\ page'[p].pins = page[p].pins - 1
       /\ hdr'.first_free = IF page[p].num + 1 = SlotsPerPage THEN NoPage ELSE hdr.first_free
  BY <1>7, <1>8, <1>9
<1> QED BY <1>1, <1>2, <1>3, <1>11, <1>12 DEF n, p, s, row

\* A row that was refused is taken out if its slot is set, and only pinned if not.
LEMMA InsertRefusedDoes ==
    ASSUME Types, NEW t \in Session, InsertRefused(t)
    PROVE  LET p == session[t].rid[1]
               s == session[t].rid[2]
           IN  /\ session[t].op = "index" /\ UNCHANGED <<told, count>>
               /\ p \in DOMAIN page /\ s \in Slot /\ Step(hdr.num_pages, p)
               /\ session' = [session EXCEPT ![t] = Idle]
               /\ scan' = [scan EXCEPT !.must = @ \ {<<p, s>>}]
               /\ \/ /\ s \notin page[p].bits /\ hdr' = hdr
                     /\ page'[p].num = page[p].num /\ page'[p].bits = page[p].bits
                     /\ page'[p].row = page[p].row /\ page'[p].pins = page[p].pins + 1
                  \/ /\ s \in page[p].bits
                     /\ page'[p].num = page[p].num - 1 /\ page'[p].bits = page[p].bits \ {s}
                     /\ page'[p].row = [page[p].row EXCEPT ![s] = NoRow]
                     /\ page'[p].pins = page[p].pins
                     /\ hdr' = hdr \/ (hdr'.first_free = p /\ page'[p].num < SlotsPerPage)
<1> DEFINE n == hdr.num_pages
           p == session[t].rid[1]
           s == session[t].rid[2]
           F == fetch_page_handle(File, p)
           G == Erased(F, p, s)
<1>1. /\ session[t].op = "index" /\ Becomes(G) /\ UNCHANGED <<told, count>>
      /\ session' = [session EXCEPT ![t] = Idle] /\ scan' = [scan EXCEPT !.must = @ \ {<<p, s>>}]
  BY DEF InsertRefused
<1>2. n \in Nat \ {0} /\ n <= MaxPages + 1 /\ MaxPages \in Nat /\ File \in Files(n) /\ File.hdr = hdr
      /\ File.page = page /\ DOMAIN page = 1 .. n - 1
  BY Basics
<1>3. p \in 1 .. n - 1 /\ s \in Slot
  BY <1>1, Chosen
<1>4. session' \in [Session -> Sess(n)]
  BY <1>1 DEF Types, Sess
<1>5. told \subseteq Nat \X Place(n) /\ count \in [rows : Nat, rollbacks : Nat, kills : Nat, lost : Nat]
  BY DEF Types
<1>6. scan' \in Scans(n)
  <2> HIDE DEF p, s
  <2> QED BY <1>1 DEF Types, Scans
<1> HIDE DEF n, p, s, F
<1>7. /\ F \in Files(n) /\ Others(File, F, p) /\ F.hdr = hdr
      /\ F.page[p].num = page[p].num /\ F.page[p].bits = page[p].bits /\ F.page[p].row = page[p].row
      /\ F.page[p].pins = page[p].pins + 1
  BY <1>2, <1>3, FetchPage DEF F
<1>8. DOMAIN F.page = DOMAIN page /\ page[p].pins \in Int
  <2>1. page[p] \in Rec /\ DOMAIN F.page = DOMAIN page
    BY <1>2, <1>3, <1>7, Parts
  <2> QED BY <2>1 DEF Rec
<1>9. /\ G \in Files(n) /\ Others(F, G, p)
      /\ \/ s \notin page[p].bits /\ G = F
         \/ /\ s \in page[p].bits
            /\ \/ G.hdr.first_free = p /\ G.page[p].num < SlotsPerPage
               \/ G.hdr = F.hdr
            /\ G.page[p].num = F.page[p].num - 1 /\ G.page[p].bits = F.page[p].bits \ {s}
            /\ G.page[p].row = [F.page[p].row EXCEPT ![s] = NoRow]
            /\ G.page[p].pins = F.page[p].pins - 1
  <2>1. CASE s \notin page[p].bits
    <3>1. G = F
      BY <1>7, <2>1 DEF Erased
    <3> QED BY <1>7, <2>1, <3>1 DEF Others
  <2>2. CASE s \in page[p].bits
    <3>1. n \in Nat \ {0} /\ F \in Files(n) /\ p \in 1 .. n - 1 /\ n <= MaxPages + 1
          /\ s \in Slot /\ s \in F.page[p].bits
      BY <1>2, <1>3, <1>7, <2>2
    <3>2. G \in Files(n) /\ TakenOut(F, G, p, s)
      BY <3>1, ErasedPage
    <3> QED BY <2>2, <3>2 DEF TakenOut
  <2> QED BY <2>1, <2>2
<1> HIDE DEF G
<1>10. /\ Types' /\ disk'.page = disk.page /\ page' = G.page /\ hdr' = G.hdr
       /\ DOMAIN page' = 1 .. n - 1 /\ hdr'.num_pages = n
  <2>1. n \in 1 .. MaxPages + 1 /\ hdr.num_pages <= n
    BY <1>2 DEF n
  <2> QED BY <2>1, <1>1, <1>4, <1>5, <1>6, <1>9, Becoming
<1>11. \A q \in DOMAIN page \ {p} : page'[q] = page[q]
  BY <1>2, <1>7, <1>8, <1>9, <1>10 DEF Others
<1>12. Step(n, p)
  BY <1>10, <1>11 DEF Step
<1>13. \/ /\ s \notin page[p].bits /\ hdr' = hdr
          /\ page'[p].num = page[p].num /\ page'[p].bits = page[p].bits
          /\ page'[p].row = page[p].row /\ page'[p].pins = page[p].pins + 1
       \/ /\ s \in page[p].bits
          /\ page'[p].num = page[p].num - 1 /\ page'[p].bits = page[p].bits \ {s}
          /\ page'[p].row = [page[p].row EXCEPT ![s] = NoRow]
          /\ page'[p].pins = page[p].pins
          /\ hdr' = hdr \/ (hdr'.first_free = p /\ page'[p].num < SlotsPerPage)
  BY <1>7, <1>8, <1>9, <1>10
<1> QED BY <1>1, <1>2, <1>3, <1>12, <1>13 DEF n, p, s

\* A row that was reported.
LEMMA Told ==
    ASSUME Types, NEW entry \in told
    PROVE  /\ entry[1] \in Nat /\ entry[2] \in Place(hdr.num_pages)
           /\ entry[2][1] \in 1 .. hdr.num_pages - 1 /\ entry[2][2] \in Slot
           /\ entry[2] = <<entry[2][1], entry[2][2]>>
<1>1. entry[1] \in Nat /\ entry[2] \in Place(hdr.num_pages)
  BY DEF Types
<1> QED BY <1>1 DEF Place

LEMMA UpdateDoes ==
    ASSUME Types, NEW t \in Session, NEW entry \in told, update_record(t, entry)
    PROVE  LET p == entry[2][1]
               s == entry[2][2]
           IN  /\ session[t] = Idle /\ UNCHANGED <<session, scan, told, count>>
               /\ p \in DOMAIN page /\ s \in Slot /\ Step(hdr.num_pages, p) /\ hdr' = hdr
               /\ page'[p].num = page[p].num /\ page'[p].bits = page[p].bits
               /\ page'[p].row = [page[p].row EXCEPT ![s] = entry[1]]
               /\ page'[p].pins = page[p].pins
<1> DEFINE n == hdr.num_pages
           p == entry[2][1]
           s == entry[2][2]
           row == entry[1]
           E == fetch_page_handle(File, p)
           F == [E EXCEPT !.page[p].row[s] = row]
           G == unpin_page(F, p)
<1>1. session[t] = Idle /\ Becomes(G) /\ UNCHANGED <<session, scan, told, count>>
  BY DEF update_record
<1>2. n \in Nat \ {0} /\ n <= MaxPages + 1 /\ MaxPages \in Nat /\ File \in Files(n) /\ File.hdr = hdr
      /\ File.page = page /\ DOMAIN page = 1 .. n - 1
  BY Basics
<1>3. p \in 1 .. n - 1 /\ s \in Slot /\ row \in Nat
  BY Told
<1>4. /\ session \in [Session -> Sess(n)] /\ scan \in Scans(n) /\ told \subseteq Nat \X Place(n)
      /\ count \in [rows : Nat, rollbacks : Nat, kills : Nat, lost : Nat]
  BY DEF Types
<1> HIDE DEF n, p, s, row, E
<1>5. /\ E \in Files(n) /\ Others(File, E, p) /\ E.hdr = hdr
      /\ E.page[p].num = page[p].num /\ E.page[p].bits = page[p].bits /\ E.page[p].row = page[p].row
      /\ E.page[p].pins = page[p].pins + 1
  BY <1>2, <1>3, FetchPage DEF E
<1>6. /\ F \in Files(n) /\ Others(E, F, p) /\ F.hdr = E.hdr
      /\ F.page[p].num = E.page[p].num /\ F.page[p].bits = E.page[p].bits
      /\ F.page[p].row = [E.page[p].row EXCEPT ![s] = row] /\ F.page[p].pins = E.page[p].pins
  <2>1. n \in Nat \ {0} /\ E \in Files(n) /\ p \in 1 .. n - 1 /\ s \in Slot /\ row \in Nat
    BY <1>2, <1>3, <1>5
  <2> QED BY <2>1, WrittenRow
<1> HIDE DEF F
<1>7. /\ G \in Files(n) /\ Others(F, G, p) /\ G.hdr = F.hdr
      /\ G.page[p].num = F.page[p].num /\ G.page[p].bits = F.page[p].bits
      /\ G.page[p].row = F.page[p].row /\ G.page[p].pins = F.page[p].pins - 1
  <2>1. n \in Nat \ {0} /\ F \in Files(n) /\ p \in 1 .. n - 1
    BY <1>2, <1>3, <1>6
  <2> QED BY <2>1, UnpinPage
<1> HIDE DEF G
<1>8. /\ Types' /\ disk'.page = disk.page /\ page' = G.page /\ hdr' = G.hdr
      /\ DOMAIN page' = 1 .. n - 1 /\ hdr'.num_pages = n
  <2>1. n \in 1 .. MaxPages + 1 /\ hdr.num_pages <= n
    BY <1>2 DEF n
  <2> QED BY <2>1, <1>1, <1>4, <1>7, Becoming
<1>9. Step(n, p)
  <2>1. DOMAIN E.page = DOMAIN page /\ DOMAIN F.page = DOMAIN page
    BY <1>2, <1>5, <1>6, Parts
  <2>2. \A q \in DOMAIN page \ {p} : page'[q] = page[q]
    BY <1>2, <1>5, <1>6, <1>7, <1>8, <2>1 DEF Others
  <2> QED BY <1>8, <2>2 DEF Step
<1>10. page[p].pins \in Int
  <2>1. page[p] \in Rec
    BY <1>2, <1>3, Parts
  <2> QED BY <2>1 DEF Rec
<1>11. /\ hdr' = hdr /\ page'[p].num = page[p].num /\ page'[p].bits = page[p].bits
       /\ page'[p].row = [page[p].row EXCEPT ![s] = row] /\ page'[p].pins = page[p].pins
  BY <1>5, <1>6, <1>7, <1>8, <1>10
<1> QED BY <1>1, <1>2, <1>3, <1>9, <1>11 DEF n, p, s, row

LEMMA RollbackDeleteDoes ==
    ASSUME Types, NEW t \in Session, NEW entry \in told, RollbackDelete(t, entry)
    PROVE  LET p == entry[2][1]
               s == entry[2][2]
               n == hdr.num_pages
           IN  /\ session[t] = Idle /\ UNCHANGED <<session, scan, told>>
               /\ count'.rollbacks > 0 /\ count'.kills = count.kills
               /\ p \in DOMAIN page /\ s \in Slot /\ Step(n + 1, p)
               /\ page'[n].num = 0 /\ page'[n].bits = {} /\ page'[n].pins = 1
               /\ page'[p].num = page[p].num + 1 /\ page'[p].bits = page[p].bits \cup {s}
               /\ page'[p].row = [page[p].row EXCEPT ![s] = entry[1]]
               /\ page'[p].pins = page[p].pins
<1> DEFINE n == hdr.num_pages
           m == n + 1
           p == entry[2][1]
           s == entry[2][2]
           row == entry[1]
           D == create_new_page_handle(File)
           E == fetch_page_handle(D, p)
           next == E.page[p].next
           F == Filled(E, p, s, row, next)
           G == unpin_page(F, p)
           counts == [rows : Nat, rollbacks : Nat, kills : Nat, lost : Nat]
<1>1. session[t] = Idle /\ n <= MaxPages /\ Becomes(G) /\ UNCHANGED <<session, scan, told>>
      /\ count' = [count EXCEPT !.rollbacks = @ + 1]
  BY DEF RollbackDelete
<1>2. n \in Nat \ {0} /\ n <= MaxPages + 1 /\ MaxPages \in Nat /\ File \in Files(n) /\ File.hdr = hdr
      /\ File.page = page /\ DOMAIN page = 1 .. n - 1
  BY Basics
<1>3. p \in 1 .. n - 1 /\ s \in Slot /\ row \in Nat
  BY Told
<1>4. session \in [Session -> Sess(m)] /\ scan \in Scans(m) /\ told \subseteq Nat \X Place(m)
  <2>1. m \in Nat /\ hdr.num_pages <= m
    BY <1>2
  <2> HIDE DEF m
  <2> QED BY <2>1, Left
<1>5. count' \in counts /\ count'.rollbacks > 0 /\ count'.kills = count.kills
  <2>1. count \in counts
    BY DEF Types
  <2> QED BY <1>1, <2>1
<1>6. m \in Nat \ {0} /\ m \in 1 .. MaxPages + 1 /\ hdr.num_pages <= m /\ m - 1 = n /\ p \in 1 .. m - 1
      /\ n \in 1 .. m - 1 /\ n # p
  BY <1>1, <1>2, <1>3
<1> HIDE DEF n, p, s, row, D
<1>7. /\ D \in Files(n + 1) /\ \A q \in 1 .. n - 1 : D.page[q] = page[q]
      /\ D.page[n].num = 0 /\ D.page[n].bits = {} /\ D.page[n].pins = 1
  <2>1. n \in Nat \ {0} /\ n <= MaxPages /\ File \in Files(n) /\ File.page = page
    BY <1>1, <1>2
  <2> QED BY <2>1, NewPage DEF D
<1>8. D \in Files(m)
  BY <1>7
<1> HIDE DEF m, E
<1>9. /\ E \in Files(m) /\ Others(D, E, p)
      /\ E.page[p].num = D.page[p].num /\ E.page[p].bits = D.page[p].bits
      /\ E.page[p].row = D.page[p].row /\ E.page[p].pins = D.page[p].pins + 1
  BY <1>6, <1>8, FetchPage DEF E
<1>10. next \in Link
  <2>1. E.page[p] \in Rec
    BY <1>6, <1>9, Parts
  <2> QED BY <2>1 DEF Rec
<1> HIDE DEF next, F
<1>11. /\ F \in Files(m) /\ Others(E, F, p)
       /\ F.page[p].num = E.page[p].num + 1
       /\ F.page[p].bits = E.page[p].bits \cup {s}
       /\ F.page[p].row = [E.page[p].row EXCEPT ![s] = row] /\ F.page[p].pins = E.page[p].pins
  <2>1. m \in Nat \ {0} /\ E \in Files(m) /\ p \in 1 .. m - 1 /\ s \in Slot /\ row \in Nat /\ next \in Link
    BY <1>3, <1>6, <1>9, <1>10
  <2> QED BY <2>1, FilledPage DEF F
<1>12. /\ G \in Files(m) /\ Others(F, G, p) /\ G.hdr = F.hdr
       /\ G.page[p].num = F.page[p].num /\ G.page[p].bits = F.page[p].bits
       /\ G.page[p].row = F.page[p].row /\ G.page[p].pins = F.page[p].pins - 1
  <2>1. m \in Nat \ {0} /\ F \in Files(m) /\ p \in 1 .. m - 1
    BY <1>6, <1>11
  <2> QED BY <2>1, UnpinPage
<1> HIDE DEF G
<1>13. /\ Types' /\ disk'.page = disk.page /\ page' = G.page /\ hdr' = G.hdr
       /\ DOMAIN page' = 1 .. m - 1 /\ hdr'.num_pages = m
  BY <1>1, <1>4, <1>5, <1>6, <1>12, Becoming
<1>14. /\ DOMAIN D.page = 1 .. m - 1 /\ DOMAIN E.page = 1 .. m - 1 /\ DOMAIN F.page = 1 .. m - 1
       /\ D.page[p] \in Rec
  BY <1>6, <1>8, <1>9, <1>11, Parts
<1>15. \A q \in 1 .. m - 1 : q # p => page'[q] = D.page[q]
  BY <1>9, <1>11, <1>12, <1>13, <1>14 DEF Others
<1>16. Step(m, p)
  <2>1. \A q \in DOMAIN page \ {p} : page'[q] = page[q]
    BY <1>2, <1>6, <1>7, <1>15
  <2> QED BY <1>13, <2>1 DEF Step
<1>17. page'[n].num = 0 /\ page'[n].bits = {} /\ page'[n].pins = 1
  BY <1>6, <1>7, <1>15
<1>18. /\ page'[p].num = page[p].num + 1 /\ page'[p].bits = page[p].bits \cup {s}
       /\ page'[p].row = [page[p].row EXCEPT ![s] = row] /\ page'[p].pins = page[p].pins
  <2>1. D.page[p].pins \in Int /\ D.page[p] = page[p]
    BY <1>3, <1>7, <1>14 DEF Rec
  <2> QED BY <1>9, <1>11, <1>12, <1>13, <2>1
<1> QED BY <1>1, <1>2, <1>3, <1>5, <1>16, <1>17, <1>18 DEF n, m, p, s, row

\* The pages in the pool stay, and a page is copied to the file.
LEMMA WritePageDoes ==
    ASSUME Types, NEW p \in DOMAIN page, WritePage(p)
    PROVE  /\ Types' /\ UNCHANGED <<hdr, page, session, scan, told, count>>
           /\ disk'.hdr = disk.hdr
           /\ \A q \in DOMAIN disk'.page :
                  (q \in DOMAIN disk.page /\ disk'.page[q] = disk.page[q])
               \/ (q \in DOMAIN page /\ disk'.page[q] = page[q])
<1> DEFINE n == hdr.num_pages
           pg == [q \in DOMAIN disk.page \cup {p} |-> IF q = p THEN page[p] ELSE disk.page[q]]
<1>1. UNCHANGED <<hdr, page, session, scan, told, count>> /\ disk' = [disk EXCEPT !.page = pg]
  BY DEF WritePage
<1>2. disk = [hdr |-> disk.hdr, page |-> disk.page]
  BY DEF Types
<1>3. /\ DOMAIN disk.page \subseteq 1 .. n - 1
      /\ \A q \in DOMAIN disk.page : disk.page[q] \in Rec
  BY DEF Types
<1>4. p \in 1 .. n - 1 /\ page[p] \in Rec
  BY Basics
<1>5. /\ pg \in [DOMAIN pg -> Rec] /\ DOMAIN pg \subseteq 1 .. n - 1
      /\ \A q \in DOMAIN pg : (q \in DOMAIN disk.page /\ pg[q] = disk.page[q])
                           \/ (q \in DOMAIN page /\ pg[q] = page[q])
  BY <1>3, <1>4
<1> HIDE DEF pg
<1>6. disk' = [hdr |-> disk.hdr, page |-> pg]
  BY <1>1, <1>2
<1>7. disk'.hdr = disk.hdr /\ disk'.page = pg /\ DOMAIN disk' = {"hdr", "page"}
      /\ disk' = [hdr |-> disk'.hdr, page |-> disk'.page]
  BY <1>6
<1>8. File' = File
  BY <1>1, <1>7 DEF File
<1>9. Types'
  BY <1>1, <1>5, <1>7, <1>8 DEF Types
<1> QED BY <1>1, <1>5, <1>7, <1>9

\* A page of which only the pins are reset.
LEMMA Unpinned ==
    ASSUME NEW r \in Rec
    PROVE  LET u == [r EXCEPT !.pins = 0]
           IN  u \in Rec /\ u.num = r.num /\ u.bits = r.bits /\ u.row = r.row /\ u.pins = 0
  BY DEF Rec

Quiet == \A t \in Session : session[t] = Idle

LEMMA CloseFileDoes ==
    ASSUME Types, CloseFile
    PROVE  /\ Types' /\ UNCHANGED <<hdr, session, scan, told, count>> /\ Quiet /\ scan = NoScan
           /\ disk'.page = page /\ DOMAIN page' = DOMAIN page
           /\ \A p \in DOMAIN page : /\ page'[p].num = page[p].num /\ page'[p].bits = page[p].bits
                                     /\ page'[p].row = page[p].row /\ page'[p].pins = 0
<1> DEFINE n == hdr.num_pages
<1>1. /\ UNCHANGED <<hdr, session, scan, told, count>> /\ Quiet /\ scan = NoScan
      /\ disk' = [hdr |-> hdr, page |-> page]
      /\ page' = [p \in DOMAIN page |-> [page[p] EXCEPT !.pins = 0]]
  BY DEF CloseFile, Quiet
<1>2. /\ n \in Nat \ {0} /\ page \in [1 .. n - 1 -> Rec] /\ DOMAIN page = 1 .. n - 1 /\ hdr \in Hdr(n)
      /\ \A p \in 1 .. n - 1 : page[p] \in Rec
  BY Basics
<1>3. \A p \in 1 .. n - 1 : /\ page'[p] \in Rec
                            /\ page'[p].num = page[p].num /\ page'[p].bits = page[p].bits
                            /\ page'[p].row = page[p].row /\ page'[p].pins = 0
  <2> TAKE p \in 1 .. n - 1
  <2>1. page'[p] = [page[p] EXCEPT !.pins = 0] /\ page[p] \in Rec
    BY <1>1, <1>2
  <2> QED BY <2>1, Unpinned
<1>4. page' \in [1 .. n - 1 -> Rec]
  BY <1>1, <1>2, <1>3
<1>5. disk'.hdr = hdr /\ disk'.page = page /\ DOMAIN disk' = {"hdr", "page"}
      /\ disk' = [hdr |-> disk'.hdr, page |-> disk'.page]
  BY <1>1
<1>6. File' \in Files(n)
  <2>1. File' = [hdr |-> hdr, page |-> page', dhdr |-> hdr]
    BY <1>1, <1>5 DEF File
  <2> QED BY <1>2, <1>4, <2>1 DEF Files
<1>7. disk'.page \in [DOMAIN disk'.page -> Rec] /\ DOMAIN disk'.page \subseteq 1 .. n - 1
  BY <1>2, <1>5
<1>8. Types'
  BY <1>1, <1>5, <1>6, <1>7 DEF Types
<1> QED BY <1>1, <1>2, <1>3, <1>4, <1>5, <1>8

LEMMA KillDoes ==
    ASSUME Types, Kill
    PROVE  /\ Types' /\ disk' = disk /\ session' = [t \in Session |-> Idle] /\ scan' = NoScan
           /\ told' = {} /\ count'.kills > 0
           /\ DOMAIN page' = 1 .. hdr.num_pages - 1
           /\ \A p \in DOMAIN page' : /\ page'[p].pins = 0
                                      /\ \/ /\ p \in DOMAIN disk.page /\ page'[p].num = disk.page[p].num
                                            /\ page'[p].bits = disk.page[p].bits
                                         \/ page'[p].num = 0 /\ page'[p].bits = {}
<1> DEFINE n == hdr.num_pages
<1>1. /\ disk' = disk /\ session' = [t \in Session |-> Idle] /\ scan' = NoScan /\ told' = {}
      /\ count' = [count EXCEPT !.kills = @ + 1] /\ hdr' = disk.hdr
      /\ page' = [p \in 1..(disk.hdr.num_pages - 1) |->
                     IF p \in DOMAIN disk.page THEN [disk.page[p] EXCEPT !.pins = 0]
                     ELSE EmptyPage(0)]
  BY DEF Kill
<1>2. n \in Nat \ {0} /\ disk.hdr \in Hdr(n) /\ disk.hdr.num_pages = n /\ MaxPages \in Nat
      /\ hdr.num_pages \in 1 .. MaxPages + 1
  BY Basics DEF Hdr
<1>3. \A p \in DOMAIN disk.page : disk.page[p] \in Rec
  BY DEF Types
<1>4. \A p \in 1 .. n - 1 : /\ page'[p] \in Rec /\ page'[p].pins = 0
                            /\ \/ /\ p \in DOMAIN disk.page /\ page'[p].num = disk.page[p].num
                                  /\ page'[p].bits = disk.page[p].bits
                               \/ page'[p].num = 0 /\ page'[p].bits = {}
  <2> TAKE p \in 1 .. n - 1
  <2>1. CASE p \in DOMAIN disk.page
    <3>1. page'[p] = [disk.page[p] EXCEPT !.pins = 0] /\ disk.page[p] \in Rec
      BY <1>1, <1>2, <1>3, <2>1
    <3> QED BY <2>1, <3>1, Unpinned
  <2>2. CASE p \notin DOMAIN disk.page
    <3>1. page'[p] = EmptyPage(0)
      BY <1>1, <1>2, <2>2
    <3>2. 0 \in Link
      BY <1>2 DEF Link
    <3> QED BY <3>1, <3>2 DEF EmptyPage, Rec, Rows, NoRow
  <2> QED BY <2>1, <2>2
<1>5. page' \in [1 .. n - 1 -> Rec] /\ DOMAIN page' = 1 .. n - 1
  BY <1>1, <1>2, <1>4
<1>6. File' \in Files(n)
  <2>1. File' = [hdr |-> disk.hdr, page |-> page', dhdr |-> disk.hdr]
    BY <1>1 DEF File
  <2> QED BY <1>2, <1>5, <2>1 DEF Files
<1>7. count' \in [rows : Nat, rollbacks : Nat, kills : Nat, lost : Nat] /\ count'.kills > 0
  <2>1. count \in [rows : Nat, rollbacks : Nat, kills : Nat, lost : Nat]
    BY DEF Types
  <2> QED BY <1>1, <2>1
<1>8. /\ session' \in [Session -> Sess(n)] /\ scan' \in Scans(n)
  BY <1>1, <1>2 DEF Sess, Scans, NoScan, NoPage
<1>9. /\ DOMAIN disk' = {"hdr", "page"} /\ disk' = [hdr |-> disk'.hdr, page |-> disk'.page]
      /\ disk'.page \in [DOMAIN disk'.page -> Rec] /\ DOMAIN disk'.page \subseteq 1 .. n - 1
      /\ hdr'.num_pages = n
  BY <1>1, <1>2 DEF Types
<1>10. Types'
  <2>1. told' \subseteq Nat \X Place(n)
    BY <1>1
  <2>2. hdr'.num_pages \in 1 .. MaxPages + 1
    BY <1>2, <1>9
  <2> HIDE DEF n
  <2> QED BY <1>6, <1>7, <1>8, <1>9, <2>1, <2>2 DEF Types
<1> QED BY <1>1, <1>4, <1>5, <1>7, <1>10

-----------------------------------------------------------------------------
(***************************************************************************)
(* How the parts of the invariant are kept.                                *)
(***************************************************************************)
LEMMA SlotsFinite ==
    /\ IsFiniteSet(Slot) /\ Cardinality(Slot) = SlotsPerPage
    /\ \A bits \in SUBSET Slot : IsFiniteSet(bits) /\ Cardinality(bits) \in Nat
<1>1. IsFiniteSet(Slot) /\ Cardinality(Slot) = SlotsPerPage
  BY SlotsAssumption, FS_Interval DEF Slot
<1> QED BY <1>1, FS_Subset, FS_CardinalityType

\* A record more, and a record less.
LEMMA FullMore ==
    ASSUME NEW bits \in SUBSET Slot, NEW s \in Slot, NEW n \in Int, n >= Cardinality(bits)
    PROVE  n + 1 >= Cardinality(bits \cup {s})
<1>1. IsFiniteSet(bits) /\ Cardinality(bits) \in Nat
  BY SlotsFinite
<1>2. Cardinality(bits \cup {s}) = IF s \in bits THEN Cardinality(bits) ELSE Cardinality(bits) + 1
  BY <1>1, FS_AddElement
<1> QED BY <1>1, <1>2

LEMMA FullLess ==
    ASSUME NEW bits \in SUBSET Slot, NEW s \in bits, NEW n \in Int, n >= Cardinality(bits)
    PROVE  n - 1 >= Cardinality(bits \ {s})
<1>1. IsFiniteSet(bits) /\ Cardinality(bits) \in Nat
  BY SlotsFinite
<1>2. Cardinality(bits \ {s}) = Cardinality(bits) - 1
  BY <1>1, FS_RemoveElement
<1> QED BY <1>1, <1>2

LEMMA PageFields ==
    ASSUME Types, NEW p \in DOMAIN page
    PROVE  /\ page[p].num \in Int /\ page[p].bits \in SUBSET Slot /\ page[p].pins \in Int
           /\ page[p].row \in [Slot -> Nat]
<1>1. page[p] \in Rec
  BY Basics
<1> QED BY <1>1 DEF Rec, Rows

LEMMA InsertingFinite ==
    ASSUME NEW p
    PROVE  IsFiniteSet(Inserting(p)) /\ Cardinality(Inserting(p)) \in Nat
<1>1. Inserting(p) \subseteq Session
  BY DEF Inserting
<1> QED BY <1>1, BoundAssumption, FS_Subset, FS_CardinalityType

\* Pages whose pins do not fall and whose INSERTs do not grow.
LEMMA PinsKept ==
    ASSUME Types, PinsCover, NEW q \in DOMAIN page, NEW I, I \subseteq Inserting(q), NEW c \in Int,
           c >= page[q].pins
    PROVE  c >= Cardinality(I)
<1>1. IsFiniteSet(Inserting(q)) /\ Cardinality(Inserting(q)) \in Nat
  BY InsertingFinite
<1>2. IsFiniteSet(I) /\ Cardinality(I) \in Nat /\ Cardinality(I) <= Cardinality(Inserting(q))
  BY <1>1, FS_Subset, FS_CardinalityType
<1>3. page[q].pins >= Cardinality(Inserting(q)) /\ page[q].pins \in Int
  BY PageFields DEF PinsCover
<1> QED BY <1>1, <1>2, <1>3

\* A thread more, and a thread less.
LEMMA PinsMore ==
    ASSUME Types, PinsCover, NEW q \in DOMAIN page, NEW t
    PROVE  page[q].pins + 1 >= Cardinality(Inserting(q) \cup {t})
<1>1. IsFiniteSet(Inserting(q)) /\ Cardinality(Inserting(q)) \in Nat
  BY InsertingFinite
<1>2. Cardinality(Inserting(q) \cup {t}) \in {Cardinality(Inserting(q)), Cardinality(Inserting(q)) + 1}
  BY <1>1, FS_AddElement
<1>3. page[q].pins >= Cardinality(Inserting(q)) /\ page[q].pins \in Int
  BY PageFields DEF PinsCover
<1> QED BY <1>1, <1>2, <1>3

LEMMA PinsLess ==
    ASSUME Types, PinsCover, NEW q \in DOMAIN page, NEW t \in Inserting(q)
    PROVE  page[q].pins - 1 >= Cardinality(Inserting(q) \ {t})
<1>1. IsFiniteSet(Inserting(q)) /\ Cardinality(Inserting(q)) \in Nat
  BY InsertingFinite
<1>2. Cardinality(Inserting(q) \ {t}) = Cardinality(Inserting(q)) - 1
  BY <1>1, FS_RemoveElement
<1>3. page[q].pins >= Cardinality(Inserting(q)) /\ page[q].pins \in Int
  BY PageFields DEF PinsCover
<1> QED BY <1>1, <1>2, <1>3

\* A scan is not disturbed by bits that are set.
LEMMA ScanKept ==
    ASSUME Types, ScanInv, scan' = scan, \A q \in DOMAIN page : page[q].bits \subseteq page'[q].bits
    PROVE  ScanInv'
<1>1. \A x \in scan.must : x[1] \in DOMAIN page
  <2>1. scan.must \subseteq Place(hdr.num_pages) /\ DOMAIN page = 1 .. hdr.num_pages - 1
    BY Basics DEF Types, Scans
  <2> QED BY <2>1 DEF Place
<1> QED BY <1>1 DEF ScanInv, Behind

-----------------------------------------------------------------------------
(***************************************************************************)
(* The invariant is inductive: one lemma for each step.                    *)
(***************************************************************************)
LEMMA InvInsertChoose ==
    ASSUME Inv, NEW t \in Session, InsertChoose(t)
    PROVE  Inv'
<1> USE DEF Inv
<1>1. /\ session[t] = Idle /\ scan' = scan
      /\ count'.rollbacks = count.rollbacks /\ count'.kills = count.kills
      /\ ChosenFree(t) \/ ChosenNone \/ ChosenNew(t)
  BY InsertChooseDoes
<1>2. DOMAIN page = 1 .. hdr.num_pages - 1 /\ hdr.num_pages \in Nat \ {0} /\ session \in [Session -> Sess(hdr.num_pages)]
  BY Basics DEF Types
<1>3. \A q : t \notin Inserting(q)
  BY <1>1 DEF Inserting, Idle
<1>4. CASE ChosenFree(t)
  <2> DEFINE p == hdr.first_free
  <2>1. /\ p \in DOMAIN page /\ Step(hdr.num_pages, p) /\ hdr' = hdr
        /\ page'[p].num = page[p].num /\ page'[p].bits = page[p].bits
        /\ page'[p].pins = page[p].pins + 1 /\ count'.lost = count.lost
    BY <1>4 DEF ChosenFree
  <2>2. PICK x : session' = [session EXCEPT ![t] = x] /\ x.op = "insert" /\ x.rid[1] = p
    <3>1. PICK s \in Slot, row \in Nat :
              session' = [session EXCEPT ![t] = [op |-> "insert", rid |-> <<p, s>>, row |-> row]]
      BY <1>4 DEF ChosenFree
    <3> WITNESS [op |-> "insert", rid |-> <<p, s>>, row |-> row]
    <3> QED BY <3>1
  <2>3. Types' /\ DOMAIN page' = DOMAIN page /\ disk'.page = disk.page
        /\ \A q \in DOMAIN page \ {p} : page'[q] = page[q]
    BY <1>2, <2>1 DEF Step
  <2> HIDE DEF p
  <2>4. Counted'
    BY <2>1, <2>3 DEF Counted, Full
  <2>5. PinsCover'
    <3>1. \A q : Inserting(q)' = IF q = p THEN Inserting(q) \cup {t} ELSE Inserting(q)
      BY <1>2, <1>3, <2>2 DEF Inserting
    <3>2. ASSUME NEW q \in DOMAIN page PROVE page'[q].pins >= Cardinality(Inserting(q)')
      <4>1. CASE q = p
        BY <2>1, <3>1, <4>1, PinsMore
      <4>2. CASE q # p
        BY <2>3, <3>1, <4>2 DEF PinsCover
      <4> QED BY <4>1, <4>2
    <3> QED BY <2>3, <3>2 DEF PinsCover
  <2>6. FreeHasRoom'
    <3>1. HasFree(File)' <=> HasFree(File)
      BY <2>1 DEF HasFree, File
    <3> QED BY <1>1, <2>1, <3>1 DEF FreeHasRoom, p
  <2>7. ScanInv'
    BY <1>1, <2>1, <2>3, ScanKept
  <2> QED BY <2>3, <2>4, <2>5, <2>6, <2>7
<1>5. CASE ChosenNone
  <2> DEFINE p == hdr.first_free
  <2>1. /\ p \in DOMAIN page /\ HasFree(File) /\ Step(hdr.num_pages, p) /\ hdr' = hdr
        /\ page'[p].num = page[p].num /\ page'[p].bits = page[p].bits
        /\ page'[p].pins = page[p].pins /\ page[p].bits = Slot /\ session' = session
    BY <1>5 DEF ChosenNone
  <2>2. Types' /\ DOMAIN page' = DOMAIN page /\ disk'.page = disk.page
        /\ \A q \in DOMAIN page \ {p} : page'[q] = page[q]
    BY <1>2, <2>1 DEF Step
  <2>3. Counted'
    BY <2>1, <2>2 DEF Counted, Full
  <2>4. PinsCover'
    BY <2>1, <2>2 DEF PinsCover, Inserting
  <2>5. FreeHasRoom'
    <3>1. page[p].num >= SlotsPerPage /\ page[p].num \in Int
      BY <2>1, PageFields, SlotsFinite DEF Counted, Full
    <3>2. ~(count.rollbacks = 0 /\ count.kills = 0)
      BY <2>1, <3>1, SlotsAssumption DEF FreeHasRoom
    <3> QED BY <1>1, <3>2 DEF FreeHasRoom
  <2>6. ScanInv'
    BY <1>1, <2>1, <2>2, ScanKept
  <2> QED BY <2>2, <2>3, <2>4, <2>5, <2>6
<1>6. CASE ChosenNew(t)
  <2> DEFINE p == hdr.num_pages
  <2>1. /\ Step(p + 1, p) /\ hdr'.first_free = p
        /\ page'[p].num = 0 /\ page'[p].bits = {} /\ page'[p].pins = 1 /\ count'.lost = count.lost
    BY <1>6 DEF ChosenNew
  <2>2. PICK x : session' = [session EXCEPT ![t] = x] /\ x.op = "insert" /\ x.rid[1] = p
    <3>1. PICK s \in Slot, row \in Nat :
              session' = [session EXCEPT ![t] = [op |-> "insert", rid |-> <<p, s>>, row |-> row]]
      BY <1>6 DEF ChosenNew
    <3> WITNESS [op |-> "insert", rid |-> <<p, s>>, row |-> row]
    <3> QED BY <3>1
  <2>3. Types' /\ DOMAIN page' = 1 .. (p + 1) - 1 /\ disk'.page = disk.page
        /\ \A q \in DOMAIN page \ {p} : page'[q] = page[q]
    BY <2>1 DEF Step
  <2>4. DOMAIN page' = DOMAIN page \cup {p} /\ p \notin DOMAIN page
    BY <1>2, <2>3
  <2>5. Inserting(p) = {}
    <3>1. ASSUME NEW u \in Inserting(p) PROVE FALSE
      BY <1>2, <3>1, Chosen DEF Inserting
    <3> QED BY <3>1
  <2> HIDE DEF p
  <2>6. Counted'
    <3>1. page'[p].num >= Cardinality(page'[p].bits)
      <4>1. Cardinality(page'[p].bits) = 0
        BY <2>1, FS_EmptySet
      <4> QED BY <2>1, <4>1
    <3> QED BY <2>3, <2>4, <3>1 DEF Counted, Full
  <2>7. PinsCover'
    <3>1. \A q : Inserting(q)' = IF q = p THEN Inserting(q) \cup {t} ELSE Inserting(q)
      BY <1>2, <1>3, <2>2 DEF Inserting
    <3>2. ASSUME NEW q \in DOMAIN page' PROVE page'[q].pins >= Cardinality(Inserting(q)')
      <4>1. CASE q = p
        <5>1. Inserting(q)' = {t} /\ Cardinality({t}) = 1
          BY <2>5, <3>1, <4>1, FS_Singleton
        <5> QED BY <2>1, <4>1, <5>1
      <4>2. CASE q # p
        BY <2>3, <2>4, <3>1, <4>2 DEF PinsCover
      <4> QED BY <4>1, <4>2
    <3> QED BY <3>2 DEF PinsCover
  <2>8. FreeHasRoom'
    BY <1>1, <2>1, SlotsAssumption DEF FreeHasRoom
  <2>9. ScanInv'
    BY <1>1, <2>3, <2>4, ScanKept
  <2> QED BY <2>3, <2>6, <2>7, <2>8, <2>9
<1> QED BY <1>1, <1>4, <1>5, <1>6

LEMMA InvInsertWrite ==
    ASSUME Inv, NEW t \in Session, InsertWrite(t)
    PROVE  Inv'
<1> USE DEF Inv
<1> DEFINE p == session[t].rid[1]
           s == session[t].rid[2]
<1>1. /\ session[t].op = "insert" /\ UNCHANGED <<scan, told, count>>
      /\ p \in DOMAIN page /\ s \in Slot /\ Step(hdr.num_pages, p)
      /\ session' = [session EXCEPT ![t].op = "index"]
      /\ page'[p].num = page[p].num + 1 /\ page'[p].bits = page[p].bits \cup {s}
      /\ page'[p].pins = page[p].pins - 1
      /\ hdr'.first_free = IF page[p].num + 1 = SlotsPerPage THEN NoPage ELSE hdr.first_free
  BY InsertWriteDoes
<1>2. Types' /\ DOMAIN page' = DOMAIN page /\ disk'.page = disk.page /\ hdr'.num_pages = hdr.num_pages
      /\ \A q \in DOMAIN page \ {p} : page'[q] = page[q]
  BY <1>1, Basics DEF Step
<1>3. session \in [Session -> Sess(hdr.num_pages)]
  BY DEF Types
<1>4. /\ page[p].num \in Int /\ page[p].bits \in SUBSET Slot /\ page[p].pins \in Int
  BY <1>1, PageFields
<1>5. \A q : Inserting(q)' = Inserting(q) \ {t}
  BY <1>1, <1>3 DEF Inserting
<1>6. t \in Inserting(p)
  BY <1>1 DEF Inserting
<1> HIDE DEF p, s
<1>7. Counted'
  <2>1. page'[p].num >= Cardinality(page'[p].bits)
    BY <1>1, <1>4, FullMore DEF Counted, Full
  <2> QED BY <1>2, <2>1 DEF Counted, Full
<1>8. PinsCover'
  <2>1. ASSUME NEW q \in DOMAIN page PROVE page'[q].pins >= Cardinality(Inserting(q)')
    <3>1. CASE q = p
      BY <1>1, <1>5, <1>6, <3>1, PinsLess
    <3>2. CASE q # p
      <4>1. Inserting(q)' = Inserting(q) /\ page'[q] = page[q]
        BY <1>2, <1>5, <3>2 DEF Inserting, p
      <4> QED BY <4>1 DEF PinsCover
    <3> QED BY <3>1, <3>2
  <2> QED BY <1>2, <2>1 DEF PinsCover
<1>9. FreeHasRoom'
  <2>1. CASE page[p].num + 1 = SlotsPerPage
    BY <1>1, <2>1 DEF FreeHasRoom, HasFree, File, NoPage
  <2>2. CASE page[p].num + 1 # SlotsPerPage
    <3>1. HasFree(File)' <=> HasFree(File)
      BY <1>1, <1>2, <2>2 DEF HasFree, File
    <3>2. ASSUME HasFree(File), count.rollbacks = 0, count.kills = 0
          PROVE  page'[hdr.first_free].num < SlotsPerPage
      <4>1. page[hdr.first_free].num < SlotsPerPage
        BY <3>2 DEF FreeHasRoom
      <4>2. hdr.first_free \in DOMAIN page
        <5>1. hdr.first_free \in Int /\ hdr.num_pages \in Nat /\ DOMAIN page = 1 .. hdr.num_pages - 1
          BY Basics, BoundAssumption DEF Link, NoPage
        <5> QED BY <3>2, <5>1 DEF HasFree, File
      <4>3. CASE hdr.first_free = p
        BY <1>1, <1>4, <2>2, <4>1, <4>3, SlotsAssumption
      <4>4. CASE hdr.first_free # p
        BY <1>2, <4>1, <4>2, <4>4
      <4> QED BY <4>3, <4>4
    <3> QED BY <1>1, <2>2, <3>1, <3>2 DEF FreeHasRoom
  <2> QED BY <2>1, <2>2
<1>10. ScanInv'
  BY <1>1, <1>2, ScanKept
<1> QED BY <1>2, <1>7, <1>8, <1>9, <1>10

\* Steps that leave the file alone.
LEMMA FileKept ==
    ASSUME Inv, UNCHANGED <<hdr, page, disk, count>>,
           session' \in [Session -> Sess(hdr.num_pages)], scan' \in Scans(hdr.num_pages),
           told' \subseteq Nat \X Place(hdr.num_pages),
           \A q : Inserting(q)' \subseteq Inserting(q)
    PROVE  Types' /\ Counted' /\ PinsCover' /\ FreeHasRoom'
<1> USE DEF Inv
<1>1. File' = File
  BY DEF File
<1>2. Types'
  BY <1>1 DEF Types
<1>3. Counted'
  BY DEF Counted
<1>4. PinsCover'
  <2>1. ASSUME NEW q \in DOMAIN page PROVE page'[q].pins >= Cardinality(Inserting(q)')
    <3>1. page[q].pins \in Int /\ page[q].pins >= page[q].pins
      BY PageFields
    <3>2. Inserting(q)' \subseteq Inserting(q)
      OBVIOUS
    <3>3. page[q].pins >= Cardinality(Inserting(q)')
      BY <3>1, <3>2, PinsKept
    <3> QED BY <3>3
  <2> QED BY <2>1 DEF PinsCover
<1>5. FreeHasRoom'
  BY <1>1 DEF FreeHasRoom, HasFree
<1> QED BY <1>2, <1>3, <1>4, <1>5

LEMMA InvInsertDone ==
    ASSUME Inv, NEW t \in Session, InsertDone(t)
    PROVE  Inv'
<1> USE DEF Inv
<1>1. /\ session[t].op = "index" /\ session' = [session EXCEPT ![t] = Idle]
      /\ told' = told \cup {<<session[t].row, session[t].rid>>}
      /\ UNCHANGED <<hdr, page, disk, scan, count>>
  BY DEF InsertDone
<1>2. session[t].row \in Nat /\ session[t].rid \in Place(hdr.num_pages)
  BY <1>1, Chosen
<1>3. told' \subseteq Nat \X Place(hdr.num_pages) /\ scan' \in Scans(hdr.num_pages)
  BY <1>1, <1>2 DEF Types
<1>4. session' \in [Session -> Sess(hdr.num_pages)] /\ \A q : Inserting(q)' \subseteq Inserting(q)
  BY <1>1 DEF Types, Sess, Inserting, Idle
<1>5. ScanInv'
  BY <1>1, ScanKept
<1> QED BY <1>1, <1>3, <1>4, <1>5, FileKept

LEMMA InvInsertRefused ==
    ASSUME Inv, NEW t \in Session, InsertRefused(t)
    PROVE  Inv'
<1> USE DEF Inv
<1> DEFINE p == session[t].rid[1]
           s == session[t].rid[2]
<1>1. /\ session[t].op = "index" /\ UNCHANGED <<told, count>>
      /\ p \in DOMAIN page /\ s \in Slot /\ Step(hdr.num_pages, p)
      /\ session' = [session EXCEPT ![t] = Idle]
      /\ scan' = [scan EXCEPT !.must = @ \ {<<p, s>>}]
      /\ \/ /\ s \notin page[p].bits /\ hdr' = hdr
            /\ page'[p].num = page[p].num /\ page'[p].bits = page[p].bits
            /\ page'[p].pins = page[p].pins + 1
         \/ /\ s \in page[p].bits
            /\ page'[p].num = page[p].num - 1 /\ page'[p].bits = page[p].bits \ {s}
            /\ page'[p].pins = page[p].pins
            /\ hdr' = hdr \/ (hdr'.first_free = p /\ page'[p].num < SlotsPerPage)
  BY InsertRefusedDoes
<1>2. Types' /\ DOMAIN page' = DOMAIN page /\ disk'.page = disk.page /\ hdr'.num_pages = hdr.num_pages
      /\ \A q \in DOMAIN page \ {p} : page'[q] = page[q]
  BY <1>1, Basics DEF Step
<1>3. session \in [Session -> Sess(hdr.num_pages)] /\ scan \in Scans(hdr.num_pages)
  BY DEF Types
<1>4. /\ page[p].num \in Int /\ page[p].bits \in SUBSET Slot /\ page[p].pins \in Int
  BY <1>1, PageFields
<1>5. \A q : Inserting(q)' = Inserting(q)
  BY <1>1, <1>3 DEF Inserting, Idle
<1> HIDE DEF p, s
<1>6. Counted'
  <2>1. page'[p].num >= Cardinality(page'[p].bits)
    BY <1>1, <1>4, FullLess DEF Counted, Full
  <2> QED BY <1>2, <2>1 DEF Counted, Full
<1>7. PinsCover'
  <2>1. ASSUME NEW q \in DOMAIN page PROVE page'[q].pins >= Cardinality(Inserting(q)')
    <3>1. page'[q].pins \in Int /\ page'[q].pins >= page[q].pins
      <4>1. CASE q = p
        BY <1>1, <1>4, <4>1
      <4>2. CASE q # p
        BY <1>2, <4>2, PageFields
      <4> QED BY <4>1, <4>2
    <3>2. page'[q].pins >= Cardinality(Inserting(q))
      BY <3>1, PinsKept
    <3> QED BY <1>5, <3>2
  <2> QED BY <1>2, <2>1 DEF PinsCover
<1>8. FreeHasRoom'
  <2>1. ASSUME count.rollbacks = 0, count.kills = 0, HasFree(File)'
        PROVE  page'[hdr'.first_free].num < SlotsPerPage
    <3>1. CASE hdr' = hdr
      <4>1. HasFree(File)
        BY <2>1, <3>1 DEF HasFree, File
      <4>2. page[hdr.first_free].num < SlotsPerPage
        BY <2>1, <4>1 DEF FreeHasRoom
      <4>3. hdr.first_free \in DOMAIN page
        <5>1. hdr.first_free \in Int /\ hdr.num_pages \in Nat /\ DOMAIN page = 1 .. hdr.num_pages - 1
          BY Basics, BoundAssumption DEF Link, NoPage
        <5> QED BY <4>1, <5>1 DEF HasFree, File
      <4>4. CASE hdr.first_free = p
        BY <1>1, <1>4, <3>1, <4>2, <4>4, SlotsAssumption
      <4>5. CASE hdr.first_free # p
        BY <1>2, <3>1, <4>2, <4>3, <4>5
      <4> QED BY <4>4, <4>5
    <3>2. CASE hdr'.first_free = p /\ page'[p].num < SlotsPerPage
      BY <3>2
    <3> QED BY <1>1, <3>1, <3>2
  <2> QED BY <1>1, <2>1 DEF FreeHasRoom
<1>9. ScanInv'
  <2> DEFINE y == <<p, s>>
  <2>1. /\ scan'.must = scan.must \ {y} /\ scan'.page_no = scan.page_no /\ scan'.slot_no = scan.slot_no
        /\ scan'.seen = scan.seen /\ scan'.over = scan.over
    BY <1>1, <1>3 DEF Scans
  <2>2. scan = NoScan => scan' = NoScan
    <3>1. NoScan.must = {} /\ {} \ {y} = {}
      BY DEF NoScan
    <3>3. [scan EXCEPT !.must = scan.must] = scan
      BY <1>3 DEF Scans
    <3>2. scan' = [scan EXCEPT !.must = scan.must \ {y}]
      BY <1>1
    <3> QED BY <3>1, <3>2, <3>3
  <2>3. ASSUME NEW x \in scan'.must
        PROVE  x[2] \in page'[x[1]].bits /\ (Behind(x)' => x \in scan'.seen)
    <3>1. x \in Place(hdr.num_pages) /\ x \in scan.must /\ x # y
      BY <1>3, <2>1 DEF Scans
    <3>2. x = <<x[1], x[2]>> /\ x[1] \in DOMAIN page
      BY <3>1, Basics DEF Place
    <3>3. x[2] \in page[x[1]].bits /\ (Behind(x) => x \in scan.seen)
      BY <3>1 DEF ScanInv
    <3>4. x[2] \in page'[x[1]].bits
      <4>1. CASE x[1] = p
        BY <1>1, <3>1, <3>2, <3>3, <4>1
      <4>2. CASE x[1] # p
        BY <1>2, <3>2, <3>3, <4>2
      <4> QED BY <4>1, <4>2
    <3> QED BY <2>1, <3>3, <3>4 DEF Behind
  <2> QED BY <2>1, <2>2, <2>3 DEF ScanInv
<1> QED BY <1>2, <1>6, <1>7, <1>8, <1>9

LEMMA InvUpdate ==
    ASSUME Inv, NEW t \in Session, NEW entry \in told, update_record(t, entry)
    PROVE  Inv'
<1> USE DEF Inv
<1> DEFINE p == entry[2][1]
<1>1. /\ UNCHANGED <<session, scan, told, count>>
      /\ p \in DOMAIN page /\ Step(hdr.num_pages, p) /\ hdr' = hdr
      /\ page'[p].num = page[p].num /\ page'[p].bits = page[p].bits /\ page'[p].pins = page[p].pins
  BY UpdateDoes
<1>2. Types' /\ DOMAIN page' = DOMAIN page /\ disk'.page = disk.page
      /\ \A q \in DOMAIN page \ {p} : page'[q] = page[q]
  BY <1>1, Basics DEF Step
<1> HIDE DEF p
<1>3. \A q \in DOMAIN page : /\ page'[q].num = page[q].num /\ page'[q].bits = page[q].bits
                             /\ page'[q].pins = page[q].pins
  BY <1>1, <1>2
<1>4. Counted'
  BY <1>2, <1>3 DEF Counted, Full
<1>5. PinsCover'
  BY <1>1, <1>2, <1>3 DEF PinsCover, Inserting
<1>6. FreeHasRoom'
  <2>1. HasFree(File)' <=> HasFree(File)
    BY <1>1 DEF HasFree, File
  <2>2. HasFree(File) => hdr.first_free \in DOMAIN page
    <3>1. hdr.first_free \in Int /\ hdr.num_pages \in Nat /\ DOMAIN page = 1 .. hdr.num_pages - 1
      BY Basics, BoundAssumption DEF Link, NoPage
    <3> QED BY <3>1 DEF HasFree, File
  <2> QED BY <1>1, <1>3, <2>1, <2>2 DEF FreeHasRoom
<1>7. ScanInv'
  BY <1>1, <1>3, ScanKept
<1> QED BY <1>2, <1>4, <1>5, <1>6, <1>7

LEMMA InvRollbackDelete ==
    ASSUME Inv, NEW t \in Session, NEW entry \in told, RollbackDelete(t, entry)
    PROVE  Inv'
<1> USE DEF Inv
<1> DEFINE p == entry[2][1]
           s == entry[2][2]
           n == hdr.num_pages
<1>1. /\ UNCHANGED <<session, scan, told>> /\ count'.rollbacks > 0
      /\ p \in DOMAIN page /\ s \in Slot /\ Step(n + 1, p)
      /\ page'[n].num = 0 /\ page'[n].bits = {} /\ page'[n].pins = 1
      /\ page'[p].num = page[p].num + 1 /\ page'[p].bits = page[p].bits \cup {s}
      /\ page'[p].pins = page[p].pins
  BY RollbackDeleteDoes
<1>2. n \in Nat \ {0} /\ DOMAIN page = 1 .. n - 1
  BY Basics
<1>3. Types' /\ DOMAIN page' = 1 .. (n + 1) - 1 /\ disk'.page = disk.page
      /\ \A q \in DOMAIN page \ {p} : page'[q] = page[q]
  BY <1>1 DEF Step
<1>4. DOMAIN page' = DOMAIN page \cup {n} /\ n \notin DOMAIN page
  BY <1>2, <1>3
<1>5. /\ page[p].num \in Int /\ page[p].bits \in SUBSET Slot /\ page[p].pins \in Int
  BY <1>1, PageFields
<1>6. Inserting(n) = {}
  <2>1. ASSUME NEW u \in Inserting(n) PROVE FALSE
    BY <1>2, <2>1, Chosen DEF Inserting
  <2> QED BY <2>1
<1> HIDE DEF p, s, n
<1>7. Counted'
  <2>1. page'[p].num >= Cardinality(page'[p].bits)
    BY <1>1, <1>5, FullMore DEF Counted, Full
  <2>2. page'[n].num >= Cardinality(page'[n].bits)
    <3>1. Cardinality(page'[n].bits) = 0
      BY <1>1, FS_EmptySet
    <3> QED BY <1>1, <3>1
  <2> QED BY <1>3, <1>4, <2>1, <2>2 DEF Counted, Full
<1>8. PinsCover'
  <2>1. \A q : Inserting(q)' = Inserting(q)
    BY <1>1 DEF Inserting
  <2>2. ASSUME NEW q \in DOMAIN page' PROVE page'[q].pins >= Cardinality(Inserting(q)')
    <3>1. CASE q = n
      <4>1. Inserting(q) = {} /\ Cardinality({}) = 0
        BY <1>6, <3>1, FS_EmptySet
      <4> QED BY <1>1, <2>1, <3>1, <4>1
    <3>2. CASE q \in DOMAIN page
      <4>1. page'[q].pins = page[q].pins
        BY <1>1, <1>3, <3>2
      <4> QED BY <2>1, <3>2, <4>1 DEF PinsCover
    <3> QED BY <1>4, <3>1, <3>2
  <2> QED BY <2>2 DEF PinsCover
<1>9. FreeHasRoom'
  BY <1>1 DEF FreeHasRoom
<1>10. ScanInv'
  BY <1>1, <1>3, ScanKept
<1> QED BY <1>3, <1>7, <1>8, <1>9, <1>10

LEMMA InvScanStart ==
    ASSUME Inv, ScanStart
    PROVE  Inv'
<1> USE DEF Inv
<1>1. /\ scan' = [NoScan EXCEPT !.page_no = 1, !.must = Occupied]
      /\ UNCHANGED <<hdr, page, disk, session, told, count>>
  BY DEF ScanStart
<1>2. /\ scan'.page_no = 1 /\ scan'.slot_no = -1 /\ scan'.seen = {} /\ scan'.must = Occupied
      /\ scan'.over = FALSE /\ DOMAIN scan' = {"page_no", "slot_no", "seen", "must", "over"}
      /\ scan' = [page_no |-> 1, slot_no |-> -1, seen |-> {}, must |-> Occupied, over |-> FALSE]
  BY <1>1 DEF NoScan
<1>3. \A x \in Occupied : /\ x \in Place(hdr.num_pages) /\ x[2] \in page[x[1]].bits
                          /\ x[1] >= 1 /\ x[2] >= 0
  <2> TAKE x \in Occupied
  <2>1. PICK p \in DOMAIN page : \E s \in page[p].bits : x = <<p, s>>
    BY DEF Occupied
  <2>2. PICK s \in page[p].bits : x = <<p, s>>
    BY <2>1
  <2>3. p \in 1 .. hdr.num_pages - 1 /\ s \in Slot /\ hdr.num_pages \in Nat
    BY PageFields, Basics
  <2> QED BY <2>2, <2>3, SlotsAssumption DEF Place, Slot
<1>4. scan' \in Scans(hdr.num_pages)
  <2>1. Occupied \in SUBSET Place(hdr.num_pages)
    BY <1>3
  <2> QED BY <1>2, <2>1 DEF Scans
<1>5. ScanInv'
  <2>1. \A x \in scan'.must : x[2] \in page'[x[1]].bits /\ ~Behind(x)'
    <3> TAKE x \in scan'.must
    <3>1. x[2] \in page[x[1]].bits /\ x[1] >= 1 /\ x[2] >= 0 /\ x \in Place(hdr.num_pages)
      BY <1>2, <1>3
    <3>2. x[1] \in Int /\ x[2] \in Int
      BY <3>1 DEF Place, Slot
    <3> QED BY <1>1, <1>2, <3>1, <3>2 DEF Behind
  <2> QED BY <1>2, <2>1 DEF ScanInv
<1>6. /\ session' \in [Session -> Sess(hdr.num_pages)] /\ told' \subseteq Nat \X Place(hdr.num_pages)
      /\ \A q : Inserting(q)' \subseteq Inserting(q)
  BY <1>1 DEF Types, Inserting
<1> QED BY <1>1, <1>4, <1>5, <1>6, FileKept

LEMMA InvScanNext ==
    ASSUME Inv, ScanNext
    PROVE  Inv'
<1> USE DEF Inv
<1> DEFINE p == scan.page_no
           s == next_bit(TRUE, page[p].bits, scan.slot_no)
           n == hdr.num_pages
<1>1. /\ scan # NoScan /\ ~scan.over
      /\ scan' = IF p >= n THEN [scan EXCEPT !.over = TRUE]
                 ELSE IF s < SlotsPerPage
                 THEN [scan EXCEPT !.slot_no = s, !.seen = @ \cup {<<p, s>>}]
                 ELSE [scan EXCEPT !.page_no = p + 1, !.slot_no = -1]
      /\ UNCHANGED <<hdr, page, disk, session, told, count>>
  BY DEF ScanNext
<1>2. scan \in Scans(n) /\ p \in Int /\ scan.slot_no \in Int /\ p >= 1
  BY <1>1 DEF Types, Scans, ScanInv
<1>3. n \in Nat \ {0} /\ DOMAIN page = 1 .. n - 1
  BY Basics
<1>4. /\ session' \in [Session -> Sess(n)] /\ told' \subseteq Nat \X Place(n)
      /\ \A q : Inserting(q)' \subseteq Inserting(q)
  BY <1>1 DEF Types, Inserting
<1>5. \A x \in scan.must : /\ x = <<x[1], x[2]>> /\ x[1] \in 1 .. n - 1 /\ x[2] \in Slot
                           /\ x[2] \in page[x[1]].bits /\ (Behind(x) => x \in scan.seen)
  <2>1. scan.must \subseteq Place(n)
    BY <1>2 DEF Scans
  <2> QED BY <2>1 DEF Place, ScanInv
<1>6. p < n =>
        /\ s \in 0 .. SlotsPerPage
        /\ s < SlotsPerPage => s \in page[p].bits /\ s > scan.slot_no
        /\ \A i \in page[p].bits : i > scan.slot_no => s <= i
  <2> SUFFICES ASSUME p < n PROVE s \in 0 .. SlotsPerPage
        /\ (s < SlotsPerPage => s \in page[p].bits /\ s > scan.slot_no)
        /\ \A i \in page[p].bits : i > scan.slot_no => s <= i
    OBVIOUS
  <2>1. p \in DOMAIN page
    BY <1>2, <1>3
  <2>2. page[p].bits \in SUBSET Slot
    BY <2>1, PageFields
  <2> QED BY <1>2, <2>2, NextSet
<1> HIDE DEF s, p, n
<1>7. scan' \in Scans(n) /\ ScanInv'
  <2>1. CASE p >= n
    <3>1. scan' = [scan EXCEPT !.over = TRUE]
      BY <1>1, <2>1
    <3>2. /\ scan' \in Scans(n) /\ scan'.must = scan.must /\ scan'.seen = scan.seen
          /\ scan'.page_no = scan.page_no /\ scan'.slot_no = scan.slot_no
      BY <1>2, <3>1 DEF Scans
    <3>3. scan.must \subseteq scan.seen
      <4> SUFFICES ASSUME NEW x \in scan.must PROVE x \in scan.seen
        OBVIOUS
      <4>1. Behind(x)
        BY <1>2, <1>3, <1>5, <2>1 DEF Behind, p
      <4> QED BY <1>5, <4>1
    <3> QED BY <1>1, <1>2, <1>5, <3>2, <3>3 DEF ScanInv, Behind, p
  <2>2. CASE ~(p >= n) /\ s < SlotsPerPage
    <3>1. scan' = [scan EXCEPT !.slot_no = s, !.seen = scan.seen \cup {<<p, s>>}]
      BY <1>1, <2>2
    <3>2. p < n /\ s \in Int
      BY <1>2, <1>3, <1>6, <2>2
    <3>3. /\ scan' \in Scans(n) /\ scan'.must = scan.must /\ scan'.seen = scan.seen \cup {<<p, s>>}
          /\ scan'.page_no = p /\ scan'.slot_no = s /\ scan'.over = scan.over
      <4>1. scan.seen \cup {<<p, s>>} \in SUBSET (Int \X Int)
        BY <1>2, <3>2 DEF Scans
      <4> DEFINE z == scan.seen \cup {<<p, s>>}
      <4> HIDE DEF z
      <4>2. scan' = [scan EXCEPT !.slot_no = s, !.seen = z] /\ z \in SUBSET (Int \X Int)
        BY <3>1, <4>1 DEF z
      <4>3. /\ scan' \in Scans(n) /\ scan'.must = scan.must /\ scan'.seen = z
            /\ scan'.page_no = scan.page_no /\ scan'.slot_no = s /\ scan'.over = scan.over
        BY <1>2, <3>2, <4>2 DEF Scans
      <4> QED BY <4>3 DEF z, p
    <3>4. ASSUME NEW x \in scan.must, Behind(x)' PROVE x \in scan'.seen
      <4>1. x[1] < p \/ (x[1] = p /\ x[2] <= s)
        BY <3>3, <3>4 DEF Behind
      <4>2. CASE Behind(x)
        BY <1>5, <3>3, <4>2
      <4>3. CASE ~Behind(x)
        <5>1. x[1] = p /\ x[2] <= s /\ ~(x[2] <= scan.slot_no)
          BY <4>1, <4>3 DEF Behind, p
        <5>2. x[2] \in page[p].bits /\ x[2] \in Int /\ x = <<p, x[2]>>
          BY <1>5, <5>1 DEF Slot
        <5>3. x[2] = s
          BY <1>2, <1>6, <3>2, <5>1, <5>2
        <5> QED BY <3>3, <5>2, <5>3
      <4> QED BY <4>2, <4>3
    <3> QED BY <1>1, <1>2, <1>5, <3>3, <3>4 DEF ScanInv
  <2>3. CASE ~(p >= n) /\ ~(s < SlotsPerPage)
    <3>1. scan' = [scan EXCEPT !.page_no = p + 1, !.slot_no = -1]
      BY <1>1, <2>3
    <3>2. p < n /\ s = SlotsPerPage
      BY <1>2, <1>3, <1>6, <2>3, SlotsAssumption
    <3>3. /\ scan' \in Scans(n) /\ scan'.must = scan.must /\ scan'.seen = scan.seen
          /\ scan'.page_no = p + 1 /\ scan'.slot_no = -1 /\ scan'.over = scan.over
      <4> DEFINE a == p + 1
                 b == -1
      <4>1. scan' = [scan EXCEPT !.page_no = a, !.slot_no = b] /\ a \in Int /\ b \in Int
        BY <1>2, <3>1
      <4> HIDE DEF a, b
      <4>2. /\ scan' \in Scans(n) /\ scan'.must = scan.must /\ scan'.seen = scan.seen
            /\ scan'.page_no = a /\ scan'.slot_no = b /\ scan'.over = scan.over
        BY <1>2, <4>1 DEF Scans
      <4> QED BY <4>2 DEF a, b
    <3>4. ASSUME NEW x \in scan.must, Behind(x)' PROVE x \in scan'.seen
      <4>1. x[1] \in Int /\ x[2] \in Int /\ x[2] >= 0 /\ x[2] < SlotsPerPage
        BY <1>5, SlotsAssumption DEF Slot
      <4>2. x[1] < p + 1
        BY <1>2, <3>3, <3>4, <4>1 DEF Behind
      <4>3. Behind(x)
        <5>1. CASE x[1] < p
          BY <5>1 DEF Behind, p
        <5>2. CASE x[1] = p
          <6>1. x[2] \in page[p].bits
            BY <1>5, <5>2
          <6>2. ~(x[2] > scan.slot_no)
            BY <1>6, <3>2, <4>1, <6>1, SlotsAssumption
          <6> QED BY <1>2, <4>1, <5>2, <6>2 DEF Behind, p
        <5> QED BY <1>2, <4>1, <4>2, <5>1, <5>2
      <4> QED BY <1>5, <3>3, <4>3
    <3>5. scan'.page_no >= 1
      BY <1>2, <3>3
    <3>6. ~scan'.over
      BY <1>1, <3>3
    <3> QED BY <1>1, <1>5, <3>3, <3>4, <3>5, <3>6 DEF ScanInv
  <2> QED BY <2>1, <2>2, <2>3
<1> QED BY <1>1, <1>4, <1>7, FileKept DEF n

LEMMA InvScanClose ==
    ASSUME Inv, ScanClose
    PROVE  Inv'
<1> USE DEF Inv
<1>1. scan' = NoScan /\ UNCHANGED <<hdr, page, disk, session, told, count>>
  BY DEF ScanClose
<1>2. scan' \in Scans(hdr.num_pages) /\ ScanInv'
  BY <1>1 DEF Scans, NoScan, NoPage, ScanInv
<1>3. /\ session' \in [Session -> Sess(hdr.num_pages)] /\ told' \subseteq Nat \X Place(hdr.num_pages)
      /\ \A q : Inserting(q)' \subseteq Inserting(q)
  BY <1>1 DEF Types, Inserting
<1> QED BY <1>1, <1>2, <1>3, FileKept

LEMMA InvWritePage ==
    ASSUME Inv, NEW p \in DOMAIN page, WritePage(p)
    PROVE  Inv'
<1> USE DEF Inv
<1>1. /\ Types' /\ UNCHANGED <<hdr, page, session, scan, told, count>>
      /\ \A q \in DOMAIN disk'.page :
             (q \in DOMAIN disk.page /\ disk'.page[q] = disk.page[q])
          \/ (q \in DOMAIN page /\ disk'.page[q] = page[q])
  BY WritePageDoes
<1>2. Counted'
  BY <1>1 DEF Counted, Full
<1>3. PinsCover'
  BY <1>1 DEF PinsCover, Inserting
<1>4. FreeHasRoom'
  BY <1>1 DEF FreeHasRoom, HasFree, File
<1>5. ScanInv'
  BY <1>1, ScanKept
<1> QED BY <1>1, <1>2, <1>3, <1>4, <1>5

LEMMA InvCloseFile ==
    ASSUME Inv, CloseFile
    PROVE  Inv'
<1> USE DEF Inv
<1>1. /\ Types' /\ UNCHANGED <<hdr, session, scan, told, count>> /\ Quiet
      /\ disk'.page = page /\ DOMAIN page' = DOMAIN page
      /\ \A p \in DOMAIN page : /\ page'[p].num = page[p].num /\ page'[p].bits = page[p].bits
                                /\ page'[p].pins = 0
  BY CloseFileDoes
<1>2. Counted'
  BY <1>1 DEF Counted, Full
<1>3. PinsCover'
  <2>1. \A q : Inserting(q)' = {}
    BY <1>1 DEF Inserting, Quiet, Idle
  <2>2. Cardinality({}) = 0
    BY FS_EmptySet
  <2>3. ASSUME NEW q \in DOMAIN page PROVE page'[q].pins >= Cardinality(Inserting(q)')
    BY <1>1, <2>1, <2>2
  <2> QED BY <1>1, <2>3 DEF PinsCover
<1>4. FreeHasRoom'
  <2>1. HasFree(File)' <=> HasFree(File)
    BY <1>1 DEF HasFree, File
  <2>2. HasFree(File) => hdr.first_free \in DOMAIN page
    <3>1. hdr.first_free \in Int /\ hdr.num_pages \in Nat /\ DOMAIN page = 1 .. hdr.num_pages - 1
      BY Basics, BoundAssumption DEF Link, NoPage
    <3> QED BY <3>1 DEF HasFree, File
  <2> QED BY <1>1, <2>1, <2>2 DEF FreeHasRoom
<1>5. ScanInv'
  BY <1>1, ScanKept
<1> QED BY <1>1, <1>2, <1>3, <1>4, <1>5

LEMMA InvKill ==
    ASSUME Inv, Kill
    PROVE  Inv'
<1> USE DEF Inv
<1>1. /\ Types' /\ disk' = disk /\ session' = [t \in Session |-> Idle] /\ scan' = NoScan
      /\ told' = {} /\ count'.kills > 0
      /\ \A p \in DOMAIN page' : /\ page'[p].pins = 0
                                 /\ \/ /\ p \in DOMAIN disk.page /\ page'[p].num = disk.page[p].num
                                       /\ page'[p].bits = disk.page[p].bits
                                    \/ page'[p].num = 0 /\ page'[p].bits = {}
  BY KillDoes
<1>2. Cardinality({}) = 0
  BY FS_EmptySet
<1>3. Counted'
  <2>1. ASSUME NEW p \in DOMAIN page' PROVE page'[p].num >= Cardinality(page'[p].bits)
    <3>1. CASE p \in DOMAIN disk.page /\ page'[p].num = disk.page[p].num /\ page'[p].bits = disk.page[p].bits
      BY <3>1 DEF Counted, Full
    <3>2. CASE page'[p].num = 0 /\ page'[p].bits = {}
      BY <1>2, <3>2
    <3> QED BY <1>1, <3>1, <3>2
  <2> QED BY <1>1, <2>1 DEF Counted, Full
<1>4. PinsCover'
  <2>1. \A q : Inserting(q)' = {}
    BY <1>1 DEF Inserting, Idle
  <2>2. ASSUME NEW q \in DOMAIN page' PROVE page'[q].pins >= Cardinality(Inserting(q)')
    <3>1. page'[q].pins = 0
      BY <1>1
    <3>2. Cardinality(Inserting(q)') = 0
      BY <1>2, <2>1
    <3> QED BY <3>1, <3>2
  <2> QED BY <2>2 DEF PinsCover
<1>5. FreeHasRoom'
  BY <1>1 DEF FreeHasRoom
<1>6. ScanInv'
  BY <1>1 DEF ScanInv, NoScan
<1> QED BY <1>1, <1>3, <1>4, <1>5, <1>6

LEMMA InvInit == Init => Inv
<1> SUFFICES ASSUME Init PROVE Inv
  OBVIOUS
<1> DEFINE h == [num_pages |-> 1, first_free |-> NoPage]
<1>1. /\ hdr = h /\ page = <<>> /\ disk = [hdr |-> hdr, page |-> <<>>]
      /\ session = [t \in Session |-> Idle] /\ scan = NoScan /\ told = {}
      /\ count = [rows |-> 0, rollbacks |-> 0, kills |-> 0, lost |-> 0]
  BY DEF Init
<1>2. h \in Hdr(1) /\ h.num_pages = 1
  BY DEF Hdr, Link
<1> HIDE DEF h
<1>3. DOMAIN <<>> = {} /\ <<>> \in [1 .. 1 - 1 -> Rec] /\ <<>> \in [{} -> Rec]
  OBVIOUS
<1>4. disk.hdr = h /\ disk.page = <<>> /\ DOMAIN disk = {"hdr", "page"}
  BY <1>1
<1>5. File \in Files(1)
  <2>1. File = [hdr |-> h, page |-> <<>>, dhdr |-> h]
    BY <1>1, <1>4 DEF File
  <2> QED BY <1>2, <1>3, <2>1 DEF Files
<1>6. Types
  <2>1. 1 \in 1 .. MaxPages + 1
    BY BoundAssumption
  <2>2. session \in [Session -> Sess(1)] /\ scan \in Scans(1)
    BY <1>1 DEF Sess, Scans, NoScan, NoPage
  <2>3. told \subseteq Nat \X Place(1) /\ count \in [rows : Nat, rollbacks : Nat, kills : Nat, lost : Nat]
    BY <1>1
  <2>4. disk.page \in [DOMAIN disk.page -> Rec] /\ DOMAIN disk.page \subseteq 1 .. 1 - 1
    BY <1>3, <1>4
  <2>5. disk = [hdr |-> disk.hdr, page |-> disk.page]
    BY <1>1, <1>4
  <2>6. hdr.num_pages = 1
    BY <1>1, <1>2
  <2> QED BY <1>4, <1>5, <2>1, <2>2, <2>3, <2>4, <2>5, <2>6 DEF Types
<1>7. Counted /\ PinsCover
  BY <1>1, <1>3, <1>4 DEF Counted, PinsCover
<1>8. FreeHasRoom
  BY <1>1, <1>2 DEF FreeHasRoom, HasFree, File, h, NoPage
<1>9. ScanInv
  BY <1>1 DEF ScanInv, NoScan
<1> QED BY <1>6, <1>7, <1>8, <1>9 DEF Inv

LEMMA InvNext == Inv /\ [Next]_vars => Inv'
<1> SUFFICES ASSUME Inv, [Next]_vars PROVE Inv'
  OBVIOUS
<1>1. ASSUME NEW t \in Session, InsertChoose(t) PROVE Inv'
  BY <1>1, InvInsertChoose
<1>2. ASSUME NEW t \in Session, InsertWrite(t) PROVE Inv'
  BY <1>2, InvInsertWrite
<1>3. ASSUME NEW t \in Session, InsertDone(t) PROVE Inv'
  BY <1>3, InvInsertDone
<1>4. ASSUME NEW t \in Session, InsertRefused(t) PROVE Inv'
  BY <1>4, InvInsertRefused
<1>5. ASSUME NEW t \in Session, NEW entry \in told, update_record(t, entry) PROVE Inv'
  BY <1>5, InvUpdate
<1>6. ASSUME NEW t \in Session, NEW entry \in told, RollbackDelete(t, entry) PROVE Inv'
  BY <1>6, InvRollbackDelete
<1>7. CASE ScanStart
  BY <1>7, InvScanStart
<1>8. CASE ScanNext
  BY <1>8, InvScanNext
<1>9. CASE ScanClose
  BY <1>9, InvScanClose
<1>10. ASSUME NEW p \in DOMAIN page, WritePage(p) PROVE Inv'
  BY <1>10, InvWritePage
<1>11. CASE CloseFile
  BY <1>11, InvCloseFile
<1>12. CASE Kill
  BY <1>12, InvKill
<1>13. CASE UNCHANGED vars
  BY <1>13 DEF vars, Inv, Types, File, Counted, PinsCover, Inserting, FreeHasRoom, HasFree, ScanInv, Behind
<1> QED BY <1>1, <1>2, <1>3, <1>4, <1>5, <1>6, <1>7, <1>8, <1>9, <1>10, <1>11, <1>12, <1>13 DEF Next

\* RmFileHandle keeps the invariant above, whatever the threads, the kills and the
\* writes of the buffer pool.
THEOREM RmInvariant == Spec => []Inv
<1> QED BY InvInit, InvNext, PTL DEF Spec

\* The headers tell the truth: every page the header names is there, no count is below
\* its bitmap, no pin count is negative, and a page that is in the file is one that the
\* header in the file knows, so that a kill loses no page (create_new_page_handle writes
\* the header before the page can be written).
THEOREM HeadersAreTrue == Spec => []HeadersTrue
<1>1. Inv => HeadersTrue
  <2> SUFFICES ASSUME Inv PROVE HeadersTrue
    OBVIOUS
  <2> USE DEF Inv
  <2>1. RmTypeOK
    <3>1. DOMAIN page = 1 .. (hdr.num_pages - 1) /\ hdr.first_free \in Link
      BY Basics
    <3>2. ASSUME NEW p \in DOMAIN page PROVE page[p].bits \subseteq Slot /\ page[p].pins >= 0
      BY PageFields, InsertingFinite DEF PinsCover
    <3> QED BY <3>1, <3>2 DEF RmTypeOK, Link
  <2>2. RecordsCounted
    BY DEF RecordsCounted, Counted, Full
  <2>3. WrittenRowsReachable
    <3>1. disk.hdr.num_pages = hdr.num_pages /\ hdr.num_pages \in Nat
      BY Basics DEF Hdr
    <3>2. DOMAIN disk.page \subseteq 1 .. hdr.num_pages - 1
      BY DEF Types
    <3> QED BY <3>1, <3>2 DEF WrittenRowsReachable
  <2> QED BY <2>1, <2>2, <2>3 DEF HeadersTrue
<1> QED BY <1>1, RmInvariant, PTL

\* RmScan: a scan that is over has returned every row that was there when it began and
\* was not taken out, whatever the other threads inserted, refused or rolled back.
THEOREM ScansAreComplete == Spec => []ScanVisitsAll
<1>1. Inv => ScanVisitsAll
  BY DEF Inv, ScanInv, ScanVisitsAll
<1> QED BY <1>1, RmInvariant, PTL

\* insert_record finds a slot in the page that the header says has room, as long as no
\* DELETE was rolled back and the server was not killed.
THEOREM InsertsArePlaced == Spec => []InsertPlaced
<1>1. Inv => InsertPlaced
  BY DEF Inv, FreeHasRoom, InsertPlaced
<1> QED BY <1>1, RmInvariant, PTL

-----------------------------------------------------------------------------
(***************************************************************************)
(* The rows and the pins.  Two threads can choose the same slot:           *)
(* insert_record looks for it before the log is forced and sets its bit    *)
(* after.  Such a slot is shared, and the rest of the file is not touched  *)
(* by what happens to it.                                                  *)
(***************************************************************************)
\* The bit and the row at y stay.
Same(y) ==
    /\ y[2] \in page'[y[1]].bits <=> y[2] \in page[y[1]].bits
    /\ page'[y[1]].row[y[2]] = page[y[1]].row[y[2]]

SameBut(x) == \A y \in Place(hdr.num_pages) : y # x => Same(y)

\* A step that writes one slot.
LEMMA OtherSlots ==
    ASSUME Types, NEW x \in Place(hdr.num_pages), NEW v,
           \A q \in DOMAIN page \ {x[1]} : page'[q] = page[q],
           page'[x[1]].row = [page[x[1]].row EXCEPT ![x[2]] = v],
           page'[x[1]].bits \in {page[x[1]].bits, page[x[1]].bits \cup {x[2]}, page[x[1]].bits \ {x[2]}}
    PROVE  SameBut(x)
<1> SUFFICES ASSUME NEW y \in Place(hdr.num_pages), y # x PROVE Same(y)
  BY DEF SameBut
<1>1. /\ y = <<y[1], y[2]>> /\ x = <<x[1], x[2]>> /\ y[1] \in DOMAIN page /\ y[2] \in Slot
      /\ x[1] \in DOMAIN page
  BY Basics DEF Place
<1>2. page[x[1]].row \in [Slot -> Nat]
  BY <1>1, PageFields
<1>3. CASE y[1] = x[1]
  <2>1. y[2] # x[2]
    BY <1>1, <1>3
  <2> QED BY <1>1, <1>2, <1>3, <2>1 DEF Same
<1>4. CASE y[1] # x[1]
  BY <1>1, <1>4 DEF Same
<1> QED BY <1>3, <1>4

\* What is kept at a slot that stays.
LEMMA EntrySame ==
    ASSUME Types, RowsKept, NEW entry \in told, entry[2] \notin shared, Same(entry[2])
    PROVE  /\ entry[2][2] \in page'[entry[2][1]].bits
           /\ page'[entry[2][1]].row[entry[2][2]] = entry[1]
  BY DEF RowsKept, Same

LEMMA SessionSame ==
    ASSUME Types, NEW t \in Session, session'[t] = session[t], session[t] # Idle, Free(t), Own(t),
           Same(session[t].rid), \A entry \in told' \ told : entry[2] # session[t].rid
    PROVE  Free(t)' /\ Own(t)'
<1>1. Free(t)'
  BY DEF Free, Same
<1>2. Own(t)'
  BY DEF Own, Same
<1> QED BY <1>1, <1>2

\* A thread that has a slot.
LEMMA HasSlot ==
    ASSUME Types, NEW t \in Session, session[t] # Idle
    PROVE  /\ session[t].op \in {"insert", "index"} /\ session[t].rid \in Place(hdr.num_pages)
           /\ session[t].rid[1] \in DOMAIN page /\ session[t].rid[2] \in Slot
           /\ session[t].rid = <<session[t].rid[1], session[t].rid[2]>>
<1>1. session[t].op \in {"insert", "index"}
  BY DEF Types, Sess
<1> QED BY <1>1, Chosen, Basics

\* Steps that leave the rows, the threads and what was reported alone.
LEMMA KeptSame ==
    ASSUME Types, Kept, UNCHANGED <<session, told, shared>>,
           \A q \in DOMAIN page : page'[q].bits = page[q].bits /\ page'[q].row = page[q].row
    PROVE  Kept'
<1>1. \A y \in Place(hdr.num_pages) : Same(y)
  BY Basics DEF Same, Place
<1>2. RowsKept'
  <2> SUFFICES ASSUME NEW entry \in told, entry[2] \notin shared
               PROVE  /\ entry[2][2] \in page'[entry[2][1]].bits
                      /\ page'[entry[2][1]].row[entry[2][2]] = entry[1]
    BY DEF RowsKept
  <2> QED BY <1>1, Told, EntrySame DEF Kept
<1>3. ASSUME NEW t \in Session, session'[t] # Idle, session'[t].rid \notin shared'
      PROVE  Free(t)' /\ Own(t)'
  <2>1. Free(t) /\ Own(t) /\ Same(session[t].rid)
    BY <1>1, <1>3, HasSlot DEF Kept
  <2> QED BY <1>3, <2>1, SessionSame
<1>4. Alone'
  BY DEF Kept, Alone
<1> QED BY <1>2, <1>3, <1>4 DEF Kept

LEMMA KeptInsertChoose ==
    ASSUME Types, Kept, NEW t \in Session, InsertChoose(t)
    PROVE  Kept'
<1>1. /\ session[t] = Idle /\ told' = told
      /\ ChosenFree(t) \/ ChosenNone \/ ChosenNew(t)
  BY InsertChooseDoes
<1>2. DOMAIN page = 1 .. hdr.num_pages - 1 /\ hdr.num_pages \in Nat \ {0}
      /\ session \in [Session -> Sess(hdr.num_pages)]
  BY Basics DEF Types
<1>3. CASE ChosenNone
  <2> DEFINE p == hdr.first_free
  <2>1. /\ Step(hdr.num_pages, p) /\ page'[p].bits = page[p].bits /\ page'[p].row = page[p].row
        /\ session' = session /\ shared' = shared
    BY <1>3 DEF ChosenNone
  <2>2. \A q \in DOMAIN page : page'[q].bits = page[q].bits /\ page'[q].row = page[q].row
    BY <2>1 DEF Step
  <2> QED BY <1>1, <2>1, <2>2, KeptSame
<1>4. ASSUME NEW p, NEW s, NEW row,
             session' = [session EXCEPT ![t] = [op |-> "insert", rid |-> <<p, s>>, row |-> row]],
             shared' = shared \cup {session[u].rid : u \in Holding(<<p, s>>)},
             s \notin page'[p].bits,
             \A q \in DOMAIN page : page'[q].bits = page[q].bits /\ page'[q].row = page[q].row
      PROVE  Kept'
  <2> DEFINE x == <<p, s>>
             z == [op |-> "insert", rid |-> x, row |-> row]
  <2>1. session'[t] = z /\ \A u \in Session \ {t} : session'[u] = session[u]
    BY <1>2, <1>4
  <2>2. z.op = "insert" /\ z.rid = x /\ x[1] = p /\ x[2] = s
    OBVIOUS
  <2> HIDE DEF z, x
  <2>3. \A y \in Place(hdr.num_pages) : Same(y)
    BY <1>2, <1>4 DEF Same, Place
  <2>4. RowsKept'
    <3> SUFFICES ASSUME NEW entry \in told, entry[2] \notin shared
                 PROVE  /\ entry[2][2] \in page'[entry[2][1]].bits
                        /\ page'[entry[2][1]].row[entry[2][2]] = entry[1]
      BY <1>1, <1>4 DEF RowsKept
    <3> QED BY <2>3, Told, EntrySame DEF Kept
  <2>5. ASSUME NEW u \in Session, session'[u] # Idle, session'[u].rid \notin shared'
        PROVE  Free(u)' /\ Own(u)'
    <3>1. CASE u = t
      BY <1>4, <2>1, <2>2, <3>1 DEF Free, Own
    <3>2. CASE u # t
      <4>1. session'[u] = session[u] /\ session[u] # Idle /\ session[u].rid \notin shared
        BY <1>4, <2>1, <2>5, <3>2
      <4>2. Free(u) /\ Own(u) /\ Same(session[u].rid)
        BY <2>3, <4>1, HasSlot DEF Kept
      <4> QED BY <1>1, <4>1, <4>2, SessionSame
    <3> QED BY <3>1, <3>2
  <2>6. Alone'
    <3>0. \A u \in Session \ {t} : session[u] # Idle /\ session[u].rid = x => x \in shared'
      BY <1>4 DEF Holding, x
    <3> SUFFICES ASSUME NEW u \in Session, NEW v \in Session, u # v, session'[u] # Idle,
                        session'[v] # Idle, session'[u].rid = session'[v].rid
                 PROVE  session'[u].rid \in shared'
      BY DEF Alone
    <3>1. CASE u = t
      BY <2>1, <2>2, <3>0, <3>1
    <3>2. CASE v = t
      BY <2>1, <2>2, <3>0, <3>2
    <3>3. CASE u # t /\ v # t
      BY <1>4, <2>1, <3>3 DEF Kept, Alone
    <3> QED BY <3>1, <3>2, <3>3
  <2> QED BY <2>4, <2>5, <2>6 DEF Kept
<1>5. CASE ChosenFree(t)
  <2> DEFINE p == hdr.first_free
  <2>1. /\ p \in DOMAIN page /\ Step(hdr.num_pages, p)
        /\ page'[p].bits = page[p].bits /\ page'[p].row = page[p].row
    BY <1>5 DEF ChosenFree
  <2>2. PICK s \in Slot \ page[p].bits, row \in Nat :
            /\ session' = [session EXCEPT ![t] = [op |-> "insert", rid |-> <<p, s>>, row |-> row]]
            /\ shared' = shared \cup {session[u].rid : u \in Holding(<<p, s>>)}
    BY <1>5 DEF ChosenFree
  <2>3. \A q \in DOMAIN page : page'[q].bits = page[q].bits /\ page'[q].row = page[q].row
    BY <2>1 DEF Step
  <2> HIDE DEF p
  <2> QED BY <1>4, <2>1, <2>2, <2>3
<1>6. CASE ChosenNew(t)
  <2> DEFINE p == hdr.num_pages
  <2>1. Step(p + 1, p) /\ page'[p].bits = {}
    BY <1>6 DEF ChosenNew
  <2>2. PICK s \in Slot, row \in Nat :
            /\ session' = [session EXCEPT ![t] = [op |-> "insert", rid |-> <<p, s>>, row |-> row]]
            /\ shared' = shared \cup {session[u].rid : u \in Holding(<<p, s>>)}
    BY <1>6 DEF ChosenNew
  <2>3. \A q \in DOMAIN page : page'[q] = page[q]
    BY <1>2, <2>1 DEF Step
  <2> HIDE DEF p
  <2> QED BY <1>4, <2>1, <2>2, <2>3
<1> QED BY <1>1, <1>3, <1>5, <1>6

LEMMA KeptInsertWrite ==
    ASSUME Types, Kept, NEW t \in Session, InsertWrite(t)
    PROVE  Kept'
<1> DEFINE x == session[t].rid
<1>1. /\ session[t].op = "insert" /\ told' = told
      /\ x[1] \in DOMAIN page /\ x[2] \in Slot /\ Step(hdr.num_pages, x[1])
      /\ session' = [session EXCEPT ![t].op = "index"]
      /\ page'[x[1]].bits = page[x[1]].bits \cup {x[2]}
      /\ page'[x[1]].row = [page[x[1]].row EXCEPT ![x[2]] = session[t].row]
  BY InsertWriteDoes
<1>2. shared' = shared
  BY DEF InsertWrite
<1>3. session[t] # Idle /\ x \in Place(hdr.num_pages)
  BY <1>1, HasSlot DEF Idle
<1>4. /\ session'[t].op = "index" /\ session'[t].rid = x /\ session'[t].row = session[t].row
      /\ session'[t] # Idle
      /\ \A u \in Session \ {t} : session'[u] = session[u]
  <2>1. session[t] \in [op : {"insert", "index"}, rid : Place(hdr.num_pages), row : Nat]
    BY <1>1, Chosen
  <2>2. session \in [Session -> Sess(hdr.num_pages)]
    BY DEF Types
  <2>3. /\ session'[t].op = "index" /\ session'[t].rid = x /\ session'[t].row = session[t].row
        /\ \A u \in Session \ {t} : session'[u] = session[u]
    BY <1>1, <2>1, <2>2
  <2> QED BY <2>3 DEF Idle
<1>5. page'[x[1]].row[x[2]] = session[t].row /\ x[2] \in page'[x[1]].bits
  <2>1. page[x[1]].row \in [Slot -> Nat]
    BY <1>1, PageFields
  <2> HIDE DEF x
  <2> QED BY <1>1, <2>1
<1>6. x \notin shared => x[2] \notin page[x[1]].bits
  BY <1>1, <1>3 DEF Kept, Free
<1>7. \A u \in Session \ {t} : session[u] # Idle /\ session[u].rid \notin shared => session[u].rid # x
  BY <1>3 DEF Kept, Alone
<1> HIDE DEF x
<1>8. SameBut(x)
  <2>1. \A q \in DOMAIN page \ {x[1]} : page'[q] = page[q]
    BY <1>1 DEF Step
  <2> QED BY <1>1, <1>3, <2>1, OtherSlots
<1>9. \A entry \in told : entry[2] \notin shared => entry[2] # x
  BY <1>6 DEF Kept, RowsKept
<1>10. RowsKept'
  <2> SUFFICES ASSUME NEW entry \in told, entry[2] \notin shared
               PROVE  /\ entry[2][2] \in page'[entry[2][1]].bits
                      /\ page'[entry[2][1]].row[entry[2][2]] = entry[1]
    BY <1>1, <1>2 DEF RowsKept
  <2>1. Same(entry[2])
    BY <1>8, <1>9, Told DEF SameBut
  <2> QED BY <2>1, EntrySame DEF Kept
<1>11. ASSUME NEW u \in Session, session'[u] # Idle, session'[u].rid \notin shared'
       PROVE  Free(u)' /\ Own(u)'
  <2>1. CASE u = t
    <3>1. \A entry \in told' : entry[2] # x
      BY <1>1, <1>2, <1>4, <1>9, <1>11, <2>1
    <3> QED BY <1>4, <1>5, <2>1, <3>1 DEF Free, Own
  <2>2. CASE u # t
    <3>1. session'[u] = session[u] /\ session[u] # Idle /\ session[u].rid \notin shared
      BY <1>2, <1>4, <1>11, <2>2
    <3>2. Free(u) /\ Own(u) /\ Same(session[u].rid)
      BY <1>7, <1>8, <2>2, <3>1, HasSlot DEF Kept, SameBut
    <3> QED BY <1>1, <3>1, <3>2, SessionSame
  <2> QED BY <2>1, <2>2
<1>12. Alone'
  <2>1. \A u \in Session : session'[u].rid = session[u].rid /\ (session'[u] # Idle <=> session[u] # Idle)
    BY <1>3, <1>4 DEF x
  <2> QED BY <1>2, <2>1 DEF Kept, Alone
<1> QED BY <1>10, <1>11, <1>12 DEF Kept

LEMMA KeptInsertDone ==
    ASSUME Types, Kept, NEW t \in Session, InsertDone(t)
    PROVE  Kept'
<1> DEFINE x == session[t].rid
<1>1. /\ session[t].op = "index" /\ session' = [session EXCEPT ![t] = Idle]
      /\ told' = told \cup {<<session[t].row, x>>} /\ UNCHANGED <<page, shared>>
  BY DEF InsertDone
<1>2. session[t] # Idle
  BY <1>1 DEF Idle
<1>3. session'[t] = Idle /\ \A u \in Session \ {t} : session'[u] = session[u]
  BY <1>1 DEF Types
<1>4. x \notin shared => x[2] \in page[x[1]].bits /\ page[x[1]].row[x[2]] = session[t].row
  BY <1>1, <1>2 DEF Kept, Own
<1>5. \A u \in Session \ {t} : session[u] # Idle /\ session[u].rid \notin shared => session[u].rid # x
  BY <1>2 DEF Kept, Alone
<1> HIDE DEF x
<1>6. RowsKept'
  BY <1>1, <1>4 DEF Kept, RowsKept
<1>7. ASSUME NEW u \in Session, session'[u] # Idle, session'[u].rid \notin shared'
      PROVE  Free(u)' /\ Own(u)'
  <2>1. u # t /\ session'[u] = session[u] /\ session[u] # Idle /\ session[u].rid \notin shared
    BY <1>1, <1>3, <1>7
  <2>2. Free(u) /\ Own(u) /\ session[u].rid # x
    BY <1>5, <2>1 DEF Kept
  <2>3. Same(session[u].rid)
    BY <1>1 DEF Same
  <2>4. \A entry \in told' \ told : entry[2] # session[u].rid
    BY <1>1, <2>2
  <2> QED BY <2>1, <2>2, <2>3, <2>4, SessionSame
<1>8. Alone'
  BY <1>1, <1>3 DEF Kept, Alone
<1> QED BY <1>6, <1>7, <1>8 DEF Kept

LEMMA KeptInsertRefused ==
    ASSUME Types, Kept, NEW t \in Session, InsertRefused(t)
    PROVE  Kept'
<1> DEFINE x == session[t].rid
<1>1. /\ session[t].op = "index" /\ told' = told
      /\ x[1] \in DOMAIN page /\ x[2] \in Slot /\ Step(hdr.num_pages, x[1])
      /\ session' = [session EXCEPT ![t] = Idle]
      /\ \/ page'[x[1]].bits = page[x[1]].bits /\ page'[x[1]].row = page[x[1]].row
         \/ /\ page'[x[1]].bits = page[x[1]].bits \ {x[2]}
            /\ page'[x[1]].row = [page[x[1]].row EXCEPT ![x[2]] = NoRow]
  BY InsertRefusedDoes
<1>2. shared' = shared
  BY DEF InsertRefused
<1>3. session[t] # Idle /\ x \in Place(hdr.num_pages)
  BY <1>1, HasSlot DEF Idle
<1>4. session'[t] = Idle /\ \A u \in Session \ {t} : session'[u] = session[u]
  BY <1>1 DEF Types
<1>5. \A u \in Session \ {t} : session[u] # Idle /\ session[u].rid \notin shared => session[u].rid # x
  BY <1>3 DEF Kept, Alone
<1>6. \A entry \in told : entry[2] \notin shared => entry[2] # x
  BY <1>1, <1>3 DEF Kept, Own
<1> HIDE DEF x
<1>7. SameBut(x)
  <2>1. \A q \in DOMAIN page \ {x[1]} : page'[q] = page[q]
    BY <1>1 DEF Step
  <2>2. page[x[1]].row = [page[x[1]].row EXCEPT ![x[2]] = page[x[1]].row[x[2]]]
    <3>1. page[x[1]].row \in [Slot -> Nat]
      BY <1>1, PageFields
    <3> QED BY <3>1
  <2>3. \E v : page'[x[1]].row = [page[x[1]].row EXCEPT ![x[2]] = v]
    BY <1>1, <2>2
  <2> QED BY <1>1, <1>3, <2>1, <2>3, OtherSlots
<1>8. RowsKept'
  <2> SUFFICES ASSUME NEW entry \in told, entry[2] \notin shared
               PROVE  /\ entry[2][2] \in page'[entry[2][1]].bits
                      /\ page'[entry[2][1]].row[entry[2][2]] = entry[1]
    BY <1>1, <1>2 DEF RowsKept
  <2>1. Same(entry[2])
    BY <1>6, <1>7, Told DEF SameBut
  <2> QED BY <2>1, EntrySame DEF Kept
<1>9. ASSUME NEW u \in Session, session'[u] # Idle, session'[u].rid \notin shared'
      PROVE  Free(u)' /\ Own(u)'
  <2>1. u # t /\ session'[u] = session[u] /\ session[u] # Idle /\ session[u].rid \notin shared
    BY <1>2, <1>4, <1>9
  <2>2. Free(u) /\ Own(u) /\ Same(session[u].rid)
    BY <1>5, <1>7, <2>1, HasSlot DEF Kept, SameBut
  <2> QED BY <1>1, <2>1, <2>2, SessionSame
<1>10. Alone'
  BY <1>2, <1>4 DEF Kept, Alone
<1> QED BY <1>8, <1>9, <1>10 DEF Kept

\* A row that was reported is written again in its own slot.
LEMMA RowAgain ==
    ASSUME Types, Kept, NEW entry \in told, UNCHANGED <<session, told, shared>>,
           page'[entry[2][1]].bits \in {page[entry[2][1]].bits, page[entry[2][1]].bits \cup {entry[2][2]}},
           page'[entry[2][1]].row = [page[entry[2][1]].row EXCEPT ![entry[2][2]] = entry[1]],
           \A q \in DOMAIN page \ {entry[2][1]} : page'[q] = page[q]
    PROVE  Kept'
<1> DEFINE x == entry[2]
<1>1. x \in Place(hdr.num_pages) /\ x[1] \in DOMAIN page /\ x[2] \in Slot
  BY Told, Basics
<1>2. page[x[1]].row \in [Slot -> Nat]
  BY <1>1, PageFields
<1>3. x \notin shared => x[2] \in page[x[1]].bits /\ page[x[1]].row[x[2]] = entry[1]
  BY DEF Kept, RowsKept
<1>4. SameBut(x)
  BY <1>1, OtherSlots
<1>5. x \notin shared => Same(x)
  <2> SUFFICES ASSUME x \notin shared PROVE Same(x)
    OBVIOUS
  <2>1. x[2] \in page[x[1]].bits /\ x[2] \in page'[x[1]].bits
    BY <1>3
  <2>2. page'[x[1]].row[x[2]] = entry[1] /\ page[x[1]].row[x[2]] = entry[1]
    BY <1>1, <1>2, <1>3
  <2> QED BY <2>1, <2>2 DEF Same
<1>6. \A y \in Place(hdr.num_pages) : y \notin shared => Same(y)
  BY <1>4, <1>5 DEF SameBut
<1>7. RowsKept'
  <2> SUFFICES ASSUME NEW e \in told, e[2] \notin shared
               PROVE  e[2][2] \in page'[e[2][1]].bits /\ page'[e[2][1]].row[e[2][2]] = e[1]
    BY DEF RowsKept
  <2> QED BY <1>6, Told, EntrySame DEF Kept
<1>8. ASSUME NEW u \in Session, session'[u] # Idle, session'[u].rid \notin shared'
      PROVE  Free(u)' /\ Own(u)'
  <2>1. Free(u) /\ Own(u) /\ Same(session[u].rid)
    BY <1>6, <1>8, HasSlot DEF Kept
  <2> QED BY <1>8, <2>1, SessionSame
<1>9. Alone'
  BY DEF Kept, Alone
<1> QED BY <1>7, <1>8, <1>9 DEF Kept

LEMMA KeptUpdate ==
    ASSUME Types, Kept, NEW t \in Session, NEW entry \in told, update_record(t, entry)
    PROVE  Kept'
<1> DEFINE p == entry[2][1]
           s == entry[2][2]
<1>1. /\ UNCHANGED <<session, told>> /\ Step(hdr.num_pages, p)
      /\ page'[p].bits = page[p].bits /\ page'[p].row = [page[p].row EXCEPT ![s] = entry[1]]
  BY UpdateDoes
<1>2. shared' = shared
  BY DEF update_record
<1>3. \A q \in DOMAIN page \ {p} : page'[q] = page[q]
  BY <1>1 DEF Step
<1> QED BY <1>1, <1>2, <1>3, RowAgain

LEMMA KeptRollbackDelete ==
    ASSUME Types, Kept, NEW t \in Session, NEW entry \in told, RollbackDelete(t, entry)
    PROVE  Kept'
<1> DEFINE p == entry[2][1]
           s == entry[2][2]
<1>1. /\ UNCHANGED <<session, told>> /\ Step(hdr.num_pages + 1, p)
      /\ page'[p].bits = page[p].bits \cup {s} /\ page'[p].row = [page[p].row EXCEPT ![s] = entry[1]]
  BY RollbackDeleteDoes
<1>2. shared' = shared
  BY DEF RollbackDelete
<1>3. \A q \in DOMAIN page \ {p} : page'[q] = page[q]
  BY <1>1 DEF Step
<1> QED BY <1>1, <1>2, <1>3, RowAgain

-----------------------------------------------------------------------------
\* The pins that a page should have.
Owed(q) == Cardinality(Inserting(q)) + Cardinality(spare \cap {q})

LEMMA OwedPins ==
    ASSUME NEW q
    PROVE  /\ Cardinality(Inserting(q)) \in Nat
           /\ Cardinality(spare \cap {q}) = IF q \in spare THEN 1 ELSE 0
<1>1. Cardinality(Inserting(q)) \in Nat
  BY InsertingFinite
<1>2. CASE q \in spare
  <2>1. spare \cap {q} = {q}
    BY <1>2
  <2> QED BY <1>1, <1>2, <2>1, FS_Singleton
<1>3. CASE q \notin spare
  <2>1. spare \cap {q} = {}
    BY <1>3
  <2> QED BY <1>1, <1>3, <2>1, FS_EmptySet
<1> QED BY <1>2, <1>3

\* Steps that leave the pins and the INSERTs alone.
LEMMA PinnedSame ==
    ASSUME Pinned, UNCHANGED spare, shared \subseteq shared', DOMAIN page' = DOMAIN page,
           \A q \in DOMAIN page : page'[q].pins = page[q].pins /\ Inserting(q)' = Inserting(q)
    PROVE  Pinned'
<1>1. PinsReturned'
  BY DEF Pinned, PinsReturned
<1> QED BY <1>1 DEF Pinned

LEMMA PinnedInsertChoose ==
    ASSUME Types, Pinned, NEW t \in Session, InsertChoose(t)
    PROVE  Pinned'
<1>1. /\ session[t] = Idle /\ spare' = spare
      /\ ChosenFree(t) \/ ChosenNone \/ ChosenNew(t)
  BY InsertChooseDoes
<1>2. DOMAIN page = 1 .. hdr.num_pages - 1 /\ hdr.num_pages \in Nat \ {0}
      /\ session \in [Session -> Sess(hdr.num_pages)]
  BY Basics DEF Types
<1>3. \A q : t \notin Inserting(q)
  BY <1>1 DEF Inserting, Idle
<1>4. CASE ChosenNone
  <2> DEFINE p == hdr.first_free
  <2>1. Step(hdr.num_pages, p) /\ page'[p].pins = page[p].pins /\ session' = session /\ shared' = shared
    BY <1>4 DEF ChosenNone
  <2>2. DOMAIN page' = DOMAIN page /\ \A q \in DOMAIN page : page'[q].pins = page[q].pins
    BY <1>2, <2>1 DEF Step
  <2>3. \A q : Inserting(q)' = Inserting(q)
    BY <2>1 DEF Inserting
  <2> QED BY <1>1, <2>1, <2>2, <2>3, PinnedSame
<1>5. ASSUME NEW p, NEW x, session' = [session EXCEPT ![t] = x], x.op = "insert", x.rid[1] = p,
             shared \subseteq shared', DOMAIN page' = DOMAIN page \cup {p},
             \A q \in DOMAIN page \ {p} : page'[q] = page[q],
             \/ p \in DOMAIN page /\ page'[p].pins = page[p].pins + 1
             \/ p \notin DOMAIN page /\ page'[p].pins = 1 /\ Inserting(p) = {}
      PROVE  Pinned'
  <2>1. \A q : Inserting(q)' = IF q = p THEN Inserting(q) \cup {t} ELSE Inserting(q)
    BY <1>2, <1>3, <1>5 DEF Inserting
  <2>2. Cardinality(Inserting(p) \cup {t}) = Cardinality(Inserting(p)) + 1
    BY <1>3, InsertingFinite, FS_AddElement
  <2>3. ASSUME NEW q \in DOMAIN page'
        PROVE  \/ page'[q].pins = Cardinality(Inserting(q)') + Cardinality(spare \cap {q})
               \/ \E s \in Slot : <<q, s>> \in shared'
    <3>1. CASE q # p
      <4>1. q \in DOMAIN page /\ page'[q] = page[q] /\ Inserting(q)' = Inserting(q)
        BY <1>5, <2>1, <3>1
      <4> QED BY <1>5, <4>1 DEF Pinned, PinsReturned
    <3>2. CASE q = p /\ p \in DOMAIN page
      <4>1. CASE \E s \in Slot : <<p, s>> \in shared
        BY <1>5, <3>2, <4>1
      <4>2. CASE page[p].pins = Cardinality(Inserting(p)) + Cardinality(spare \cap {p})
        <5>1. Cardinality(Inserting(p)) \in Nat /\ Cardinality(spare \cap {p}) \in Nat
          BY OwedPins
        <5>2. page'[p].pins = Cardinality(Inserting(p)) + 1 + Cardinality(spare \cap {p})
          BY <1>5, <3>2, <4>2, <5>1
        <5> QED BY <2>1, <2>2, <3>2, <5>2
      <4> QED BY <3>2, <4>1, <4>2 DEF Pinned, PinsReturned
    <3>3. CASE q = p /\ p \notin DOMAIN page
      <4>1. Cardinality(spare \cap {p}) = 0
        BY <3>3, OwedPins DEF Pinned
      <4>2. Inserting(p)' = {t} /\ Cardinality({t}) = 1
        BY <1>5, <2>1, <3>3, FS_Singleton
      <4> QED BY <1>5, <3>3, <4>1, <4>2
    <3> QED BY <3>1, <3>2, <3>3
  <2> QED BY <1>1, <1>5, <2>3 DEF Pinned, PinsReturned
<1>6. CASE ChosenFree(t)
  <2> DEFINE p == hdr.first_free
  <2>1. p \in DOMAIN page /\ Step(hdr.num_pages, p) /\ page'[p].pins = page[p].pins + 1
    BY <1>6 DEF ChosenFree
  <2>2. PICK s \in Slot, row \in Nat :
            /\ session' = [session EXCEPT ![t] = [op |-> "insert", rid |-> <<p, s>>, row |-> row]]
            /\ shared \subseteq shared'
    BY <1>6 DEF ChosenFree
  <2> DEFINE x == [op |-> "insert", rid |-> <<p, s>>, row |-> row]
  <2>3. session' = [session EXCEPT ![t] = x] /\ x.op = "insert" /\ x.rid[1] = p
    BY <2>2
  <2>4. DOMAIN page' = DOMAIN page \cup {p} /\ \A q \in DOMAIN page \ {p} : page'[q] = page[q]
    BY <1>2, <2>1 DEF Step
  <2> HIDE DEF p, x
  <2> QED BY <1>5, <2>1, <2>2, <2>3, <2>4
<1>7. CASE ChosenNew(t)
  <2> DEFINE p == hdr.num_pages
  <2>1. Step(p + 1, p) /\ page'[p].pins = 1
    BY <1>7 DEF ChosenNew
  <2>2. PICK s \in Slot, row \in Nat :
            /\ session' = [session EXCEPT ![t] = [op |-> "insert", rid |-> <<p, s>>, row |-> row]]
            /\ shared \subseteq shared'
    BY <1>7 DEF ChosenNew
  <2> DEFINE x == [op |-> "insert", rid |-> <<p, s>>, row |-> row]
  <2>3. session' = [session EXCEPT ![t] = x] /\ x.op = "insert" /\ x.rid[1] = p
    BY <2>2
  <2>4. DOMAIN page' = DOMAIN page \cup {p} /\ p \notin DOMAIN page
        /\ \A q \in DOMAIN page \ {p} : page'[q] = page[q]
    BY <1>2, <2>1 DEF Step
  <2>5. Inserting(p) = {}
    <3>1. ASSUME NEW u \in Inserting(p) PROVE FALSE
      BY <1>2, <3>1, Chosen DEF Inserting
    <3> QED BY <3>1
  <2> HIDE DEF p, x
  <2> QED BY <1>5, <2>1, <2>2, <2>3, <2>4, <2>5
<1> QED BY <1>1, <1>4, <1>6, <1>7

LEMMA PinnedInsertWrite ==
    ASSUME Types, Pinned, NEW t \in Session, InsertWrite(t)
    PROVE  Pinned'
<1> DEFINE p == session[t].rid[1]
<1>1. /\ session[t].op = "insert" /\ p \in DOMAIN page /\ Step(hdr.num_pages, p)
      /\ session' = [session EXCEPT ![t].op = "index"]
      /\ page'[p].pins = page[p].pins - 1
  BY InsertWriteDoes
<1>2. UNCHANGED <<shared, spare>>
  BY DEF InsertWrite
<1>3. DOMAIN page' = DOMAIN page /\ \A q \in DOMAIN page \ {p} : page'[q] = page[q]
  BY <1>1, Basics DEF Step
<1>4. \A q : Inserting(q)' = Inserting(q) \ {t}
  BY <1>1 DEF Types, Inserting
<1>5. t \in Inserting(p) /\ \A q : q # p => t \notin Inserting(q)
  BY <1>1 DEF Inserting
<1> HIDE DEF p
<1>6. Cardinality(Inserting(p) \ {t}) = Cardinality(Inserting(p)) - 1
  <2>1. IsFiniteSet(Inserting(p))
    BY InsertingFinite
  <2> QED BY <1>5, <2>1, FS_RemoveElement
<1>7. ASSUME NEW q \in DOMAIN page
      PROVE  \/ page'[q].pins = Cardinality(Inserting(q)') + Cardinality(spare \cap {q})
             \/ \E s \in Slot : <<q, s>> \in shared
  <2>1. CASE q # p
    <3>1. page'[q] = page[q] /\ Inserting(q)' = Inserting(q)
      BY <1>3, <1>4, <1>5, <2>1
    <3> QED BY <3>1 DEF Pinned, PinsReturned
  <2>2. CASE q = p /\ page[p].pins = Cardinality(Inserting(p)) + Cardinality(spare \cap {p})
    <3>1. Cardinality(Inserting(p)) \in Nat /\ Cardinality(spare \cap {p}) \in Nat
      BY OwedPins
    <3>2. page'[p].pins = (Cardinality(Inserting(p)) - 1) + Cardinality(spare \cap {p})
      BY <1>1, <2>2, <3>1
    <3> QED BY <1>4, <1>6, <2>2, <3>2
  <2> QED BY <2>1, <2>2 DEF Pinned, PinsReturned
<1> QED BY <1>2, <1>3, <1>7 DEF Pinned, PinsReturned

LEMMA PinnedInsertRefused ==
    ASSUME Types, Kept, Pinned, NEW t \in Session, InsertRefused(t)
    PROVE  Pinned'
<1> DEFINE p == session[t].rid[1]
           s == session[t].rid[2]
<1>1. /\ session[t].op = "index" /\ p \in DOMAIN page /\ s \in Slot /\ Step(hdr.num_pages, p)
      /\ session' = [session EXCEPT ![t] = Idle]
      /\ s \notin page[p].bits \/ page'[p].pins = page[p].pins
  BY InsertRefusedDoes
<1>2. UNCHANGED <<shared, spare>>
  BY DEF InsertRefused
<1>3. DOMAIN page' = DOMAIN page /\ \A q \in DOMAIN page \ {p} : page'[q] = page[q]
  BY <1>1, Basics DEF Step
<1>4. \A q : Inserting(q)' = Inserting(q)
  BY <1>1 DEF Types, Inserting, Idle
<1>5. s \in page[p].bits \/ <<p, s>> \in shared
  <2>1. session[t] # Idle /\ session[t].rid = <<p, s>>
    BY <1>1, HasSlot DEF Idle
  <2> QED BY <1>1, <2>1 DEF Kept, Own
<1> HIDE DEF p, s
<1>6. ASSUME NEW q \in DOMAIN page
      PROVE  \/ page'[q].pins = Cardinality(Inserting(q)') + Cardinality(spare \cap {q})
             \/ \E r \in Slot : <<q, r>> \in shared
  <2>1. CASE page'[q].pins = page[q].pins
    BY <1>4, <2>1 DEF Pinned, PinsReturned
  <2>2. CASE page'[q].pins # page[q].pins
    BY <1>1, <1>3, <1>5, <2>2
  <2> QED BY <2>1, <2>2
<1> QED BY <1>2, <1>3, <1>6 DEF Pinned, PinsReturned

LEMMA PinnedRollbackDelete ==
    ASSUME Types, Pinned, NEW t \in Session, NEW entry \in told, RollbackDelete(t, entry)
    PROVE  Pinned'
<1> DEFINE p == entry[2][1]
           n == hdr.num_pages
<1>1. /\ UNCHANGED session /\ p \in DOMAIN page /\ Step(n + 1, p) /\ page'[n].pins = 1
      /\ page'[p].pins = page[p].pins
  BY RollbackDeleteDoes
<1>2. shared' = shared /\ spare' = spare \cup {n}
  BY DEF RollbackDelete
<1>3. n \in Nat \ {0} /\ DOMAIN page = 1 .. n - 1
  BY Basics
<1>4. DOMAIN page' = DOMAIN page \cup {n} /\ n \notin DOMAIN page
      /\ \A q \in DOMAIN page \ {p} : page'[q] = page[q]
  BY <1>1, <1>3 DEF Step
<1>5. \A q : Inserting(q)' = Inserting(q)
  BY <1>1 DEF Inserting
<1>6. Inserting(n) = {}
  <2>1. ASSUME NEW u \in Inserting(n) PROVE FALSE
    BY <1>3, <2>1, Chosen DEF Inserting
  <2> QED BY <2>1
<1> HIDE DEF p, n
<1>7. ASSUME NEW q \in DOMAIN page'
      PROVE  \/ page'[q].pins = Cardinality(Inserting(q)') + Cardinality(spare' \cap {q})
             \/ \E s \in Slot : <<q, s>> \in shared
  <2>1. CASE q = n
    <3>1. spare' \cap {q} = {n} /\ Cardinality({n}) = 1 /\ Inserting(q)' = {} /\ Cardinality({}) = 0
      BY <1>2, <1>5, <1>6, <2>1, FS_Singleton, FS_EmptySet
    <3>2. page'[q].pins = 1 /\ 1 = 0 + 1
      BY <1>1, <2>1
    <3> QED BY <3>1, <3>2
  <2>2. CASE q # n
    <3>1. q \in DOMAIN page /\ spare' \cap {q} = spare \cap {q} /\ page'[q].pins = page[q].pins
      BY <1>1, <1>2, <1>4, <2>2
    <3> QED BY <1>5, <3>1 DEF Pinned, PinsReturned
  <2> QED BY <2>1, <2>2
<1> QED BY <1>2, <1>4, <1>7 DEF Pinned, PinsReturned

\* When nobody inserts and nothing is pinned.
LEMMA PinnedNone ==
    ASSUME session' = [t \in Session |-> Idle], spare' = {}, \A p \in DOMAIN page' : page'[p].pins = 0
    PROVE  Pinned'
<1>1. \A q : Inserting(q)' = {}
  BY DEF Inserting, Idle
<1>2. \A q : spare' \cap {q} = {}
  OBVIOUS
<1>3. Cardinality({}) = 0 /\ 0 = 0 + 0
  BY FS_EmptySet
<1> QED BY <1>1, <1>2, <1>3 DEF Pinned, PinsReturned

-----------------------------------------------------------------------------
AllInv == Inv /\ Kept /\ Pinned

LEMMA AllNext == AllInv /\ [Next]_vars => AllInv'
<1> SUFFICES ASSUME AllInv, [Next]_vars PROVE AllInv'
  OBVIOUS
<1>0. Inv' /\ Inv /\ Types /\ Kept /\ Pinned
  BY InvNext DEF AllInv, Inv
<1> SUFFICES Kept' /\ Pinned'
  BY <1>0 DEF AllInv
<1>1. ASSUME NEW t \in Session, InsertChoose(t) PROVE Kept' /\ Pinned'
  BY <1>0, <1>1, KeptInsertChoose, PinnedInsertChoose
<1>2. ASSUME NEW t \in Session, InsertWrite(t) PROVE Kept' /\ Pinned'
  BY <1>0, <1>2, KeptInsertWrite, PinnedInsertWrite
<1>3. ASSUME NEW t \in Session, InsertDone(t) PROVE Kept' /\ Pinned'
  <2>1. /\ session[t].op = "index" /\ session' = [session EXCEPT ![t] = Idle]
        /\ UNCHANGED <<page, shared, spare>>
    BY <1>3 DEF InsertDone
  <2>2. \A q : Inserting(q)' = Inserting(q)
    BY <1>0, <2>1 DEF Types, Inserting, Idle
  <2> QED BY <1>0, <1>3, <2>1, <2>2, KeptInsertDone, PinnedSame
<1>4. ASSUME NEW t \in Session, InsertRefused(t) PROVE Kept' /\ Pinned'
  BY <1>0, <1>4, KeptInsertRefused, PinnedInsertRefused
<1>5. ASSUME NEW t \in Session, NEW entry \in told, update_record(t, entry) PROVE Kept' /\ Pinned'
  <2> DEFINE p == entry[2][1]
  <2>1. /\ UNCHANGED session /\ p \in DOMAIN page /\ Step(hdr.num_pages, p)
        /\ page'[p].pins = page[p].pins
    BY <1>0, <1>5, UpdateDoes
  <2>2. UNCHANGED <<shared, spare>>
    BY <1>5 DEF update_record
  <2>3. DOMAIN page' = DOMAIN page /\ \A q \in DOMAIN page : page'[q].pins = page[q].pins
    BY <1>0, <2>1, Basics DEF Step
  <2>4. \A q : Inserting(q)' = Inserting(q)
    BY <2>1 DEF Inserting
  <2> QED BY <1>0, <1>5, <2>2, <2>3, <2>4, KeptUpdate, PinnedSame
<1>6. ASSUME NEW t \in Session, NEW entry \in told, RollbackDelete(t, entry) PROVE Kept' /\ Pinned'
  BY <1>0, <1>6, KeptRollbackDelete, PinnedRollbackDelete
<1>7. ASSUME UNCHANGED <<page, session, told, shared, spare>> PROVE Kept' /\ Pinned'
  <2>1. Kept'
    BY <1>0, <1>7, KeptSame
  <2>2. \A q : Inserting(q)' = Inserting(q)
    BY <1>7 DEF Inserting
  <2> QED BY <1>0, <1>7, <2>1, <2>2, PinnedSame
<1>8. CASE ScanStart \/ ScanNext \/ ScanClose \/ UNCHANGED vars
  BY <1>7, <1>8 DEF ScanStart, ScanNext, ScanClose, vars
<1>9. ASSUME NEW p \in DOMAIN page, WritePage(p) PROVE Kept' /\ Pinned'
  BY <1>7, <1>9 DEF WritePage
<1>10. CASE CloseFile
  <2>1. /\ UNCHANGED <<session, told>> /\ Quiet /\ DOMAIN page' = DOMAIN page
        /\ \A p \in DOMAIN page : /\ page'[p].bits = page[p].bits /\ page'[p].row = page[p].row
                                  /\ page'[p].pins = 0
    BY <1>0, <1>10, CloseFileDoes
  <2>2. shared' = shared /\ spare' = {}
    BY <1>10 DEF CloseFile
  <2>3. Kept'
    BY <1>0, <2>1, <2>2, KeptSame
  <2>4. session' = [t \in Session |-> Idle]
    BY <1>0, <2>1 DEF Quiet, Types
  <2> QED BY <2>1, <2>2, <2>3, <2>4, PinnedNone
<1>11. CASE Kill
  <2>1. /\ session' = [t \in Session |-> Idle] /\ told' = {}
        /\ \A p \in DOMAIN page' : page'[p].pins = 0
    BY <1>0, <1>11, KillDoes
  <2>2. spare' = {}
    BY <1>11 DEF Kill
  <2>3. Kept'
    BY <2>1 DEF Kept, RowsKept, Alone
  <2> QED BY <2>1, <2>2, <2>3, PinnedNone
<1> QED BY <1>1, <1>2, <1>3, <1>4, <1>5, <1>6, <1>8, <1>9, <1>10, <1>11 DEF Next

LEMMA AllInit == Init => AllInv
<1> SUFFICES ASSUME Init PROVE AllInv
  OBVIOUS
<1>1. Inv
  BY InvInit
<1>2. page = <<>> /\ session = [t \in Session |-> Idle] /\ told = {} /\ spare = {} /\ DOMAIN <<>> = {}
  BY DEF Init
<1>3. Kept
  BY <1>2 DEF Kept, RowsKept, Alone
<1>4. Pinned
  BY <1>2 DEF Pinned, PinsReturned
<1> QED BY <1>1, <1>3, <1>4 DEF AllInv

\* A row that an INSERT reported stays in its slot with its contents, whatever the other
\* threads insert, update, refuse and roll back, unless two INSERTs had the slot at the
\* same time (rm_file_handle.cpp:109): what happens to such a slot stays in it.
THEOREM RowsAreKept == Spec => []RowsKept
<1>1. AllInv => RowsKept
  BY DEF AllInv, Kept
<1> QED BY <1>1, AllInit, AllNext, PTL DEF Spec

\* A page has the pins of the INSERTs that have chosen a slot of it and of the rolled
\* back DELETE that made it (rm_file_handle.cpp:184), and no other, unless two INSERTs
\* had a slot of it at the same time: only then does delete_record meet the slot that it
\* leaves without unpinning (:238).
THEOREM PinsAreReturned == Spec => []PinsReturned
<1>1. AllInv => PinsReturned
  BY DEF AllInv, Pinned
<1> QED BY <1>1, AllInit, AllNext, PTL DEF Spec
=============================================================================
