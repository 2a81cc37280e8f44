-------------------------- MODULE BufferPoolProofs --------------------------
(***************************************************************************)
(* The pool over files that stay open (PoolSpec): what is in a frame, what *)
(* page_table_ says and what the clients hold agree.  While files are      *)
(* replaced under it (Spec) the frames and page_table_ still agree, and no *)
(* frame is lost.                                                          *)
(***************************************************************************)
EXTENDS BufferPool, FiniteSetTheorems, SequenceTheorems, TLAPS

\* The members of a list, and a list without repetition.
Members(s) == {s[i] : i \in DOMAIN s}

Unique(s) == \A i, j \in DOMAIN s : s[i] = s[j] => i = j

\* The members of a list of S are in S.
LEMMA MembersIn == ASSUME NEW S, NEW s \in Seq(S) PROVE Members(s) \subseteq S
  BY DEF Members

\* RemoveAt, with which LRUReplacer::pin takes out a frame, moves the later
\* members one place forward.
LEMMA RemoveMoves ==
    ASSUME NEW S, NEW s \in Seq(S), NEW k \in DOMAIN s
    PROVE  /\ RemoveAt(s, k) \in Seq(S)
           /\ Len(RemoveAt(s, k)) = Len(s) - 1
           /\ \A i \in 1 .. Len(s) - 1 : RemoveAt(s, k)[i] = IF i < k THEN s[i] ELSE s[i + 1]
<1> DEFINE a == SubSeq(s, 1, k - 1)  b == SubSeq(s, k + 1, Len(s))
<1>1. /\ k \in 1 .. Len(s) /\ Len(s) \in Nat
      /\ \A i \in 1 .. Len(s) : s[i] \in S
  OBVIOUS
<1>2. a \in Seq(S) /\ Len(a) = k - 1 /\ \A i \in 1 .. k - 1 : a[i] = s[i]
  BY <1>1
<1>3. b \in Seq(S) /\ Len(b) = Len(s) - k /\ \A i \in 1 .. Len(s) - k : b[i] = s[k + i]
  BY <1>1
<1>4. RemoveAt(s, k) = a \o b
  BY DEF RemoveAt
<1> HIDE DEF a, b
<1>5. /\ a \o b \in Seq(S)
      /\ Len(a \o b) = Len(a) + Len(b)
      /\ \A i \in 1 .. Len(a) + Len(b) : (a \o b)[i] = IF i <= Len(a) THEN a[i] ELSE b[i - Len(a)]
  BY <1>2, <1>3, ConcatProperties
<1>6. \A i \in 1 .. Len(s) - 1 : (a \o b)[i] = IF i < k THEN s[i] ELSE s[i + 1]
  <2> SUFFICES ASSUME NEW i \in 1 .. Len(s) - 1
               PROVE  (a \o b)[i] = IF i < k THEN s[i] ELSE s[i + 1]
    OBVIOUS
  <2>1. i \in 1 .. Len(a) + Len(b) /\ Len(a) = k - 1 /\ Len(b) = Len(s) - k
    BY <1>1, <1>2, <1>3
  <2>2. (a \o b)[i] = IF i <= Len(a) THEN a[i] ELSE b[i - Len(a)]
    BY <2>1, <1>5
  <2>3. CASE i < k
    <3>1. i \in 1 .. k - 1 /\ i <= Len(a)
      BY <2>1, <2>3, <1>1
    <3> QED BY <3>1, <2>2, <2>3, <1>2
  <2>4. CASE ~(i < k)
    <3>1. /\ ~(i <= k - 1) /\ i - (k - 1) \in 1 .. Len(s) - k
          /\ k + (i - (k - 1)) = i + 1
      BY <2>4, <1>1
    <3>2. (a \o b)[i] = b[i - (k - 1)]
      BY <3>1, <2>1, <2>2
    <3> QED BY <3>1, <3>2, <2>4, <1>3
  <2> QED BY <2>3, <2>4
<1>7. Len(a) + Len(b) = Len(s) - 1
  BY <1>1, <1>2, <1>3
<1> QED BY <1>4, <1>5, <1>6, <1>7

\* Removing a member keeps the others, once each.
LEMMA RemoveMember ==
    ASSUME NEW S, NEW s \in Seq(S), Unique(s), NEW k \in DOMAIN s
    PROVE  /\ RemoveAt(s, k) \in Seq(S)
           /\ Unique(RemoveAt(s, k))
           /\ Members(RemoveAt(s, k)) = Members(s) \ {s[k]}
<1> DEFINE r == RemoveAt(s, k)
<1>1. /\ r \in Seq(S) /\ Len(r) = Len(s) - 1
      /\ \A i \in 1 .. Len(s) - 1 : r[i] = IF i < k THEN s[i] ELSE s[i + 1]
  BY RemoveMoves
<1> HIDE DEF r
<1>2. DOMAIN r = 1 .. Len(s) - 1 /\ DOMAIN s = 1 .. Len(s) /\ Len(s) \in Nat /\ k \in 1 .. Len(s)
  BY <1>1
<1>3. Unique(r)
  <2> SUFFICES ASSUME NEW i \in 1 .. Len(s) - 1, NEW j \in 1 .. Len(s) - 1, r[i] = r[j]
               PROVE  i = j
    BY <1>2 DEF Unique
  <2> DEFINE at(n) == IF n < k THEN n ELSE n + 1
  <2>1. at(i) \in DOMAIN s /\ at(j) \in DOMAIN s /\ r[i] = s[at(i)] /\ r[j] = s[at(j)]
    BY <1>1, <1>2
  <2>2. at(i) = at(j)
    BY <2>1 DEF Unique
  <2> QED BY <2>2, <1>2
<1>4. ASSUME NEW x \in Members(r) PROVE x \in Members(s) /\ x # s[k]
  <2>1. PICK i \in 1 .. Len(s) - 1 : x = r[i]
    BY <1>2 DEF Members
  <2>2. CASE i < k
    BY <2>1, <2>2, <1>1, <1>2 DEF Members, Unique
  <2>3. CASE ~(i < k)
    <3>1. x = s[i + 1] /\ i + 1 \in DOMAIN s /\ i + 1 # k
      BY <2>1, <2>3, <1>1, <1>2
    <3> QED BY <3>1 DEF Members, Unique
  <2> QED BY <2>2, <2>3
<1>5. ASSUME NEW x \in Members(s), x # s[k] PROVE x \in Members(r)
  <2>1. PICK i \in 1 .. Len(s) : x = s[i]
    BY <1>2 DEF Members
  <2>2. CASE i < k
    BY <2>1, <2>2, <1>1, <1>2 DEF Members
  <2>3. CASE i > k
    <3>1. i - 1 \in 1 .. Len(s) - 1 /\ r[i - 1] = s[i]
      BY <2>3, <1>1, <1>2
    <3> QED BY <3>1, <2>1, <1>2 DEF Members
  <2> QED BY <2>1, <2>2, <2>3, <1>5, <1>2
<1> QED BY <1>1, <1>3, <1>4, <1>5 DEF r

\* LRUReplacer::pin takes out the frame.
LEMMA PinRemoves ==
    ASSUME NEW f \in Frame, LRUlist \in Seq(Frame), Unique(LRUlist)
    PROVE  /\ pin(f) \in Seq(Frame)
           /\ Unique(pin(f))
           /\ Members(pin(f)) = Members(LRUlist) \ {f}
<1>1. CASE \E i \in DOMAIN LRUlist : LRUlist[i] = f
  <2> DEFINE k == CHOOSE i \in DOMAIN LRUlist : LRUlist[i] = f
  <2>1. k \in DOMAIN LRUlist /\ LRUlist[k] = f
    BY <1>1
  <2>2. pin(f) = RemoveAt(LRUlist, k)
    BY <1>1 DEF pin
  <2> HIDE DEF k
  <2> QED BY <2>1, <2>2, RemoveMember
<1>2. CASE ~\E i \in DOMAIN LRUlist : LRUlist[i] = f
  BY <1>2 DEF pin, Members
<1> QED BY <1>1, <1>2

\* LRUReplacer::unpin adds the frame.
LEMMA UnpinAdds ==
    ASSUME NEW f \in Frame, LRUlist \in Seq(Frame), Unique(LRUlist)
    PROVE  /\ unpin(f) \in Seq(Frame)
           /\ Unique(unpin(f))
           /\ Members(unpin(f)) = Members(LRUlist) \cup {f}
<1>1. CASE \E i \in DOMAIN LRUlist : LRUlist[i] = f
  BY <1>1 DEF unpin, Members
<1>2. CASE ~\E i \in DOMAIN LRUlist : LRUlist[i] = f
  <2> DEFINE r == <<f>> \o LRUlist
  <2>1. unpin(f) = r
    BY <1>2 DEF unpin
  <2>2. <<f>> \in Seq(Frame) /\ Len(<<f>>) = 1 /\ <<f>>[1] = f /\ Len(LRUlist) \in Nat
    OBVIOUS
  <2>3. /\ r \in Seq(Frame)
        /\ Len(r) = 1 + Len(LRUlist)
        /\ \A i \in 1 .. 1 + Len(LRUlist) : r[i] = IF i <= 1 THEN f ELSE LRUlist[i - 1]
    BY <2>2, ConcatProperties
  <2> HIDE DEF r
  <2>4. DOMAIN r = 1 .. 1 + Len(LRUlist) /\ DOMAIN LRUlist = 1 .. Len(LRUlist)
    BY <2>3
  <2>5. Unique(r)
    <3> SUFFICES ASSUME NEW i \in DOMAIN r, NEW j \in DOMAIN r, r[i] = r[j] PROVE i = j
      BY DEF Unique
    <3>1. i \in 1 .. 1 + Len(LRUlist) /\ j \in 1 .. 1 + Len(LRUlist)
      BY <2>4
    <3>2. CASE i <= 1 /\ j <= 1
      BY <3>1, <3>2, <2>2
    <3>3. CASE ~(i <= 1) /\ ~(j <= 1)
      <4>1. i - 1 \in DOMAIN LRUlist /\ j - 1 \in DOMAIN LRUlist /\ LRUlist[i - 1] = LRUlist[j - 1]
        BY <3>1, <3>3, <2>2, <2>3, <2>4
      <4> QED BY <4>1, <3>1, <2>2 DEF Unique
    <3>4. CASE i <= 1 /\ ~(j <= 1)
      <4>1. j - 1 \in DOMAIN LRUlist /\ LRUlist[j - 1] = f
        BY <3>1, <3>4, <2>2, <2>3, <2>4
      <4> QED BY <4>1, <1>2
    <3>5. CASE ~(i <= 1) /\ j <= 1
      <4>1. i - 1 \in DOMAIN LRUlist /\ LRUlist[i - 1] = f
        BY <3>1, <3>5, <2>2, <2>3, <2>4
      <4> QED BY <4>1, <1>2
    <3> QED BY <3>2, <3>3, <3>4, <3>5
  <2>6. Members(r) \subseteq Members(LRUlist) \cup {f}
    BY <2>2, <2>3, <2>4 DEF Members
  <2>7. r[1] = f /\ \A i \in DOMAIN LRUlist : i + 1 \in DOMAIN r /\ r[i + 1] = LRUlist[i]
    BY <2>2, <2>3, <2>4
  <2>8. Members(LRUlist) \cup {f} \subseteq Members(r)
    BY <2>2, <2>4, <2>7 DEF Members
  <2> QED BY <2>1, <2>3, <2>5, <2>6, <2>8
<1> QED BY <1>1, <1>2
-----------------------------------------------------------------------------
(***************************************************************************)
(* The inductive invariant.  PinnedStable is not inductive: that the frame *)
(* of a client is never a victim needs the exact pin counts, that both     *)
(* lists hold unpinned frames only, and that a frame which went to         *)
(* free_list_ with its mapping in place has a page nobody fetches.         *)
(***************************************************************************)
Owned == \A f \in Frame : pages[f].id # NoPage => page_table[pages[f].id] = f

HeldOK ==
    \A c \in Client :
        IF Holds(c)
        THEN /\ handle[c].page \in PageId \ dead
             /\ page_table[handle[c].page] = handle[c].frame
        ELSE handle[c] = NoHandle

Idle ==
    /\ Unique(LRUlist)
    /\ \A f \in Members(LRUlist) : pages[f].pin = 0

Free ==
    /\ Unique(free_list)
    /\ \A f \in Members(free_list) :
        pages[f].pin = 0 /\ pages[f].id \in dead \cup {NoPage}

Fresh ==
    \A p \in PageId : p[2] >= fd2pageno[p[1]] =>
        page_table[p] = NoFrame /\ disk[p] = Zero /\ p \notin dead

PoolInv ==
    /\ TypeOK /\ TableMatchesFrame /\ Owned /\ HeldOK /\ PinExact
    /\ Idle /\ Free /\ Fresh /\ NoLostWrite
Holders(f) == {c \in Client : handle[c].frame = f}

-----------------------------------------------------------------------------
\* No page is NoPage and no frame is NoFrame.
LEMMA Apart == NoPage \notin PageId /\ NoFrame \notin Frame /\ Zero \in Data
  BY PoolAssumption DEF NoPage, PageId, NoFrame, Frame, Data

\* Setting pin_count_ keeps the rest of a frame.
LEMMA SetPin ==
    ASSUME NEW x \in Contents, NEW n \in Nat, NEW y, y = [x EXCEPT !.pin = n]
    PROVE  y \in Contents /\ y.id = x.id /\ y.data = x.data /\ y.dirty = x.dirty /\ y.pin = n
<1>1. y.id = x.id /\ y.data = x.data /\ y.pin = n
  BY DEF Contents
<1>2. y.dirty = x.dirty
  BY DEF Contents
<1>3. y \in Contents
  BY DEF Contents
<1> QED BY <1>1, <1>2, <1>3

\* Writing data_ keeps the rest of a frame.
LEMMA SetData ==
    ASSUME NEW x \in Contents, NEW v \in Data, NEW y, y = [x EXCEPT !.data = v]
    PROVE  y \in Contents /\ y.id = x.id /\ y.data = v /\ y.dirty = x.dirty /\ y.pin = x.pin
<1>1. y.id = x.id /\ y.data = v /\ y.pin = x.pin
  BY DEF Contents
<1>2. y.dirty = x.dirty
  BY DEF Contents
<1>3. y \in Contents
  BY DEF Contents
<1> QED BY <1>1, <1>2, <1>3

\* Setting is_dirty_ keeps the rest of a frame.
LEMMA SetDirty ==
    ASSUME NEW x \in Contents, NEW b \in BOOLEAN, NEW y, y = [x EXCEPT !.dirty = b]
    PROVE  y \in Contents /\ y.id = x.id /\ y.data = x.data /\ y.dirty = b /\ y.pin = x.pin
<1>1. y.id = x.id /\ y.data = x.data /\ y.pin = x.pin
  BY DEF Contents
<1>2. y.dirty = b
  BY DEF Contents
<1>3. y \in Contents
  BY DEF Contents
<1> QED BY <1>1, <1>2, <1>3

\* A frame without a pin is held by no client.
LEMMA NotHeld ==
    ASSUME PinExact, NEW f \in Frame, pages[f].pin = 0
    PROVE  \A c \in Client : handle[c].frame # f
<1>1. Holders(f) \in SUBSET Client /\ pages[f].pin = Cardinality(Holders(f))
  BY DEF Holders, PinExact
<1>2. Holders(f) = {}
  BY <1>1, ClientAssumption, FS_Subset, FS_EmptySet
<1> QED BY <1>2 DEF Holders

\* A client that fetches frame f adds one holder to it.
LEMMA AddHolder ==
    ASSUME handle \in [Client -> Handles], NEW c \in Client, ~Holds(c),
           NEW p, NEW f \in Frame, Hold(c, p, f)
    PROVE  /\ Cardinality(Holders(f)') = Cardinality(Holders(f)) + 1
           /\ \A g \in Frame \ {f} : Holders(g)' = Holders(g)
<1>1. /\ \A d \in Client : handle'[d].frame = IF d = c THEN f ELSE handle[d].frame
      /\ handle[c].frame = NoFrame
  BY DEF Hold, Holds, Handles
<1>2. Holders(f) \in SUBSET Client /\ c \notin Holders(f) /\ Holders(f)' = Holders(f) \cup {c}
  BY <1>1, Apart DEF Holders
<1>3. Cardinality(Holders(f)') = Cardinality(Holders(f)) + 1
  BY <1>2, ClientAssumption, FS_Subset, FS_AddElement
<1>4. \A g \in Frame \ {f} : Holders(g)' = Holders(g)
  BY <1>1, Apart DEF Holders
<1> QED BY <1>3, <1>4

\* A client that unpins its frame takes one holder from it.
LEMMA DropHolder ==
    ASSUME handle \in [Client -> Handles], NEW c \in Client, NEW f \in Frame,
           handle[c].frame = f, handle' = [handle EXCEPT ![c] = NoHandle]
    PROVE  /\ Cardinality(Holders(f)') = Cardinality(Holders(f)) - 1
           /\ \A g \in Frame \ {f} : Holders(g)' = Holders(g)
<1>2. \A d \in Client : handle'[d].frame = IF d = c THEN NoFrame ELSE handle[d].frame
  BY DEF NoHandle
<1>3. Holders(f) \in SUBSET Client /\ c \in Holders(f)
  BY DEF Holders
<1>4. Holders(f)' = Holders(f) \ {c}
  BY <1>2, Apart DEF Holders
<1>5. Cardinality(Holders(f)') = Cardinality(Holders(f)) - 1
  BY <1>3, <1>4, ClientAssumption, FS_Subset, FS_RemoveElement
<1>6. \A g \in Frame \ {f} : Holders(g)' = Holders(g)
  BY <1>2, Apart DEF Holders
<1> QED BY <1>5, <1>6

\* find_victim_page gives a frame that nobody holds, and takes it out of both
\* lists.
LEMMA Victim ==
    ASSUME TypeOK, Idle, Free, PinExact, NEW f \in Frame, find_victim_page(f)
    PROVE  /\ pages[f].pin = 0
           /\ \A c \in Client : handle[c].frame # f
           /\ free_list' \in Seq(Frame) /\ Unique(free_list')
           /\ Members(free_list') \subseteq Members(free_list) \ {f}
           /\ LRUlist' \in Seq(Frame) /\ Unique(LRUlist')
           /\ Members(LRUlist') = Members(LRUlist) \ {f}
<1>1. LRUlist' \in Seq(Frame) /\ Unique(LRUlist') /\ Members(LRUlist') = Members(LRUlist) \ {f}
  <2>1. LRUlist \in Seq(Frame) /\ Unique(LRUlist) /\ LRUlist' = pin(f)
    BY DEF TypeOK, Idle, find_victim_page
  <2> QED BY <2>1, PinRemoves
<1>2. free_list \in Seq(Frame) /\ LRUlist \in Seq(Frame) /\ Unique(free_list)
  BY DEF TypeOK, Free
<1>3. CASE free_list # <<>>
  <2>1. f = free_list[1] /\ free_list' = Tail(free_list) /\ 1 \in DOMAIN free_list
    BY <1>2, <1>3 DEF find_victim_page, VictimIs
  <2>2. /\ free_list' \in Seq(Frame) /\ DOMAIN free_list' = 1 .. Len(free_list) - 1
        /\ \A i \in DOMAIN free_list' : i + 1 \in DOMAIN free_list /\ free_list'[i] = free_list[i + 1]
    BY <1>2, <1>3, <2>1
  <2>3. Unique(free_list')
    <3> SUFFICES ASSUME NEW i \in DOMAIN free_list', NEW j \in DOMAIN free_list',
                        free_list'[i] = free_list'[j]
                 PROVE  i = j
      BY DEF Unique
    <3>1. i + 1 = j + 1
      BY <1>2, <2>2 DEF Unique
    <3> QED BY <3>1, <2>2
  <2>4. Members(free_list') \subseteq Members(free_list) \ {f}
    <3> SUFFICES ASSUME NEW i \in DOMAIN free_list'
                 PROVE  free_list'[i] \in Members(free_list) \ {f}
      BY DEF Members
    <3>1. i + 1 # 1 /\ i + 1 \in DOMAIN free_list /\ free_list'[i] = free_list[i + 1]
      BY <2>2
    <3> QED BY <3>1, <2>1, <1>2 DEF Members, Unique
  <2>5. f \in Members(free_list)
    BY <2>1 DEF Members
  <2> QED BY <2>2, <2>3, <2>4, <2>5, <1>1, NotHeld DEF Free
<1>4. CASE free_list = <<>>
  <2>1. LRUlist # <<>> /\ f = LRUlist[Len(LRUlist)] /\ free_list' = free_list
    BY <1>4 DEF find_victim_page, VictimIs
  <2>2. f \in Members(LRUlist)
    BY <2>1, <1>2 DEF Members
  <2>3. Members(free_list) = {}
    BY <1>4 DEF Members
  <2> QED BY <2>1, <2>2, <2>3, <1>1, <1>2, NotHeld DEF Idle
<1> QED BY <1>3, <1>4

\* A frame that is loaded with page p for client c, by fetch_page or new_page,
\* shows what the file has, and no page changes its contents.
LEMMA Load ==
    ASSUME PoolInv, NEW c \in Client, NEW p \in PageId \ dead, NEW f \in Frame, NEW d \in Data,
           ~Holds(c), page_table[p] = NoFrame,
           find_victim_page(f), disk' = WriteBack(f), page_table' = Remap(f, p),
           pages' = Refill(f, p, d, 1), disk'[p] = d, Hold(c, p, f), dead' = dead
    PROVE  /\ pages' \in [Frame -> Contents] /\ page_table' \in [PageId -> Frame \cup {NoFrame}]
           /\ free_list' \in Seq(Frame) /\ LRUlist' \in Seq(Frame)
           /\ disk' \in [PageId -> Data] /\ handle' \in [Client -> Handles]
           /\ TableMatchesFrame' /\ Owned' /\ HeldOK' /\ PinExact' /\ Idle' /\ Free' /\ NoLostWrite'
           /\ Shown' = Shown
<1> USE DEF PoolInv
<1>1. /\ pages[f].pin = 0
      /\ \A e \in Client : handle[e].frame # f
      /\ free_list' \in Seq(Frame) /\ Unique(free_list')
      /\ Members(free_list') \subseteq Members(free_list) \ {f}
      /\ LRUlist' \in Seq(Frame) /\ Unique(LRUlist')
      /\ Members(LRUlist') = Members(LRUlist) \ {f}
  BY Victim
<1> DEFINE new == [id |-> p, data |-> d, pin |-> 1, dirty |-> pages[f].dirty /\ pages[f].id = NoPage]
<1>2. /\ pages \in [Frame -> Contents] /\ page_table \in [PageId -> Frame \cup {NoFrame}]
      /\ disk \in [PageId -> Data] /\ handle \in [Client -> Handles] /\ dead \subseteq PageId
      /\ new \in Contents
  BY DEF TypeOK, Contents
<1>3. \A g \in Frame : pages'[g] = IF g = f THEN new ELSE pages[g]
  BY <1>2 DEF Refill
<1>4. pages' \in [Frame -> Contents]
  BY <1>2 DEF Refill
<1>5. /\ page_table' \in [PageId -> Frame \cup {NoFrame}]
      /\ \A q \in PageId : page_table'[q] = IF q = p THEN f
                                            ELSE IF q = pages[f].id THEN NoFrame ELSE page_table[q]
  BY <1>2 DEF Remap
<1>6. /\ disk' \in [PageId -> Data]
      /\ \A q \in PageId : disk'[q] = IF q = pages[f].id /\ pages[f].dirty
                                      THEN pages[f].data ELSE disk[q]
  BY <1>2, Apart DEF WriteBack, Contents
<1>7. /\ handle' \in [Client -> Handles]
      /\ \A e \in Client : handle'[e] = IF e = c THEN [page |-> p, frame |-> f, wrote |-> FALSE]
                                        ELSE handle[e]
  BY <1>2 DEF Hold, Handles
<1>8. pages[f].id # p /\ \A g \in Frame : pages[g].id # p
  BY <1>2, Apart DEF Owned, TableMatchesFrame
<1>9. new.id = p /\ new.pin = 1 /\ new.data = d
  OBVIOUS
<1> HIDE DEF new
<1>10. TableMatchesFrame'
  BY <1>2, <1>3, <1>5, <1>9, Apart DEF TableMatchesFrame
<1>11. Owned'
  <2> SUFFICES ASSUME NEW g \in Frame, pages'[g].id # NoPage
               PROVE  page_table'[pages'[g].id] = g
    BY DEF Owned
  <2>1. CASE g = f
    BY <2>1, <1>3, <1>5, <1>9
  <2>2. CASE g # f
    <3>1. pages'[g] = pages[g] /\ pages[g].id \in PageId /\ pages[g].id # p
      BY <2>2, <1>2, <1>3, <1>8 DEF Contents
    <3>2. pages[g].id # pages[f].id
      BY <3>1, <2>2, Apart DEF Owned
    <3> QED BY <3>1, <3>2, <1>5 DEF Owned
  <2> QED BY <2>1, <2>2
<1>12. HeldOK'
  <2> SUFFICES ASSUME NEW e \in Client
               PROVE  IF handle'[e].frame # NoFrame
                      THEN /\ handle'[e].page \in PageId \ dead
                           /\ page_table'[handle'[e].page] = handle'[e].frame
                      ELSE handle'[e] = NoHandle
    BY DEF HeldOK, Holds
  <2>1. CASE e = c
    BY <2>1, <1>5, <1>7, Apart
  <2>2. CASE e # c /\ handle[e].frame # NoFrame
    <3>1. handle'[e] = handle[e] /\ handle[e].page \in PageId \ dead
          /\ page_table[handle[e].page] = handle[e].frame /\ handle[e].frame # f
      BY <2>2, <1>1, <1>7 DEF HeldOK, Holds
    <3>2. handle[e].page # pages[f].id /\ handle[e].page # p
      BY <3>1, <2>2, Apart DEF Owned
    <3> QED BY <3>1, <3>2, <2>2, <1>5
  <2>3. CASE e # c /\ handle[e].frame = NoFrame
    BY <2>3, <1>7 DEF HeldOK, Holds
  <2> QED BY <2>1, <2>2, <2>3
<1>13. PinExact'
  <2>1. /\ Cardinality(Holders(f)') = Cardinality(Holders(f)) + 1
        /\ \A g \in Frame \ {f} : Holders(g)' = Holders(g)
    BY <1>2, AddHolder
  <2>2. \A g \in Frame : pages[g].pin = Cardinality(Holders(g))
    BY DEF PinExact, Holders
  <2>3. \A g \in Frame : pages'[g].pin = Cardinality(Holders(g)')
    BY <2>1, <2>2, <1>1, <1>3, <1>9
  <2> QED BY <2>3 DEF PinExact, Holders
<1>14. Idle'
  <2>1. Members(LRUlist) \subseteq Frame
    BY MembersIn DEF TypeOK
  <2> QED BY <2>1, <1>1, <1>3 DEF Idle
<1>15. Free'
  <2>1. Members(free_list) \subseteq Frame
    BY MembersIn DEF TypeOK
  <2> QED BY <2>1, <1>1, <1>3 DEF Free
<1>16. NoLostWrite'
  <2> SUFFICES ASSUME NEW g \in Frame, pages'[g].id \in PageId \ dead,
                      pages'[g].data # disk'[pages'[g].id]
               PROVE  pages'[g].dirty \/ \E e \in Client : handle'[e].frame = g /\ handle'[e].wrote
    BY DEF NoLostWrite
  <2>1. g # f
    BY <1>3, <1>9
  <2>2. pages'[g] = pages[g] /\ pages[g].id # pages[f].id
    BY <2>1, <1>3, Apart DEF Owned
  <2>3. disk'[pages[g].id] = disk[pages[g].id]
    BY <2>2, <1>6
  <2>4. CASE pages[g].dirty
    BY <2>2, <2>4
  <2>5. CASE \E e \in Client : handle[e].frame = g /\ handle[e].wrote
    <3>1. PICK e \in Client : handle[e].frame = g /\ handle[e].wrote
      BY <2>5
    <3>2. e # c
      BY <3>1, Apart DEF Holds
    <3> QED BY <3>1, <3>2, <1>7
  <2> QED BY <2>2, <2>3, <2>4, <2>5 DEF NoLostWrite
<1>17. Shown' = Shown
  <2> SUFFICES ASSUME NEW q \in PageId \ dead
               PROVE  (IF page_table'[q] # NoFrame THEN pages'[page_table'[q]].data ELSE disk'[q])
                      = (IF page_table[q] # NoFrame THEN pages[page_table[q]].data ELSE disk[q])
    BY DEF Shown
  <2>1. CASE q = p
    BY <2>1, <1>3, <1>5, <1>6, <1>8, <1>9, Apart
  <2>2. CASE q # p /\ q = pages[f].id
    <3>1. page_table[q] = f /\ page_table'[q] = NoFrame
      BY <2>2, <1>5, Apart DEF Owned
    <3>2. CASE pages[f].dirty
      BY <2>2, <3>1, <3>2, <1>6, Apart
    <3>3. CASE ~pages[f].dirty
      <4>1. pages[f].data = disk[q]
        BY <2>2, <3>3, <1>1 DEF NoLostWrite
      <4> QED BY <2>2, <3>1, <3>3, <4>1, <1>6, Apart
    <3> QED BY <3>2, <3>3
  <2>3. CASE q # p /\ q # pages[f].id
    <3>1. page_table'[q] = page_table[q] /\ disk'[q] = disk[q]
      BY <2>3, <1>5, <1>6
    <3>2. page_table[q] # NoFrame => page_table[q] \in Frame /\ pages'[page_table[q]] = pages[page_table[q]]
      BY <2>3, <1>2, <1>3 DEF TableMatchesFrame
    <3> QED BY <3>1, <3>2
  <2> QED BY <2>1, <2>2, <2>3
<1> QED BY <1>1, <1>4, <1>5, <1>6, <1>7, <1>10, <1>11, <1>12, <1>13, <1>14, <1>15, <1>16, <1>17

-----------------------------------------------------------------------------
(***************************************************************************)
(* One lemma per operation: it keeps PoolInv, and is a step of PageStore   *)
(* or changes nothing there.                                               *)
(***************************************************************************)
StoreStep == Store!Next \/ UNCHANGED Store!vars

\* The constructor: every frame is free, and no page has been written.
LEMMA InitPool == Init => PoolInv /\ Store!Init
<1> SUFFICES ASSUME Init PROVE PoolInv /\ Store!Init
  OBVIOUS
<1> USE DEF Init
<1>1. TypeOK
  <2>1. free_list \in Seq(Frame) /\ LRUlist \in Seq(Frame)
    BY PoolAssumption DEF Frame
  <2> QED BY <2>1, PoolAssumption DEF TypeOK, Contents, Handles, NoHandle, Data
<1>2. TableMatchesFrame /\ Owned /\ HeldOK /\ NoLostWrite
  BY Apart DEF TableMatchesFrame, Owned, HeldOK, NoLostWrite, Holds, NoHandle
<1>3. PinExact
  <2>1. \A f \in Frame : {c \in Client : handle[c].frame = f} = {}
    BY Apart DEF NoHandle
  <2> QED BY <2>1, FS_EmptySet DEF PinExact
<1>4. Idle
  BY DEF Idle, Unique, Members
<1>5. Free
  BY PoolAssumption DEF Free, Unique, Members, Frame
<1>6. Fresh
  BY DEF Fresh
<1>7. Store!Init
  BY DEF Store!Init, Shown, Held, NoHandle
<1> QED BY <1>1, <1>2, <1>3, <1>4, <1>5, <1>6, <1>7 DEF PoolInv

\* A client that starts to hold a page of the pool.
LEMMA HoldIsStoreStep ==
    ASSUME PoolInv, NEW c \in Client, NEW p \in PageId \ dead, NEW f \in Frame,
           ~Holds(c), Hold(c, p, f), Shown' = Shown
    PROVE  Store!Hold(c, p)
<1>1. Shown[p] \in Data /\ Gone \notin Data
  BY ZeroAssumption DEF PoolInv, TypeOK, Contents, Data, Shown
<1>2. Held[c] = NoPage
  BY DEF PoolInv, HeldOK, Held, NoHandle
<1>3. Held' = [Held EXCEPT ![c] = p]
  BY DEF PoolInv, TypeOK, Handles, Hold, Held
<1> QED BY <1>1, <1>2, <1>3 DEF Store!Hold

\* fetch_page of a page that is in the pool.
LEMMA FetchHitPool ==
    ASSUME PoolInv, NEW c \in Client, NEW p \in PageId \ dead, FetchHit(c, p)
    PROVE  PoolInv' /\ Store!Hold(c, p)
<1> USE DEF PoolInv
<1>0. PICK f \in Frame : f = page_table[p]
  BY DEF TypeOK, FetchHit
<1>1. /\ pages \in [Frame -> Contents] /\ page_table \in [PageId -> Frame \cup {NoFrame}]
      /\ handle \in [Client -> Handles] /\ LRUlist \in Seq(Frame) /\ free_list \in Seq(Frame)
      /\ pages[f].id = p /\ pages[f] \in Contents
  BY <1>0 DEF TypeOK, FetchHit, TableMatchesFrame
<1>2. /\ ~Holds(c) /\ LRUlist' = pin(f) /\ Hold(c, p, f)
      /\ pages' = [pages EXCEPT ![f].pin = pages[f].pin + 1]
      /\ UNCHANGED <<page_table, free_list, disk, fd2pageno, dead, taken>>
  BY <1>0 DEF FetchHit, HitPins
<1>3. /\ LRUlist' \in Seq(Frame) /\ Unique(LRUlist')
      /\ Members(LRUlist') = Members(LRUlist) \ {f}
  BY <1>1, <1>2, PinRemoves DEF Idle
<1>4. /\ pages' \in [Frame -> Contents]
      /\ \A g \in Frame : /\ pages'[g].id = pages[g].id /\ pages'[g].data = pages[g].data
                          /\ pages'[g].dirty = pages[g].dirty
                          /\ pages'[g].pin = IF g = f THEN pages[f].pin + 1 ELSE pages[g].pin
  <2> DEFINE new == [pages[f] EXCEPT !.pin = pages[f].pin + 1]
  <2>1. /\ new \in Contents /\ new.id = pages[f].id /\ new.data = pages[f].data
        /\ new.dirty = pages[f].dirty /\ new.pin = pages[f].pin + 1
    <3>1. pages[f].pin + 1 \in Nat
      BY <1>1 DEF Contents
    <3> QED BY <3>1, <1>1, SetPin
  <2>2. pages' = [pages EXCEPT ![f] = new]
    BY <1>2
  <2> HIDE DEF new
  <2> QED BY <1>1, <2>1, <2>2
<1>5. /\ handle' \in [Client -> Handles]
      /\ \A e \in Client : handle'[e] = IF e = c THEN [page |-> p, frame |-> f, wrote |-> FALSE]
                                        ELSE handle[e]
  BY <1>1, <1>2 DEF Hold, Handles
<1>6. TypeOK'
  BY <1>2, <1>3, <1>4, <1>5 DEF TypeOK
<1>7. TableMatchesFrame' /\ Owned'
  BY <1>1, <1>2, <1>4 DEF TableMatchesFrame, Owned
<1>8. HeldOK'
  BY <1>0, <1>1, <1>2, <1>5, Apart DEF HeldOK, Holds
<1>9. PinExact'
  <2>1. /\ Cardinality(Holders(f)') = Cardinality(Holders(f)) + 1
        /\ \A g \in Frame \ {f} : Holders(g)' = Holders(g)
    BY <1>1, <1>2, AddHolder
  <2>2. \A g \in Frame : pages[g].pin = Cardinality(Holders(g))
    BY DEF PinExact, Holders
  <2>3. \A g \in Frame : pages'[g].pin = Cardinality(Holders(g)')
    BY <2>1, <2>2, <1>1, <1>4
  <2> QED BY <2>3 DEF PinExact, Holders
<1>10. Idle'
  <2>1. Members(LRUlist) \subseteq Frame
    BY <1>1, MembersIn
  <2> QED BY <2>1, <1>3, <1>4 DEF Idle
<1>11. Free'
  <2>1. Members(free_list) \subseteq Frame
    BY <1>1, MembersIn
  <2>2. f \notin Members(free_list)
    BY <1>1, Apart DEF Free
  <2> QED BY <2>1, <2>2, <1>2, <1>4 DEF Free
<1>12. Fresh'
  BY <1>2 DEF Fresh
<1>13. NoLostWrite'
  <2> SUFFICES ASSUME NEW g \in Frame, pages[g].id \in PageId \ dead,
                      pages[g].data # disk[pages[g].id]
               PROVE  pages[g].dirty \/ \E e \in Client : handle'[e].frame = g /\ handle'[e].wrote
    BY <1>2, <1>4 DEF NoLostWrite
  <2>1. CASE \E e \in Client : handle[e].frame = g /\ handle[e].wrote
    <3>1. PICK e \in Client : handle[e].frame = g /\ handle[e].wrote
      BY <2>1
    <3>2. e # c
      BY <3>1, <1>2, Apart DEF Holds
    <3> QED BY <3>1, <3>2, <1>5
  <2> QED BY <2>1 DEF NoLostWrite
<1>14. Shown' = Shown
  BY <1>1, <1>2, <1>4 DEF Shown
<1> QED BY <1>1, <1>2, <1>6, <1>7, <1>8, <1>9, <1>10, <1>11, <1>12, <1>13, <1>14, HoldIsStoreStep

\* fetch_page of a page that has to be read.
LEMMA FetchMissPool ==
    ASSUME PoolInv, NEW c \in Client, NEW p \in PageId \ dead, p[2] < fd2pageno[p[1]],
           FetchMiss(c, p)
    PROVE  PoolInv' /\ Store!Hold(c, p)
<1>1. PICK f \in Frame :
        /\ find_victim_page(f) /\ disk' = WriteBack(f) /\ page_table' = Remap(f, p)
        /\ pages' = Refill(f, p, disk'[p], 1) /\ Hold(c, p, f) /\ taken' = taken \ {f}
  BY DEF FetchMiss, HoldNew
<1>2. ~Holds(c) /\ page_table[p] = NoFrame /\ UNCHANGED <<fd2pageno, dead>>
  BY DEF FetchMiss, HoldNew
<1>3. disk' \in [PageId -> Data]
  BY <1>1 DEF PoolInv, TypeOK, WriteBack, Contents
<1>4. disk'[p] \in Data
  BY <1>3
<1>5. /\ pages' \in [Frame -> Contents] /\ page_table' \in [PageId -> Frame \cup {NoFrame}]
      /\ free_list' \in Seq(Frame) /\ LRUlist' \in Seq(Frame)
      /\ disk' \in [PageId -> Data] /\ handle' \in [Client -> Handles]
      /\ TableMatchesFrame' /\ Owned' /\ HeldOK' /\ PinExact' /\ Idle' /\ Free' /\ NoLostWrite'
      /\ Shown' = Shown
  BY <1>1, <1>2, <1>4, Load
<1>6. TypeOK'
  BY <1>1, <1>2, <1>5 DEF PoolInv, TypeOK
<1>7. Fresh'
  <2> SUFFICES ASSUME NEW q \in PageId, q[2] >= fd2pageno[q[1]]
               PROVE  page_table'[q] = NoFrame /\ disk'[q] = Zero /\ q \notin dead
    BY <1>2 DEF Fresh
  <2>1. page_table[q] = NoFrame /\ disk[q] = Zero /\ q \notin dead
    BY DEF PoolInv, Fresh
  <2>2. q # p
    <3>1. q[2] \in Nat /\ fd2pageno[q[1]] \in Nat
      BY PoolAssumption DEF PageId, PoolInv, TypeOK
    <3> QED BY <3>1
  <2>3. q # pages[f].id
    BY <2>1, Apart DEF PoolInv, Owned
  <2> QED BY <2>1, <2>2, <2>3, <1>1 DEF Remap, WriteBack, PoolInv, TypeOK
<1>8. Store!Hold(c, p)
  BY <1>1, <1>2, <1>5, HoldIsStoreStep
<1> QED BY <1>5, <1>6, <1>7, <1>8 DEF PoolInv

\* new_page.  That it shows zeroes, as the file does, is Fresh.
LEMMA NewPagePool ==
    ASSUME PoolInv, NEW c \in Client, NEW fd \in Fd, new_page(c, fd)
    PROVE  PoolInv' /\ StoreStep
<1> DEFINE n == fd2pageno[fd]
<1>1. n \in 0 .. MaxPage - 1 /\ n \in Nat
  BY PoolAssumption DEF PoolInv, TypeOK, new_page
<1>2. PICK p \in PageId : p = <<fd, n>>
  BY <1>1 DEF PageId
<1>3. PICK f \in Frame :
        /\ find_victim_page(f) /\ disk' = WriteBack(f) /\ page_table' = Remap(f, p)
        /\ pages' = Refill(f, p, Zero, 1) /\ Hold(c, p, f) /\ taken' = taken \ {f}
  BY <1>2 DEF new_page, HoldNew
<1>4. /\ ~Holds(c) /\ fd2pageno' = [fd2pageno EXCEPT ![fd] = n + 1] /\ dead' = dead
  BY DEF new_page, HoldNew
<1>5. page_table[p] = NoFrame /\ disk[p] = Zero /\ p \notin dead
  BY <1>1, <1>2 DEF PoolInv, Fresh
<1>6. pages[f].id # p
  BY <1>5, Apart DEF PoolInv, Owned
<1>7. disk'[p] = Zero
  BY <1>3, <1>5, <1>6 DEF WriteBack, PoolInv, TypeOK
<1>8. /\ pages' \in [Frame -> Contents] /\ page_table' \in [PageId -> Frame \cup {NoFrame}]
      /\ free_list' \in Seq(Frame) /\ LRUlist' \in Seq(Frame)
      /\ disk' \in [PageId -> Data] /\ handle' \in [Client -> Handles]
      /\ TableMatchesFrame' /\ Owned' /\ HeldOK' /\ PinExact' /\ Idle' /\ Free' /\ NoLostWrite'
      /\ Shown' = Shown
  BY <1>3, <1>4, <1>5, <1>7, Apart, Load
<1>9. TypeOK'
  <2>1. fd2pageno' \in [Fd -> 0 .. MaxPage]
    BY <1>1, <1>4, PoolAssumption DEF PoolInv, TypeOK
  <2> QED BY <1>3, <1>4, <1>8, <2>1 DEF PoolInv, TypeOK
<1>10. Fresh'
  <2> SUFFICES ASSUME NEW q \in PageId, q[2] >= fd2pageno'[q[1]]
               PROVE  page_table'[q] = NoFrame /\ disk'[q] = Zero /\ q \notin dead
    BY <1>4 DEF Fresh
  <2>1. q[2] \in Nat /\ fd2pageno[q[1]] \in Nat /\ q[2] >= fd2pageno[q[1]] /\ q # p
    BY <1>1, <1>2, <1>4, PoolAssumption DEF PageId, PoolInv, TypeOK
  <2>2. page_table[q] = NoFrame /\ disk[q] = Zero /\ q \notin dead
    BY <2>1 DEF PoolInv, Fresh
  <2>3. q # pages[f].id
    BY <2>2, Apart DEF PoolInv, Owned
  <2> QED BY <2>1, <2>2, <2>3, <1>3 DEF Remap, WriteBack, PoolInv, TypeOK
<1>11. Store!Hold(c, p)
  BY <1>3, <1>4, <1>5, <1>8, HoldIsStoreStep
<1> QED BY <1>8, <1>9, <1>10, <1>11 DEF PoolInv, StoreStep, Store!Next

\* A caller writes through its Page pointer.
LEMMA WriteDataPool ==
    ASSUME PoolInv, NEW c \in Client, NEW v \in Value, WriteData(c, v)
    PROVE  PoolInv' /\ Store!Write(c, v)
<1> USE DEF PoolInv
<1>1. PICK f \in Frame : f = handle[c].frame
  BY DEF TypeOK, Handles, WriteData, Holds
<1>2. PICK p \in PageId \ dead : p = handle[c].page /\ page_table[p] = f
  BY <1>1 DEF HeldOK, WriteData
<1>3. /\ pages \in [Frame -> Contents] /\ handle \in [Client -> Handles] /\ v \in Data
      /\ page_table \in [PageId -> Frame \cup {NoFrame}] /\ pages[f].id = p
      /\ LRUlist \in Seq(Frame) /\ free_list \in Seq(Frame)
  BY <1>2, Apart DEF TypeOK, Data, TableMatchesFrame
<1>4. /\ pages' = [pages EXCEPT ![f].data = v] /\ handle' = [handle EXCEPT ![c].wrote = TRUE]
      /\ UNCHANGED <<page_table, free_list, LRUlist, disk, fd2pageno, dead, taken>>
  BY <1>1 DEF WriteData
<1>5. /\ pages' \in [Frame -> Contents]
      /\ \A g \in Frame : /\ pages'[g].id = pages[g].id /\ pages'[g].pin = pages[g].pin
                          /\ pages'[g].dirty = pages[g].dirty
                          /\ pages'[g].data = IF g = f THEN v ELSE pages[g].data
  <2> DEFINE new == [pages[f] EXCEPT !.data = v]
  <2>1. /\ new \in Contents /\ new.id = pages[f].id /\ new.data = v
        /\ new.dirty = pages[f].dirty /\ new.pin = pages[f].pin
    BY <1>3, SetData
  <2>2. pages' = [pages EXCEPT ![f] = new]
    BY <1>4
  <2> HIDE DEF new
  <2> QED BY <1>3, <2>1, <2>2
<1>6. /\ handle' \in [Client -> Handles] /\ handle'[c].wrote
      /\ \A e \in Client : /\ handle'[e].page = handle[e].page /\ handle'[e].frame = handle[e].frame
                           /\ e # c => handle'[e] = handle[e]
  BY <1>3, <1>4 DEF Handles
<1>7. TypeOK'
  BY <1>4, <1>5, <1>6 DEF TypeOK
<1>8. TableMatchesFrame' /\ Owned'
  BY <1>3, <1>4, <1>5 DEF TableMatchesFrame, Owned
<1>9. HeldOK'
  <2> SUFFICES ASSUME NEW e \in Client
               PROVE  IF handle'[e].frame # NoFrame
                      THEN /\ handle'[e].page \in PageId \ dead
                           /\ page_table[handle'[e].page] = handle'[e].frame
                      ELSE handle'[e] = NoHandle
    BY <1>4 DEF HeldOK, Holds
  <2>1. CASE e = c
    BY <2>1, <1>1, <1>2, <1>6, Apart
  <2>2. CASE e # c
    BY <2>2, <1>6 DEF HeldOK, Holds
  <2> QED BY <2>1, <2>2
<1>10. PinExact'
  <2>1. \A g \in Frame : Holders(g)' = Holders(g)
    BY <1>6 DEF Holders
  <2>2. \A g \in Frame : pages'[g].pin = Cardinality(Holders(g)')
    BY <2>1, <1>5 DEF PinExact, Holders
  <2> QED BY <2>2 DEF PinExact, Holders
<1>11. Idle'
  BY <1>3, <1>4, <1>5, MembersIn DEF Idle
<1>12. Free'
  BY <1>3, <1>4, <1>5, MembersIn DEF Free
<1>13. Fresh'
  BY <1>4 DEF Fresh
<1>14. NoLostWrite'
  <2> SUFFICES ASSUME NEW g \in Frame, pages[g].id \in PageId \ dead,
                      pages'[g].data # disk[pages[g].id]
               PROVE  pages[g].dirty \/ \E e \in Client : handle'[e].frame = g /\ handle'[e].wrote
    BY <1>4, <1>5 DEF NoLostWrite
  <2>1. CASE g = f
    BY <2>1, <1>1, <1>6
  <2>2. CASE g # f
    <3>1. pages[g].dirty \/ \E e \in Client : handle[e].frame = g /\ handle[e].wrote
      BY <2>2, <1>5 DEF NoLostWrite
    <3> QED BY <3>1, <2>2, <1>1, <1>6
  <2> QED BY <2>1, <2>2
<1>15. Held' = Held /\ Held[c] = p /\ p # NoPage
  BY <1>2, <1>6, Apart DEF Held
<1>16. Shown' = [Shown EXCEPT ![p] = v]
  <2>1. ASSUME NEW q \in PageId \ dead, q # p
        PROVE  (IF page_table[q] # NoFrame THEN pages'[page_table[q]].data ELSE disk[q])
               = (IF page_table[q] # NoFrame THEN pages[page_table[q]].data ELSE disk[q])
    BY <2>1, <1>3, <1>5 DEF TableMatchesFrame
  <2>2. \A q \in PageId : Shown'[q] = IF q = p THEN v ELSE Shown[q]
    <3> SUFFICES ASSUME NEW q \in PageId PROVE Shown'[q] = IF q = p THEN v ELSE Shown[q]
      OBVIOUS
    <3>1. CASE q = p
      BY <3>1, <1>2, <1>4, <1>5, Apart DEF Shown
    <3>2. CASE q # p /\ q \in dead
      BY <3>2, <1>4 DEF Shown
    <3>3. CASE q # p /\ q \notin dead
      BY <3>3, <2>1, <1>4 DEF Shown
    <3> QED BY <3>1, <3>2, <3>3
  <2>3. Shown' = [q \in PageId |-> Shown'[q]] /\ Shown = [q \in PageId |-> Shown[q]]
    BY DEF Shown
  <2> QED BY <2>2, <2>3
<1> QED BY <1>7, <1>8, <1>9, <1>10, <1>11, <1>12, <1>13, <1>14, <1>15, <1>16 DEF Store!Write

\* unpin_page.  The caller holds the frame, so neither early return is taken.
LEMMA UnpinPool ==
    ASSUME PoolInv, NEW c \in Client, unpin_page(c)
    PROVE  PoolInv' /\ Store!Release(c)
<1> USE DEF PoolInv
<1>1. PICK f \in Frame : f = handle[c].frame
  BY DEF TypeOK, Handles, unpin_page, Holds
<1>2. PICK p \in PageId \ dead : p = handle[c].page /\ page_table[p] = f
  BY <1>1 DEF HeldOK, unpin_page
<1>3. /\ pages \in [Frame -> Contents] /\ handle \in [Client -> Handles]
      /\ page_table \in [PageId -> Frame \cup {NoFrame}] /\ pages[f].id = p
      /\ LRUlist \in Seq(Frame) /\ free_list \in Seq(Frame)
      /\ Members(LRUlist) \subseteq Frame /\ Members(free_list) \subseteq Frame
  BY <1>2, Apart, MembersIn DEF TypeOK, TableMatchesFrame
<1>4. pages[f].pin # 0 /\ pages[f].pin \in Nat
  BY <1>1, <1>3, NotHeld DEF Contents
<1>5. /\ pages' = [pages EXCEPT ![f].pin = @ - 1, ![f].dirty = pages[f].dirty \/ handle[c].wrote]
      /\ LRUlist' = Evictable(f) /\ handle' = [handle EXCEPT ![c] = NoHandle]
      /\ UNCHANGED <<page_table, free_list, disk, fd2pageno, dead, taken>>
  BY <1>1, <1>2, <1>3, <1>4, Apart DEF unpin_page, Dirtied, Pinned
<1>6. /\ pages' \in [Frame -> Contents]
      /\ \A g \in Frame : /\ pages'[g].id = pages[g].id /\ pages'[g].data = pages[g].data
                          /\ pages'[g].pin = IF g = f THEN pages[f].pin - 1 ELSE pages[g].pin
      /\ pages'[f].dirty = (pages[f].dirty \/ handle[c].wrote)
      /\ \A g \in Frame : g # f => pages'[g] = pages[g]
  <2> DEFINE b == pages[f].dirty \/ handle[c].wrote
             low == [pages[f] EXCEPT !.pin = pages[f].pin - 1]
             new == [low EXCEPT !.dirty = b]
  <2>1. pages[f] \in Contents /\ pages[f].pin - 1 \in Nat /\ b \in BOOLEAN
    BY <1>3, <1>4
  <2>2. pages' = [pages EXCEPT ![f] = new]
    BY <1>3, <1>5
  <2> HIDE DEF b
  <2>3. /\ low \in Contents /\ low.id = pages[f].id /\ low.data = pages[f].data
        /\ low.pin = pages[f].pin - 1
    BY <2>1, SetPin
  <2> HIDE DEF low
  <2>4. /\ new \in Contents /\ new.id = pages[f].id /\ new.data = pages[f].data
        /\ new.dirty = b /\ new.pin = pages[f].pin - 1
    BY <2>1, <2>3, SetDirty
  <2> HIDE DEF new
  <2> QED BY <1>3, <2>2, <2>4 DEF b
<1>7. /\ handle' \in [Client -> Handles]
      /\ \A e \in Client : handle'[e] = IF e = c THEN NoHandle ELSE handle[e]
  BY <1>3, <1>5 DEF Handles, NoHandle
<1>8. /\ LRUlist' \in Seq(Frame) /\ Unique(LRUlist')
      /\ Members(LRUlist') \subseteq Members(LRUlist) \cup {f}
      /\ f \in Members(LRUlist') => pages[f].pin = 1
  <2>1. f \notin Members(LRUlist)
    BY <1>4 DEF Idle
  <2>2. CASE pages[f].pin = 1
    BY <2>2, <1>3, <1>5, UnpinAdds DEF Idle, Evictable
  <2>3. CASE pages[f].pin # 1
    BY <2>1, <2>3, <1>3, <1>5 DEF Idle, Evictable
  <2> QED BY <2>2, <2>3
<1>9. TypeOK'
  BY <1>5, <1>6, <1>7, <1>8 DEF TypeOK
<1>10. TableMatchesFrame' /\ Owned'
  BY <1>3, <1>5, <1>6 DEF TableMatchesFrame, Owned
<1>11. HeldOK'
  BY <1>5, <1>7 DEF HeldOK, Holds, NoHandle
<1>12. PinExact'
  <2>1. /\ Cardinality(Holders(f)') = Cardinality(Holders(f)) - 1
        /\ \A g \in Frame \ {f} : Holders(g)' = Holders(g)
    BY <1>1, <1>3, <1>5, DropHolder
  <2>2. \A g \in Frame : pages[g].pin = Cardinality(Holders(g))
    BY DEF PinExact, Holders
  <2>3. \A g \in Frame : pages'[g].pin = Cardinality(Holders(g)')
    BY <2>1, <2>2, <1>6
  <2> QED BY <2>3 DEF PinExact, Holders
<1>13. Idle'
  <2>1. ASSUME NEW g \in Members(LRUlist') PROVE pages'[g].pin = 0
    <3>1. CASE g = f
      BY <3>1, <2>1, <1>6, <1>8
    <3>2. CASE g # f
      <4>1. g \in Frame /\ pages[g].pin = 0
        BY <3>2, <2>1, <1>3, <1>8 DEF Idle
      <4> QED BY <4>1, <3>2, <1>6
    <3> QED BY <3>1, <3>2
  <2> QED BY <2>1, <1>8 DEF Idle
<1>14. Free'
  <2>1. f \notin Members(free_list)
    BY <1>4 DEF Free
  <2> QED BY <2>1, <1>3, <1>5, <1>6 DEF Free
<1>15. Fresh'
  BY <1>5 DEF Fresh
<1>16. NoLostWrite'
  <2> SUFFICES ASSUME NEW g \in Frame, pages[g].id \in PageId \ dead,
                      pages[g].data # disk[pages[g].id]
               PROVE  pages'[g].dirty \/ \E e \in Client : handle'[e].frame = g /\ handle'[e].wrote
    BY <1>5, <1>6 DEF NoLostWrite
  <2>1. CASE pages[g].dirty
    BY <2>1, <1>6
  <2>2. ASSUME NEW e \in Client, handle[e].frame = g, handle[e].wrote
        PROVE  pages'[g].dirty \/ \E d \in Client : handle'[d].frame = g /\ handle'[d].wrote
    <3>1. CASE e = c
      BY <3>1, <2>2, <1>1, <1>6
    <3>2. CASE e # c
      BY <3>2, <2>2, <1>7
    <3> QED BY <3>1, <3>2
  <2> QED BY <2>1, <2>2 DEF NoLostWrite
<1>17. Shown' = Shown
  BY <1>3, <1>5, <1>6 DEF Shown
<1>18. Held' = [Held EXCEPT ![c] = NoPage]
  <2>1. \A e \in Client : handle'[e].page = IF e = c THEN NoPage ELSE handle[e].page
    BY <1>7 DEF NoHandle
  <2> QED BY <2>1 DEF Held
<1> QED BY <1>9, <1>10, <1>11, <1>12, <1>13, <1>14, <1>15, <1>16, <1>17, <1>18 DEF Store!Release

\* flush_page.
LEMMA FlushPool ==
    ASSUME PoolInv, NEW p \in PageId, flush_page(p)
    PROVE  PoolInv' /\ UNCHANGED <<Shown, Held>>
<1> USE DEF PoolInv
<1>1. PICK f \in Frame : f = page_table[p] /\ pages[f].id = p
  BY DEF TypeOK, flush_page, TableMatchesFrame
<1>2. /\ pages \in [Frame -> Contents] /\ page_table \in [PageId -> Frame \cup {NoFrame}]
      /\ disk \in [PageId -> Data] /\ pages[f].data \in Data
      /\ LRUlist \in Seq(Frame) /\ free_list \in Seq(Frame)
  BY DEF TypeOK, Contents
<1>3. /\ disk' = [disk EXCEPT ![p] = pages[f].data] /\ pages' = [pages EXCEPT ![f].dirty = FALSE]
      /\ UNCHANGED <<page_table, free_list, LRUlist, fd2pageno, handle, dead, taken>>
  BY <1>1 DEF flush_page
<1>4. /\ pages' \in [Frame -> Contents]
      /\ \A g \in Frame : /\ pages'[g].id = pages[g].id /\ pages'[g].pin = pages[g].pin
                          /\ pages'[g].data = pages[g].data
                          /\ g # f => pages'[g] = pages[g]
  <2>0. PICK new : new = [pages[f] EXCEPT !.dirty = FALSE]
    OBVIOUS
  <2>1. new \in Contents /\ new.id = pages[f].id /\ new.data = pages[f].data /\ new.pin = pages[f].pin
    <3>1. pages[f] \in Contents
      BY <1>2
    <3>2. new.id = pages[f].id /\ new.data = pages[f].data /\ new.pin = pages[f].pin
      BY <2>0, <3>1 DEF Contents
    <3>3. new \in Contents
      BY <2>0, <3>1 DEF Contents
    <3> QED BY <3>2, <3>3
  <2>2. pages' = [pages EXCEPT ![f] = new]
    BY <2>0, <1>3
  <2> QED BY <1>2, <2>1, <2>2
<1>5. TypeOK'
  BY <1>2, <1>3, <1>4 DEF TypeOK
<1>6. TableMatchesFrame' /\ Owned'
  BY <1>2, <1>3, <1>4 DEF TableMatchesFrame, Owned
<1>7. HeldOK' /\ Held' = Held
  BY <1>3 DEF HeldOK, Holds, Held
<1>8. PinExact'
  BY <1>3, <1>4 DEF PinExact
<1>9. Idle' /\ Free'
  BY <1>2, <1>3, <1>4, MembersIn DEF Idle, Free
<1>10. Fresh'
  BY <1>1, <1>2, <1>3, Apart DEF Fresh
<1>11. NoLostWrite'
  <2> SUFFICES ASSUME NEW g \in Frame, pages[g].id \in PageId \ dead,
                      pages[g].data # disk'[pages[g].id]
               PROVE  pages'[g].dirty \/ \E e \in Client : handle[e].frame = g /\ handle[e].wrote
    BY <1>3, <1>4 DEF NoLostWrite
  <2>1. g # f
    BY <1>1, <1>2, <1>3
  <2>2. pages[g].id # p
    BY <2>1, <1>1, Apart DEF Owned
  <2> QED BY <2>1, <2>2, <1>2, <1>3, <1>4 DEF NoLostWrite
<1>12. Shown' = Shown
  <2>1. \A q \in PageId : page_table[q] = NoFrame => disk'[q] = disk[q]
    BY <1>1, <1>2, <1>3, Apart
  <2> QED BY <2>1, <1>2, <1>3, <1>4 DEF Shown
<1> QED BY <1>5, <1>6, <1>7, <1>8, <1>9, <1>10, <1>11, <1>12

\* flush_all_pages.  A page has one frame, so every page is written once.
LEMMA FlushAllPool ==
    ASSUME PoolInv, NEW fd \in Fd, flush_all_pages(fd)
    PROVE  PoolInv' /\ UNCHANGED <<Shown, Held>>
<1> USE DEF PoolInv
<1>1. /\ pages \in [Frame -> Contents] /\ page_table \in [PageId -> Frame \cup {NoFrame}]
      /\ disk \in [PageId -> Data]
      /\ LRUlist \in Seq(Frame) /\ free_list \in Seq(Frame)
  BY DEF TypeOK
<1>2. /\ disk' = FlushedDisk(fd) /\ pages' = FlushedPages(fd)
      /\ UNCHANGED <<page_table, free_list, LRUlist, fd2pageno, handle, dead, taken>>
  BY DEF flush_all_pages
<1>3. ASSUME NEW g \in Frame
      PROVE  /\ pages'[g] \in Contents
             /\ pages'[g].id = pages[g].id /\ pages'[g].pin = pages[g].pin
             /\ pages'[g].data = pages[g].data
             /\ ~(pages[g].id # NoPage /\ pages[g].id[1] = fd) => pages'[g] = pages[g]
  <2>1. CASE pages[g].id # NoPage /\ pages[g].id[1] = fd
    <3>1. pages'[g] = [pages[g] EXCEPT !.dirty = FALSE]
      BY <2>1, <1>2 DEF FlushedPages
    <3> QED BY <2>1, <3>1, <1>1, SetDirty
  <2>2. CASE ~(pages[g].id # NoPage /\ pages[g].id[1] = fd)
    <3>1. pages'[g] = pages[g]
      BY <2>2, <1>2 DEF FlushedPages
    <3> QED BY <3>1, <1>1
  <2> QED BY <2>1, <2>2
<1>4. pages' \in [Frame -> Contents]
  BY <1>2, <1>3 DEF FlushedPages
<1>5. ASSUME NEW q \in PageId
      PROVE  /\ page_table[q] # NoFrame /\ q[1] = fd => disk'[q] = pages[page_table[q]].data
             /\ ~(page_table[q] # NoFrame /\ q[1] = fd) => disk'[q] = disk[q]
  <2> DEFINE P(f) == pages[f].id = q /\ \A g \in Frame : pages[g].id = q => g <= f
  <2>1. \A f \in Frame : pages[f].id = q <=> f = page_table[q]
    BY <1>1, Apart DEF Owned, TableMatchesFrame
  <2>2. CASE page_table[q] # NoFrame /\ q[1] = fd
    <3>1. PICK f \in Frame : f = page_table[q]
      BY <2>2, <1>1
    <3>2. P(f) /\ \A g \in Frame : P(g) => g = f
      BY <2>1, <3>1 DEF Frame
    <3>3. (CHOOSE g \in Frame : P(g)) = f
      BY <3>2
    <3>4. disk'[q] = pages[CHOOSE g \in Frame : P(g)].data
      BY <2>1, <2>2, <3>1, <1>2 DEF FlushedDisk
    <3> QED BY <2>2, <3>1, <3>3, <3>4
  <2>3. CASE ~(page_table[q] # NoFrame /\ q[1] = fd)
    BY <2>1, <2>3, <1>2, Apart DEF FlushedDisk
  <2> QED BY <2>2, <2>3
<1>6. disk' \in [PageId -> Data]
  <2>1. \A q \in PageId : disk'[q] \in Data
    BY <1>1, <1>5 DEF Contents
  <2> QED BY <2>1, <1>2 DEF FlushedDisk
<1>7. TypeOK'
  BY <1>2, <1>4, <1>6 DEF TypeOK
<1>8. TableMatchesFrame' /\ Owned'
  BY <1>1, <1>2, <1>3 DEF TableMatchesFrame, Owned
<1>9. HeldOK' /\ Held' = Held
  BY <1>2 DEF HeldOK, Holds, Held
<1>10. PinExact'
  BY <1>2, <1>3 DEF PinExact
<1>11. Idle' /\ Free'
  BY <1>1, <1>2, <1>3, MembersIn DEF Idle, Free
<1>12. Fresh'
  BY <1>2, <1>5 DEF Fresh
<1>13. NoLostWrite'
  <2> SUFFICES ASSUME NEW g \in Frame, pages[g].id \in PageId \ dead,
                      pages[g].data # disk'[pages[g].id]
               PROVE  pages'[g].dirty \/ \E e \in Client : handle[e].frame = g /\ handle[e].wrote
    BY <1>2, <1>3 DEF NoLostWrite
  <2>1. page_table[pages[g].id] = g /\ g # NoFrame
    BY Apart DEF Owned
  <2>2. pages[g].id[1] # fd /\ disk'[pages[g].id] = disk[pages[g].id]
    BY <2>1, <1>5
  <2> QED BY <2>2, <1>3 DEF NoLostWrite
<1>14. Shown' = Shown
  BY <1>1, <1>2, <1>3, <1>5 DEF Shown
<1> QED BY <1>7, <1>8, <1>9, <1>10, <1>11, <1>12, <1>13, <1>14

\* delete_page.  The frame is in neither list twice, because nobody deletes a
\* page twice.
LEMMA DeletePool ==
    ASSUME PoolInv, NEW p \in PageId \ dead, delete_page(p)
    PROVE  PoolInv' /\ Store!Delete(p)
<1> USE DEF PoolInv
<1>1. PICK f \in Frame : f = page_table[p] /\ pages[f].id = p
  BY DEF TypeOK, delete_page, TableMatchesFrame
<1>2. /\ pages \in [Frame -> Contents] /\ page_table \in [PageId -> Frame \cup {NoFrame}]
      /\ disk \in [PageId -> Data] /\ handle \in [Client -> Handles] /\ dead \subseteq PageId
      /\ LRUlist \in Seq(Frame) /\ free_list \in Seq(Frame)
      /\ Members(LRUlist) \subseteq Frame /\ Members(free_list) \subseteq Frame
  BY MembersIn DEF TypeOK
<1>3. /\ p \notin dead /\ p[2] < fd2pageno[p[1]] /\ pages[f].pin = 0
      /\ disk' = WriteBack(f) /\ page_table' = Remap(f, p) /\ pages' = Refill(f, p, Zero, 0)
      /\ free_list' = Append(free_list, f) /\ dead' = dead \cup {p}
      /\ UNCHANGED <<LRUlist, fd2pageno, handle, taken>>
  BY <1>1 DEF delete_page
<1>4. \A c \in Client : handle[c].frame # f
  BY <1>3, NotHeld
<1>5. page_table' = page_table
  BY <1>1, <1>2, <1>3 DEF Remap
<1> DEFINE new == [id |-> p, data |-> Zero, pin |-> 0, dirty |-> pages[f].dirty /\ pages[f].id = NoPage]
<1>6. new \in Contents /\ new.id = p /\ new.pin = 0
  BY Apart DEF Contents
<1>7. pages' = [pages EXCEPT ![f] = new]
  BY <1>3 DEF Refill
<1> HIDE DEF new
<1>8. /\ pages' \in [Frame -> Contents]
      /\ \A g \in Frame : /\ pages'[g].id = pages[g].id /\ pages'[g].pin = pages[g].pin
                          /\ g # f => pages'[g] = pages[g]
  BY <1>1, <1>2, <1>3, <1>6, <1>7
<1>9. /\ disk' \in [PageId -> Data]
      /\ \A q \in PageId : q # p => disk'[q] = disk[q]
  BY <1>1, <1>2, <1>3 DEF WriteBack, Contents
<1>10. f \notin Members(free_list)
  BY <1>1, <1>3, Apart DEF Free
<1>11. /\ free_list' \in Seq(Frame) /\ Unique(free_list')
       /\ Members(free_list') = Members(free_list) \cup {f}
  <2> DEFINE n == Len(free_list) + 1
  <2>1. /\ Len(free_list) \in Nat /\ DOMAIN free_list = 1 .. Len(free_list)
        /\ free_list' \in Seq(Frame) /\ DOMAIN free_list' = 1 .. n
        /\ free_list'[n] = f /\ \A i \in DOMAIN free_list : free_list'[i] = free_list[i]
    BY <1>2, <1>3
  <2>2. \A i \in DOMAIN free_list' : i = n \/ i \in DOMAIN free_list
    BY <2>1
  <2>3. n \in DOMAIN free_list' /\ n \notin DOMAIN free_list /\ DOMAIN free_list \subseteq DOMAIN free_list'
    BY <2>1
  <2> HIDE DEF n
  <2>4. Unique(free_list')
    <3> SUFFICES ASSUME NEW i \in DOMAIN free_list', NEW j \in DOMAIN free_list',
                        free_list'[i] = free_list'[j]
                 PROVE  i = j
      BY DEF Unique
    <3>1. CASE i = n \/ j = n
      BY <3>1, <2>1, <2>2, <1>10 DEF Members
    <3>2. CASE i # n /\ j # n
      BY <3>2, <2>1, <2>2 DEF Free, Unique
    <3> QED BY <3>1, <3>2
  <2>5. Members(free_list') = Members(free_list) \cup {f}
    BY <2>1, <2>2, <2>3 DEF Members
  <2> QED BY <2>1, <2>4, <2>5
<1>12. TypeOK'
  BY <1>2, <1>3, <1>5, <1>8, <1>9, <1>11 DEF TypeOK
<1>13. TableMatchesFrame' /\ Owned'
  BY <1>2, <1>5, <1>8 DEF TableMatchesFrame, Owned
<1>14. \A c \in Client : handle[c].page # p
  BY <1>1, <1>4, Apart DEF HeldOK, NoHandle
<1>15. HeldOK'
  BY <1>3, <1>5, <1>14 DEF HeldOK, Holds
<1>16. PinExact'
  BY <1>3, <1>8 DEF PinExact
<1>17. Idle'
  BY <1>2, <1>3, <1>8 DEF Idle
<1>18. Free'
  BY <1>1, <1>2, <1>3, <1>8, <1>11 DEF Free
<1>19. Fresh'
  <2> SUFFICES ASSUME NEW q \in PageId, q[2] >= fd2pageno[q[1]]
               PROVE  page_table[q] = NoFrame /\ disk'[q] = Zero /\ q \notin dead \cup {p}
    BY <1>3, <1>5 DEF Fresh
  <2>1. page_table[q] = NoFrame /\ disk[q] = Zero /\ q \notin dead
    BY DEF Fresh
  <2>2. q # p
    BY <2>1, <1>1, Apart
  <2> QED BY <2>1, <2>2, <1>9
<1>20. NoLostWrite'
  <2> SUFFICES ASSUME NEW g \in Frame, pages[g].id \in PageId \ (dead \cup {p}),
                      pages'[g].data # disk'[pages[g].id]
               PROVE  pages'[g].dirty \/ \E e \in Client : handle[e].frame = g /\ handle[e].wrote
    BY <1>3, <1>8 DEF NoLostWrite
  <2>1. g # f /\ pages'[g] = pages[g] /\ disk'[pages[g].id] = disk[pages[g].id]
    BY <1>1, <1>8, <1>9
  <2> QED BY <2>1 DEF NoLostWrite
<1>21. Shown' = [Shown EXCEPT ![p] = Gone]
  <2>1. \A q \in PageId : Shown'[q] = IF q = p THEN Gone ELSE Shown[q]
    <3> SUFFICES ASSUME NEW q \in PageId PROVE Shown'[q] = IF q = p THEN Gone ELSE Shown[q]
      OBVIOUS
    <3>1. CASE q = p \/ q \in dead
      BY <3>1, <1>3 DEF Shown
    <3>2. CASE q # p /\ q \notin dead
      <4>1. page_table[q] # NoFrame => pages'[page_table[q]] = pages[page_table[q]]
        BY <3>2, <1>1, <1>2, <1>8 DEF TableMatchesFrame
      <4> QED BY <3>2, <4>1, <1>3, <1>5, <1>9 DEF Shown
    <3> QED BY <3>1, <3>2
  <2>2. Shown' = [q \in PageId |-> Shown'[q]] /\ Shown = [q \in PageId |-> Shown[q]]
    BY DEF Shown
  <2> QED BY <2>1, <2>2
<1>22. Held' = Held /\ \A c \in Client : Held[c] # p
  BY <1>3, <1>14 DEF Held
<1> QED BY <1>12, <1>13, <1>15, <1>16, <1>17, <1>18, <1>19, <1>20, <1>21, <1>22 DEF Store!Delete

\* The list of free frames without its head.
LEMMA VictimFree ==
    ASSUME TypeOK, NEW f \in Frame, VictimIs(f)
    PROVE  /\ free_list' \in Seq(Frame) /\ Members(free_list') \subseteq Members(free_list)
           /\ Members(free_list) \ {f} \subseteq Members(free_list')
           /\ Unique(free_list) => Unique(free_list')
<1>1. free_list \in Seq(Frame)
  BY DEF TypeOK
<1>2. CASE free_list # <<>>
  <2>1. f = free_list[1] /\ free_list' = Tail(free_list)
    BY <1>1, <1>2 DEF VictimIs
  <2>2. /\ free_list' \in Seq(Frame) /\ DOMAIN free_list = 1 .. Len(free_list) /\ Len(free_list) \in Nat
        /\ DOMAIN free_list' = 1 .. Len(free_list) - 1
        /\ \A i \in 2 .. Len(free_list) : i - 1 \in DOMAIN free_list' /\ free_list'[i - 1] = free_list[i]
        /\ \A i \in DOMAIN free_list' : i + 1 \in DOMAIN free_list /\ free_list'[i] = free_list[i + 1]
    BY <1>1, <1>2, <2>1
  <2>3. Members(free_list) \ {f} \subseteq Members(free_list')
    <3> SUFFICES ASSUME NEW i \in DOMAIN free_list, free_list[i] # f
                 PROVE  free_list[i] \in Members(free_list')
      BY DEF Members
    <3>1. i \in 2 .. Len(free_list)
      BY <2>1, <2>2
    <3> QED BY <3>1, <2>2 DEF Members
  <2>4. Members(free_list') \subseteq Members(free_list)
    BY <2>2 DEF Members
  <2>5. ASSUME Unique(free_list) PROVE Unique(free_list')
    <3> SUFFICES ASSUME NEW i \in DOMAIN free_list', NEW j \in DOMAIN free_list',
                        free_list'[i] = free_list'[j]
                 PROVE  i = j
      BY DEF Unique
    <3>1. i + 1 = j + 1
      BY <2>5, <2>2 DEF Unique
    <3> QED BY <3>1, <2>2
  <2> QED BY <2>2, <2>3, <2>4, <2>5
<1>3. CASE free_list = <<>>
  BY <1>1, <1>3 DEF VictimIs
<1> QED BY <1>2, <1>3

\* A disk error takes a frame out of a list and puts none into one.
LEMMA ErrorLists ==
    ASSUME TypeOK, Unique(LRUlist), NEW f \in Frame, DiskError(f)
    PROVE  /\ free_list' \in Seq(Frame) /\ LRUlist' \in Seq(Frame) /\ Unique(LRUlist')
           /\ Unique(free_list) => Unique(free_list')
           /\ Members(free_list') \subseteq Members(free_list)
           /\ Members(free_list) \ {f} \subseteq Members(free_list')
           /\ Members(LRUlist') \subseteq Members(LRUlist)
           /\ Members(LRUlist) \ {f} \subseteq Members(LRUlist')
           /\ taken' = taken \cup {f} /\ taken' \subseteq Frame
<1>1. LRUlist \in Seq(Frame)
  BY DEF TypeOK
<1>2. /\ pin(f) \in Seq(Frame) /\ Unique(pin(f)) /\ Members(pin(f)) = Members(LRUlist) \ {f}
  BY <1>1, PinRemoves
<1>3. LRUlist' = LRUlist \/ LRUlist' = pin(f)
  BY DEF DiskError
<1>4. taken' = taken \cup {f} /\ taken' \subseteq Frame
  BY DEF DiskError, TypeOK
<1> QED BY <1>1, <1>2, <1>3, <1>4, VictimFree DEF DiskError

\* update_page threw: a page keeps its contents, wherever it is, and a page
\* number that new_page took is skipped.
LEMMA WriteErrorPool ==
    ASSUME PoolInv, WriteError, fd2pageno' \in [Fd -> 0 .. MaxPage],
           \A fd \in Fd : fd2pageno'[fd] >= fd2pageno[fd]
    PROVE  PoolInv' /\ UNCHANGED Store!vars
<1> USE DEF PoolInv
<1>1. PICK f \in Frame : DiskError(f)
  BY DEF WriteError
<1>2. UNCHANGED <<pages, page_table, disk, handle, dead>>
  BY DEF WriteError
<1>3. /\ free_list' \in Seq(Frame) /\ LRUlist' \in Seq(Frame) /\ Unique(LRUlist') /\ Unique(free_list')
      /\ Members(free_list') \subseteq Members(free_list)
      /\ Members(LRUlist') \subseteq Members(LRUlist) /\ taken' \subseteq Frame
  BY <1>1, ErrorLists DEF Idle, Free
<1>4. TypeOK'
  BY <1>2, <1>3 DEF TypeOK
<1>5. TableMatchesFrame' /\ Owned' /\ HeldOK' /\ PinExact' /\ NoLostWrite'
  BY <1>2 DEF TableMatchesFrame, Owned, HeldOK, Holds, PinExact, NoLostWrite
<1>6. Idle' /\ Free'
  BY <1>2, <1>3 DEF Idle, Free
<1>7. Fresh'
  <2> SUFFICES ASSUME NEW q \in PageId, q[2] >= fd2pageno'[q[1]]
               PROVE  page_table[q] = NoFrame /\ disk[q] = Zero /\ q \notin dead
    BY <1>2 DEF Fresh
  <2>1. q[1] \in Fd /\ q[2] \in Nat /\ fd2pageno[q[1]] \in Nat /\ fd2pageno'[q[1]] \in Nat
    BY PoolAssumption DEF PageId, TypeOK
  <2>2. q[2] >= fd2pageno[q[1]]
    BY <2>1
  <2> QED BY <2>2 DEF Fresh
<1>8. UNCHANGED Store!vars
  BY <1>2 DEF Store!vars, Shown, Held
<1> QED BY <1>4, <1>5, <1>6, <1>7, <1>8

-----------------------------------------------------------------------------
\* Every step of the pool keeps PoolInv and is a step of PageStore.
LEMMA StepPool == PoolInv /\ [PoolNext]_vars => PoolInv' /\ StoreStep
<1> SUFFICES ASSUME PoolInv, [PoolNext]_vars PROVE PoolInv' /\ StoreStep
  OBVIOUS
<1>1. ASSUME NEW c \in Client, NEW p \in PageId \ dead, fetch_page(c, p) PROVE PoolInv' /\ StoreStep
  <2>1. p[2] < fd2pageno[p[1]]
    BY <1>1 DEF fetch_page
  <2>2. PoolInv' /\ Store!Hold(c, p)
    BY <1>1, <2>1, FetchHitPool, FetchMissPool DEF fetch_page
  <2> QED BY <2>2 DEF StoreStep, Store!Next
<1>2. ASSUME NEW c \in Client, NEW fd \in Fd, new_page(c, fd) PROVE PoolInv' /\ StoreStep
  BY <1>2, NewPagePool
<1>3. ASSUME NEW c \in Client, NEW v \in Value, WriteData(c, v) PROVE PoolInv' /\ StoreStep
  <2>1. PoolInv' /\ Store!Write(c, v) /\ v \in Data
    BY <1>3, WriteDataPool DEF Data
  <2> QED BY <2>1 DEF StoreStep, Store!Next
<1>4. ASSUME NEW c \in Client, unpin_page(c) PROVE PoolInv' /\ StoreStep
  BY <1>4, UnpinPool DEF StoreStep, Store!Next
<1>5. ASSUME NEW p \in PageId, flush_page(p) PROVE PoolInv' /\ StoreStep
  BY <1>5, FlushPool DEF StoreStep, Store!vars
<1>6. ASSUME NEW p \in PageId \ dead, delete_page(p) PROVE PoolInv' /\ StoreStep
  BY <1>6, DeletePool DEF StoreStep, Store!Next
<1>7. ASSUME NEW fd \in Fd, flush_all_pages(fd) PROVE PoolInv' /\ StoreStep
  BY <1>7, FlushAllPool DEF StoreStep, Store!vars
<1>8. CASE UNCHANGED vars
  <2>1. UNCHANGED <<Shown, Held>>
    BY <1>8 DEF vars, Shown, Held
  <2>2. PoolInv'
    BY <1>8 DEF vars, PoolInv, TypeOK, TableMatchesFrame, Owned, HeldOK, Holds, PinExact, Idle,
                Free, Fresh, NoLostWrite
  <2> QED BY <2>1, <2>2 DEF StoreStep, Store!vars
<1>9. ASSUME NEW c \in Client, NEW p \in PageId \ dead, FetchWriteError(c, p) PROVE PoolInv' /\ StoreStep
  <2>1. WriteError /\ fd2pageno' = fd2pageno
    BY <1>9 DEF FetchWriteError
  <2>2. \A fd \in Fd : fd2pageno[fd] \in 0 .. MaxPage
    BY DEF PoolInv, TypeOK
  <2>3. fd2pageno \in [Fd -> 0 .. MaxPage] /\ \A fd \in Fd : fd2pageno[fd] >= fd2pageno[fd]
    BY <2>2, PoolAssumption DEF PoolInv, TypeOK
  <2> QED BY <2>1, <2>3, WriteErrorPool DEF StoreStep
<1>10. ASSUME NEW c \in Client, NEW fd \in Fd, NewWriteError(c, fd) PROVE PoolInv' /\ StoreStep
  <2>1. WriteError /\ fd2pageno[fd] < MaxPage /\ fd2pageno' = [fd2pageno EXCEPT ![fd] = fd2pageno[fd] + 1]
    BY <1>10 DEF NewWriteError
  <2>2. fd2pageno \in [Fd -> 0 .. MaxPage]
    BY DEF PoolInv, TypeOK
  <2>3. fd2pageno' \in [Fd -> 0 .. MaxPage] /\ \A d \in Fd : fd2pageno'[d] >= fd2pageno[d]
    BY <2>1, <2>2, PoolAssumption
  <2> QED BY <2>1, <2>3, WriteErrorPool DEF StoreStep
<1> QED BY <1>1, <1>2, <1>3, <1>4, <1>5, <1>6, <1>7, <1>8, <1>9, <1>10 DEF PoolNext, Calls

\* The invariant holds in every state of the pool.
THEOREM PoolInvariant == PoolSpec => []PoolInv
<1>1. Init => PoolInv
  BY InitPool
<1>2. PoolInv /\ [PoolNext]_vars => PoolInv'
  BY StepPool
<1> QED BY <1>1, <1>2, PTL DEF PoolSpec

\* For every pool size, set of files and number of threads: a page that a caller
\* of fetch_page or new_page holds is neither evicted nor loaded a second time.
THEOREM PinnedIsStable == PoolSpec => []PinnedStable
<1>1. PoolInv => PinnedStable
  <2> SUFFICES ASSUME PoolInv, NEW c \in Client, Holds(c)
               PROVE  /\ pages[handle[c].frame].id = handle[c].page
                      /\ page_table[handle[c].page] = handle[c].frame
    BY DEF PinnedStable
  <2>1. handle[c].page \in PageId /\ page_table[handle[c].page] = handle[c].frame
    BY DEF PoolInv, HeldOK
  <2> QED BY <2>1 DEF PoolInv, TableMatchesFrame, Holds
<1> QED BY <1>1, PoolInvariant, PTL

\* No pin is leaked by the pool and none is released twice.
THEOREM PinsAreExact == PoolSpec => []PinExact
<1>1. PoolInv => PinExact
  BY DEF PoolInv
<1> QED BY <1>1, PoolInvariant, PTL

\* No write of a caller is dropped by eviction, by a flush or by another caller's
\* unpin.
THEOREM NoWriteIsLost == PoolSpec => []NoLostWrite
<1>1. PoolInv => NoLostWrite
  BY DEF PoolInv
<1> QED BY <1>1, PoolInvariant, PTL

\* The buffer pool implements PageStore.
THEOREM PoolImplementsStore == PoolSpec => ImplementsStore
<1>1. Init => Store!Init
  BY InitPool
<1>2. PoolInv /\ [PoolNext]_vars => [Store!Next]_Store!vars
  BY StepPool DEF StoreStep
<1> QED BY <1>1, <1>2, PoolInvariant, PTL DEF PoolSpec, ImplementsStore, Store!Spec

-----------------------------------------------------------------------------
(***************************************************************************)
(* Files are replaced.  PoolInv does not hold any more: a new file finds   *)
(* the pages of the old one in the pool.  What is left is inductive by     *)
(* itself, with the page that every fetched frame has.                     *)
(***************************************************************************)
HeldLoaded == \A c \in Client : Holds(c) => pages[handle[c].frame].id # NoPage

Somewhere ==
    \A f \in Frame :
        f \in Members(free_list) \/ f \in Members(LRUlist) \/ f \in taken \/ pages[f].pin > 0

Covered ==
    \A f \in Frame : ~Unmapped(f) /\ f \notin taken => pages[f].pin <= Cardinality(Holders(f))

FileInv ==
    /\ TypeOK /\ TableMatchesFrame /\ Unique(LRUlist) /\ HeldLoaded
    /\ Somewhere /\ Covered

\* The number of holders is a number.
LEMMA HoldersCount == ASSUME NEW f \in Frame PROVE Cardinality(Holders(f)) \in Nat
<1>1. Holders(f) \in SUBSET Client
  BY DEF Holders
<1> QED BY <1>1, ClientAssumption, FS_Subset, FS_CardinalityType

\* find_victim_page takes its frame, and no other, out of the lists.
LEMMA VictimLists ==
    ASSUME TypeOK, Unique(LRUlist), NEW f \in Frame, find_victim_page(f)
    PROVE  /\ free_list' \in Seq(Frame) /\ LRUlist' \in Seq(Frame) /\ Unique(LRUlist')
           /\ Members(free_list) \ {f} \subseteq Members(free_list')
           /\ Members(LRUlist) \ {f} \subseteq Members(LRUlist')
<1>1. LRUlist \in Seq(Frame)
  BY DEF TypeOK
<1>2. LRUlist' \in Seq(Frame) /\ Unique(LRUlist') /\ Members(LRUlist') = Members(LRUlist) \ {f}
  BY <1>1, PinRemoves DEF find_victim_page
<1> QED BY <1>2, VictimFree DEF find_victim_page

\* update_page: the frame has the new page, and no page is mapped to a frame that
\* has another.
LEMMA Refilled ==
    ASSUME FileInv, NEW f \in Frame, NEW p \in PageId, NEW d \in Data, NEW n \in Nat,
           pages' = Refill(f, p, d, n), page_table' = Remap(f, p), disk' = WriteBack(f)
    PROVE  /\ pages' \in [Frame -> Contents] /\ page_table' \in [PageId -> Frame \cup {NoFrame}]
           /\ disk' \in [PageId -> Data] /\ TableMatchesFrame'
           /\ pages'[f].id = p /\ pages'[f].pin = n /\ \A g \in Frame \ {f} : pages'[g] = pages[g]
           /\ ~Unmapped(f)' /\ \A g \in Frame \ {f} : Unmapped(g) => Unmapped(g)'
<1> DEFINE new == [id |-> p, data |-> d, pin |-> n, dirty |-> pages[f].dirty /\ pages[f].id = NoPage]
<1>1. /\ pages \in [Frame -> Contents] /\ page_table \in [PageId -> Frame \cup {NoFrame}]
      /\ disk \in [PageId -> Data] /\ new \in Contents /\ new.id = p /\ new.pin = n
  BY DEF FileInv, TypeOK, Contents
<1>2. /\ pages' \in [Frame -> Contents] /\ pages'[f] = new /\ \A g \in Frame \ {f} : pages'[g] = pages[g]
  BY <1>1 DEF Refill
<1>3. /\ page_table' \in [PageId -> Frame \cup {NoFrame}]
      /\ \A q \in PageId : page_table'[q] = IF q = p THEN f
                                            ELSE IF q = pages[f].id THEN NoFrame ELSE page_table[q]
  BY <1>1 DEF Remap
<1>4. disk' \in [PageId -> Data]
  BY <1>1 DEF WriteBack, Contents
<1> HIDE DEF new
<1>5. TableMatchesFrame'
  BY <1>1, <1>2, <1>3, Apart DEF FileInv, TableMatchesFrame
<1>6. ~Unmapped(f)'
  BY <1>1, <1>2, <1>3 DEF Unmapped
<1>7. ASSUME NEW g \in Frame \ {f}, Unmapped(g) PROVE Unmapped(g)'
  <2>1. pages'[g] = pages[g] /\ pages[g].id \in PageId /\ page_table[pages[g].id] # g
    BY <1>1, <1>2, <1>7 DEF Unmapped, Contents
  <2>2. page_table'[pages[g].id] # g
    BY <2>1, <1>3, Apart
  <2> QED BY <2>1, <2>2, Apart DEF Unmapped
<1> QED BY <1>1, <1>2, <1>3, <1>4, <1>5, <1>6, <1>7

\* fetch_page of a page that is not there, and new_page.
LEMMA LoadFiles ==
    ASSUME FileInv, NEW c \in Client, NEW p \in PageId, NEW f \in Frame, NEW d \in Data,
           find_victim_page(f), disk' = WriteBack(f), page_table' = Remap(f, p), ~Holds(c),
           pages' = Refill(f, p, d, 1), Hold(c, p, f), taken' = taken \ {f},
           fd2pageno' \in [Fd -> 0 .. MaxPage], dead' = dead
    PROVE  FileInv'
<1>1. /\ pages' \in [Frame -> Contents] /\ page_table' \in [PageId -> Frame \cup {NoFrame}]
      /\ disk' \in [PageId -> Data] /\ TableMatchesFrame'
      /\ pages'[f].id = p /\ pages'[f].pin = 1 /\ \A g \in Frame \ {f} : pages'[g] = pages[g]
      /\ \A g \in Frame \ {f} : Unmapped(g) => Unmapped(g)'
  BY Refilled
<1>2. /\ free_list' \in Seq(Frame) /\ LRUlist' \in Seq(Frame) /\ Unique(LRUlist')
      /\ Members(free_list) \ {f} \subseteq Members(free_list')
      /\ Members(LRUlist) \ {f} \subseteq Members(LRUlist')
  BY VictimLists DEF FileInv
<1>3. /\ handle' \in [Client -> Handles]
      /\ \A e \in Client : handle'[e] = IF e = c THEN [page |-> p, frame |-> f, wrote |-> FALSE]
                                        ELSE handle[e]
  BY DEF Hold, Handles, FileInv, TypeOK
<1>4. TypeOK'
  BY <1>1, <1>2, <1>3 DEF FileInv, TypeOK
<1>5. Somewhere'
  BY <1>1, <1>2 DEF FileInv, Somewhere
<1>6. Covered'
  <2>1. /\ Cardinality(Holders(f)') = Cardinality(Holders(f)) + 1
        /\ \A g \in Frame \ {f} : Holders(g)' = Holders(g)
    BY AddHolder DEF FileInv, TypeOK
  <2>2. pages'[f].pin <= Cardinality(Holders(f)')
    BY <1>1, <2>1, HoldersCount
  <2>3. ASSUME NEW g \in Frame \ {f}, ~Unmapped(g)', g \notin taken'
        PROVE  pages'[g].pin <= Cardinality(Holders(g)')
    BY <2>1, <2>3, <1>1 DEF FileInv, Covered
  <2> QED BY <2>2, <2>3 DEF Covered
<1>7. HeldLoaded'
  <2> SUFFICES ASSUME NEW e \in Client, handle'[e].frame # NoFrame
               PROVE  pages'[handle'[e].frame].id # NoPage
    BY DEF HeldLoaded, Holds
  <2>1. handle'[e].frame \in Frame
    BY <1>3 DEF Handles
  <2>2. CASE handle'[e].frame = f
    BY <2>2, <1>1, Apart
  <2>3. CASE handle'[e].frame # f
    <3>1. handle'[e] = handle[e] /\ pages'[handle[e].frame] = pages[handle[e].frame]
      BY <2>1, <2>3, <1>1, <1>3
    <3> QED BY <3>1 DEF FileInv, HeldLoaded, Holds
  <2> QED BY <2>2, <2>3
<1> QED BY <1>1, <1>2, <1>4, <1>5, <1>6, <1>7 DEF FileInv

\* The steps that leave every page in its frame: what is left to show of them.
LEMMA SameFrames ==
    ASSUME FileInv, TypeOK', page_table' = page_table, taken' = taken,
           \A g \in Frame : pages'[g].id = pages[g].id,
           Unique(LRUlist'), Members(free_list) \subseteq Members(free_list'),
           \A g \in Frame : g \notin Members(LRUlist') =>
               pages'[g].pin > 0 \/ g \in Members(free_list') \/ (g \notin Members(LRUlist) /\ pages'[g].pin = pages[g].pin),
           \A g \in Frame : ~Unmapped(g) /\ g \notin taken => pages'[g].pin <= Cardinality(Holders(g)'),
           \A e \in Client : handle'[e].frame \in {handle[e].frame, NoFrame}
                             \/ pages[handle'[e].frame].id # NoPage
    PROVE  FileInv'
<1>1. TableMatchesFrame'
  BY DEF FileInv, TypeOK, TableMatchesFrame
<1>2. Somewhere'
  BY DEF FileInv, Somewhere
<1>3. Covered'
  <2>1. \A g \in Frame : Unmapped(g)' <=> Unmapped(g)
    BY DEF Unmapped
  <2> QED BY <2>1 DEF Covered
<1>4. HeldLoaded'
  <2> SUFFICES ASSUME NEW e \in Client, handle'[e].frame # NoFrame
               PROVE  pages'[handle'[e].frame].id # NoPage
    BY DEF HeldLoaded, Holds
  <2>1. handle'[e].frame \in Frame
    BY DEF TypeOK, Handles
  <2> QED BY <2>1 DEF FileInv, HeldLoaded, Holds
<1> QED BY <1>1, <1>2, <1>3, <1>4 DEF FileInv

\* The same, when nobody starts or ends to hold a page.
LEMMA SameHolders ==
    ASSUME FileInv, TypeOK', page_table' = page_table, taken' = taken,
           \A g \in Frame : pages'[g].id = pages[g].id /\ pages'[g].pin = pages[g].pin,
           LRUlist' = LRUlist, Members(free_list) \subseteq Members(free_list'),
           \A e \in Client : handle'[e].frame = handle[e].frame
    PROVE  FileInv'
<1>1. \A g \in Frame : Holders(g)' = Holders(g)
  BY DEF Holders
<1>2. \A g \in Frame : ~Unmapped(g) /\ g \notin taken => pages'[g].pin <= Cardinality(Holders(g)')
  BY <1>1 DEF FileInv, Covered
<1> QED BY <1>2, SameFrames DEF FileInv

LEMMA FetchHitFiles ==
    ASSUME FileInv, NEW c \in Client, NEW p \in PageId, FetchHit(c, p)
    PROVE  FileInv'
<1>1. PICK f \in Frame : f = page_table[p] /\ pages[f].id = p
  BY DEF FileInv, TypeOK, FetchHit, TableMatchesFrame
<1>2. /\ LRUlist' = pin(f) /\ Hold(c, p, f) /\ pages' = [pages EXCEPT ![f].pin = pages[f].pin + 1]
      /\ UNCHANGED <<page_table, free_list, disk, fd2pageno, dead, taken>>
      /\ pages \in [Frame -> Contents] /\ LRUlist \in Seq(Frame)
  BY <1>1 DEF FetchHit, HitPins, FileInv, TypeOK
<1>3. /\ LRUlist' \in Seq(Frame) /\ Unique(LRUlist')
      /\ Members(LRUlist') = Members(LRUlist) \ {f}
  BY <1>2, PinRemoves DEF FileInv
<1>4. /\ pages' \in [Frame -> Contents] /\ pages'[f].pin > 0
      /\ \A g \in Frame : pages'[g].id = pages[g].id /\ (g # f => pages'[g].pin = pages[g].pin)
  <2> DEFINE new == [pages[f] EXCEPT !.pin = pages[f].pin + 1]
  <2>1. pages[f] \in Contents /\ pages[f].pin + 1 \in Nat /\ pages[f].pin + 1 > 0
    BY <1>2 DEF Contents
  <2>2. new \in Contents /\ new.id = pages[f].id /\ new.pin = pages[f].pin + 1
    BY <2>1, SetPin
  <2>3. pages' = [pages EXCEPT ![f] = new]
    BY <1>2
  <2> HIDE DEF new
  <2> QED BY <1>2, <2>1, <2>2, <2>3
<1>5. /\ handle' \in [Client -> Handles]
      /\ \A e \in Client : handle'[e].frame = IF e = c THEN f ELSE handle[e].frame
  BY <1>2 DEF Hold, Handles, FileInv, TypeOK
<1>6. TypeOK'
  BY <1>2, <1>3, <1>4, <1>5 DEF FileInv, TypeOK
<1>7. \A g \in Frame : ~Unmapped(g) /\ g \notin taken => pages'[g].pin <= Cardinality(Holders(g)')
  <2>1. /\ Cardinality(Holders(f)') = Cardinality(Holders(f)) + 1
        /\ \A g \in Frame \ {f} : Holders(g)' = Holders(g)
    BY <1>2, AddHolder DEF FileInv, TypeOK, FetchHit
  <2>2. pages'[f].pin = pages[f].pin + 1 /\ pages[f].pin \in Nat /\ Cardinality(Holders(f)) \in Nat
    BY <1>2, HoldersCount DEF Contents
  <2>3. ASSUME NEW g \in Frame, ~Unmapped(g), g \notin taken PROVE pages'[g].pin <= Cardinality(Holders(g)')
    <3>1. pages[g].pin <= Cardinality(Holders(g))
      BY <2>3 DEF FileInv, Covered
    <3>2. CASE g = f
      BY <3>1, <3>2, <2>1, <2>2
    <3>3. CASE g # f
      BY <3>1, <3>3, <2>1, <1>4
    <3> QED BY <3>2, <3>3
  <2> QED BY <2>3
<1> QED BY <1>1, <1>2, <1>3, <1>4, <1>5, <1>6, <1>7, Apart, SameFrames

LEMMA FetchFiles ==
    ASSUME FileInv, NEW c \in Client, NEW p \in PageId, fetch_page(c, p)
    PROVE  FileInv'
<1>1. CASE FetchHit(c, p)
  BY <1>1, FetchHitFiles
<1>2. CASE FetchMiss(c, p)
  <2>1. PICK f \in Frame :
          /\ find_victim_page(f) /\ disk' = WriteBack(f) /\ page_table' = Remap(f, p)
          /\ pages' = Refill(f, p, disk'[p], 1) /\ Hold(c, p, f) /\ taken' = taken \ {f}
    BY <1>2 DEF FetchMiss, HoldNew
  <2>2. disk' \in [PageId -> Data]
    BY <2>1 DEF FileInv, TypeOK, WriteBack, Contents
  <2>3. disk'[p] \in Data
    BY <2>2
  <2>4. fd2pageno' \in [Fd -> 0 .. MaxPage] /\ dead' = dead /\ ~Holds(c)
    BY <1>2 DEF FetchMiss, FileInv, TypeOK
  <2> QED BY <2>1, <2>3, <2>4, LoadFiles
<1> QED BY <1>1, <1>2 DEF fetch_page

LEMMA NewPageFiles ==
    ASSUME FileInv, NEW c \in Client, NEW fd \in Fd, new_page(c, fd)
    PROVE  FileInv'
<1> DEFINE n == fd2pageno[fd]
<1>1. n \in 0 .. MaxPage - 1
  BY PoolAssumption DEF FileInv, TypeOK, new_page
<1>2. PICK p \in PageId : p = <<fd, n>>
  BY <1>1 DEF PageId
<1>3. PICK f \in Frame :
        /\ find_victim_page(f) /\ disk' = WriteBack(f) /\ page_table' = Remap(f, p)
        /\ pages' = Refill(f, p, Zero, 1) /\ Hold(c, p, f) /\ taken' = taken \ {f}
  BY <1>2 DEF new_page, HoldNew
<1>4. fd2pageno' \in [Fd -> 0 .. MaxPage] /\ dead' = dead /\ ~Holds(c)
  <2>1. n + 1 \in 0 .. MaxPage
    BY <1>1, PoolAssumption
  <2> QED BY <2>1 DEF new_page, FileInv, TypeOK
<1> QED BY <1>3, <1>4, Apart, LoadFiles

LEMMA WriteDataFiles ==
    ASSUME FileInv, NEW c \in Client, NEW v \in Value, WriteData(c, v)
    PROVE  FileInv'
<1>1. PICK f \in Frame : f = handle[c].frame
  BY DEF FileInv, TypeOK, Handles, WriteData, Holds
<1>2. /\ pages' = [pages EXCEPT ![f].data = v] /\ handle' = [handle EXCEPT ![c].wrote = TRUE]
      /\ UNCHANGED <<page_table, free_list, LRUlist, disk, fd2pageno, dead, taken>>
      /\ pages \in [Frame -> Contents] /\ handle \in [Client -> Handles] /\ v \in Data
  BY <1>1 DEF WriteData, FileInv, TypeOK, Data
<1>3. /\ pages' \in [Frame -> Contents]
      /\ \A g \in Frame : pages'[g].id = pages[g].id /\ pages'[g].pin = pages[g].pin
  <2> DEFINE new == [pages[f] EXCEPT !.data = v]
  <2>1. new \in Contents /\ new.id = pages[f].id /\ new.pin = pages[f].pin
    BY <1>2, SetData
  <2>2. pages' = [pages EXCEPT ![f] = new]
    BY <1>2
  <2> HIDE DEF new
  <2> QED BY <1>2, <2>1, <2>2
<1>4. /\ handle' \in [Client -> Handles] /\ \A e \in Client : handle'[e].frame = handle[e].frame
  BY <1>2 DEF Handles
<1>5. TypeOK'
  BY <1>2, <1>3, <1>4 DEF FileInv, TypeOK
<1> QED BY <1>2, <1>3, <1>4, <1>5, SameHolders DEF FileInv

\* unpin_page: a frame that loses its last pin goes to the replacer.
LEMMA UnpinFiles ==
    ASSUME FileInv, NEW c \in Client, unpin_page(c)
    PROVE  FileInv'
<1> DEFINE p == pages[handle[c].frame].id  f == page_table[p]
<1>0. PICK h \in Frame : h = handle[c].frame
  BY DEF FileInv, TypeOK, Handles, unpin_page, Holds
<1>1. p \in PageId
  BY DEF FileInv, TypeOK, Handles, Contents, HeldLoaded, unpin_page, Holds
<1>2. /\ handle' = [handle EXCEPT ![c] = NoHandle]
      /\ UNCHANGED <<page_table, free_list, disk, fd2pageno, dead, taken>>
      /\ pages \in [Frame -> Contents] /\ handle \in [Client -> Handles] /\ LRUlist \in Seq(Frame)
  BY DEF unpin_page, FileInv, TypeOK
<1>3. /\ handle' \in [Client -> Handles]
      /\ \A e \in Client : handle'[e].frame \in {handle[e].frame, NoFrame}
  BY <1>2 DEF NoHandle, Handles
<1> DEFINE b == Dirtied(f, handle[c].wrote)
<1>4. IF f # NoFrame /\ Pinned(f)
      THEN pages' = [pages EXCEPT ![f].pin = @ - 1, ![f].dirty = b] /\ LRUlist' = Evictable(f)
      ELSE UNCHANGED <<pages, LRUlist>>
  BY DEF unpin_page
<1>5. f \in Frame \cup {NoFrame}
  BY <1>1 DEF FileInv, TypeOK
<1>8. ~Unmapped(h) => h = f
  BY <1>0, <1>1, Apart DEF Unmapped
<1>9. /\ Cardinality(Holders(h)') = Cardinality(Holders(h)) - 1
      /\ \A g \in Frame \ {h} : Holders(g)' = Holders(g)
  BY <1>0, <1>2, DropHolder
<1>10. \A g \in Frame : /\ pages[g].pin \in Nat /\ Cardinality(Holders(g)) \in Nat
                        /\ Cardinality(Holders(g)') \in Nat
  <2>1. \A g \in Frame : Cardinality(Holders(g)) \in Nat
    BY HoldersCount
  <2>2. \A g \in Frame : Holders(g)' \in SUBSET Client
    BY DEF Holders
  <2>3. \A g \in Frame : Cardinality(Holders(g)') \in Nat
    BY <2>2, ClientAssumption, FS_Subset, FS_CardinalityType
  <2> QED BY <2>1, <2>3, <1>2 DEF Contents
<1> HIDE DEF f, p
<1>6. CASE f # NoFrame /\ Pinned(f)
  <2>1. f \in Frame /\ pages[f] \in Contents /\ pages[f].pin \in Nat \ {0} /\ b \in BOOLEAN
    <3>1. f \in Frame /\ pages[f] \in Contents
      BY <1>2, <1>5, <1>6
    <3>2. pages[f].pin \in Nat \ {0}
      BY <3>1, <1>6 DEF Pinned, Contents
    <3> QED BY <3>1, <3>2 DEF Dirtied
  <2> HIDE DEF b
  <2> DEFINE low == [pages[f] EXCEPT !.pin = pages[f].pin - 1]
             new == [low EXCEPT !.dirty = b]
  <2>2. pages' = [pages EXCEPT ![f] = new]
    BY <1>2, <1>4, <1>6
  <2>3. low \in Contents /\ low.id = pages[f].id /\ low.pin = pages[f].pin - 1
    <3>1. pages[f].pin - 1 \in Nat
      BY <2>1
    <3> QED BY <3>1, <2>1, SetPin
  <2> HIDE DEF low
  <2>4. new \in Contents /\ new.id = pages[f].id /\ new.pin = pages[f].pin - 1
    BY <2>1, <2>3, SetDirty
  <2> HIDE DEF new
  <2>5. /\ pages' \in [Frame -> Contents] /\ pages'[f].pin = pages[f].pin - 1
        /\ \A g \in Frame : pages'[g].id = pages[g].id /\ (g # f => pages'[g].pin = pages[g].pin)
    BY <1>2, <2>1, <2>2, <2>4
  <2>6. /\ LRUlist' \in Seq(Frame) /\ Unique(LRUlist') /\ Members(LRUlist) \subseteq Members(LRUlist')
        /\ pages[f].pin = 1 => f \in Members(LRUlist')
    BY <1>2, <1>4, <1>6, <2>1, UnpinAdds DEF Evictable, FileInv
  <2>7. TypeOK'
    BY <1>2, <1>3, <2>5, <2>6 DEF FileInv, TypeOK
  <2>8. pages[f].pin = 1 \/ pages'[f].pin > 0
    BY <2>1, <2>5
  <2>9. ASSUME NEW g \in Frame, ~Unmapped(g), g \notin taken PROVE pages'[g].pin <= Cardinality(Holders(g)')
    <3>1. pages[g].pin <= Cardinality(Holders(g))
      BY <2>9 DEF FileInv, Covered
    <3>2. CASE g = h
      <4>1. g = f
        BY <3>2, <2>9, <1>8
      <4> QED BY <3>1, <3>2, <4>1, <2>5, <1>9, <1>10
    <3>3. CASE g # h
      <4>1. Holders(g)' = Holders(g) /\ pages'[g].pin <= pages[g].pin /\ pages'[g].pin \in Nat
        BY <3>3, <2>1, <2>5, <1>9, <1>10 DEF Contents
      <4> QED BY <3>1, <4>1, <1>10
    <3> QED BY <3>2, <3>3
  <2> QED BY <1>2, <1>3, <2>5, <2>6, <2>7, <2>8, <2>9, SameFrames
<1>7. CASE ~(f # NoFrame /\ Pinned(f))
  <2>1. TypeOK' /\ UNCHANGED <<pages, LRUlist>>
    BY <1>2, <1>3, <1>4, <1>7 DEF FileInv, TypeOK
  <2>2. ASSUME NEW g \in Frame, ~Unmapped(g), g \notin taken PROVE pages'[g].pin <= Cardinality(Holders(g)')
    <3>1. pages[g].pin <= Cardinality(Holders(g)) /\ pages'[g].pin = pages[g].pin
      BY <2>2, <2>1 DEF FileInv, Covered
    <3>2. CASE g = h
      <4>1. pages[g].pin = 0
        BY <3>2, <2>2, <1>7, <1>8, Apart DEF Pinned
      <4> QED BY <3>1, <4>1, <1>10
    <3>3. CASE g # h
      BY <3>1, <3>3, <1>9
    <3> QED BY <3>2, <3>3
  <2> QED BY <1>2, <1>3, <2>1, <2>2, SameFrames DEF FileInv
<1> QED BY <1>6, <1>7

\* A set of frames has a largest one, which is the last that flush_all_pages writes.
LEMMA LargestFrame ==
    ASSUME NEW S \in SUBSET Frame, S # {}
    PROVE  \E f \in S : \A g \in S : g <= f
<1> DEFINE up(f) == f .. PoolSize
           T == {up(f) : f \in S}
<1>1. T \subseteq FiniteSubsetsOf(Frame) /\ T # {}
  <2>1. \A f \in S : up(f) \in SUBSET Frame /\ IsFiniteSet(up(f))
    BY PoolAssumption, FS_Interval DEF Frame
  <2> QED BY <2>1 DEF FiniteSubsetsOf
<1>2. PICK x \in T : \A y \in T : <<y, x>> \notin StrictSubsetOrdering(Frame)
  <2> HIDE DEF T
  <2> QED BY <1>1, FS_StrictSubsetOrderingWellFounded, WFMin
<1>3. PICK f \in S : x = up(f)
  BY <1>2
<1>4. ASSUME NEW g \in S, ~(g <= f) PROVE FALSE
  <2>1. up(g) \in SUBSET Frame /\ up(f) \in SUBSET Frame
    BY PoolAssumption DEF Frame
  <2>2. up(g) \subseteq up(f) /\ f \in up(f) /\ f \notin up(g)
    BY <1>4, PoolAssumption DEF Frame
  <2>3. up(g) \in T
    OBVIOUS
  <2> HIDE DEF up
  <2> QED BY <2>1, <2>2, <2>3, <1>2, <1>3 DEF StrictSubsetOrdering
<1> QED BY <1>4

\* The flushes and ReplaceFile clear is_dirty_ and leave the rest of a frame.
LEMMA FlushedFrames ==
    ASSUME TypeOK, NEW fd \in Fd
    PROVE  /\ FlushedPages(fd) \in [Frame -> Contents]
           /\ \A g \in Frame : /\ FlushedPages(fd)[g].id = pages[g].id
                               /\ FlushedPages(fd)[g].pin = pages[g].pin
                               /\ FlushedPages(fd)[g].data = pages[g].data
<1>1. pages \in [Frame -> Contents]
  BY DEF TypeOK
<1>2. ASSUME NEW g \in Frame
      PROVE  /\ FlushedPages(fd)[g] \in Contents
             /\ FlushedPages(fd)[g].id = pages[g].id /\ FlushedPages(fd)[g].pin = pages[g].pin
             /\ FlushedPages(fd)[g].data = pages[g].data
  <2>1. CASE pages[g].id # NoPage /\ pages[g].id[1] = fd
    <3>1. FlushedPages(fd)[g] = [pages[g] EXCEPT !.dirty = FALSE]
      BY <2>1 DEF FlushedPages
    <3> QED BY <3>1, <1>1, SetDirty
  <2>2. CASE ~(pages[g].id # NoPage /\ pages[g].id[1] = fd)
    <3>1. FlushedPages(fd)[g] = pages[g]
      BY <2>2 DEF FlushedPages
    <3> QED BY <3>1, <1>1
  <2> QED BY <2>1, <2>2
<1>3. FlushedPages(fd) \in [Frame -> Contents]
  BY <1>2 DEF FlushedPages
<1> QED BY <1>2, <1>3

LEMMA FlushFiles ==
    ASSUME FileInv, NEW p \in PageId, flush_page(p)
    PROVE  FileInv'
<1>1. PICK f \in Frame : f = page_table[p]
  BY DEF FileInv, TypeOK, flush_page
<1>2. /\ disk' = [disk EXCEPT ![p] = pages[f].data] /\ pages' = [pages EXCEPT ![f].dirty = FALSE]
      /\ UNCHANGED <<page_table, free_list, LRUlist, fd2pageno, handle, dead, taken>>
      /\ pages \in [Frame -> Contents] /\ pages[f].data \in Data
  BY <1>1 DEF flush_page, FileInv, TypeOK, Contents
<1>3. /\ pages' \in [Frame -> Contents]
      /\ \A g \in Frame : pages'[g].id = pages[g].id /\ pages'[g].pin = pages[g].pin
  <2>1. PICK new : new = [pages[f] EXCEPT !.dirty = FALSE]
    OBVIOUS
  <2>2. pages[f] \in Contents
    BY <1>2
  <2>3. new \in Contents
    BY <2>1, <2>2 DEF Contents
  <2>4. new.id = pages[f].id /\ new.pin = pages[f].pin
    BY <2>1, <2>2 DEF Contents
  <2>5. pages' = [pages EXCEPT ![f] = new]
    BY <2>1, <1>2
  <2> QED BY <1>2, <2>3, <2>4, <2>5
<1>4. TypeOK'
  BY <1>2, <1>3 DEF FileInv, TypeOK
<1> QED BY <1>2, <1>3, <1>4, SameHolders DEF FileInv

LEMMA FlushAllFiles ==
    ASSUME FileInv, NEW fd \in Fd, flush_all_pages(fd)
    PROVE  FileInv'
<1>1. /\ disk' = FlushedDisk(fd) /\ pages' = FlushedPages(fd)
      /\ UNCHANGED <<page_table, free_list, LRUlist, fd2pageno, handle, dead, taken>>
      /\ pages \in [Frame -> Contents] /\ disk \in [PageId -> Data]
  BY DEF flush_all_pages, FileInv, TypeOK
<1>2. /\ pages' \in [Frame -> Contents]
      /\ \A g \in Frame : pages'[g].id = pages[g].id /\ pages'[g].pin = pages[g].pin
  BY <1>1, FlushedFrames DEF FileInv
<1>3. disk' \in [PageId -> Data]
  <2> SUFFICES ASSUME NEW q \in PageId PROVE disk'[q] \in Data
    BY <1>1 DEF FlushedDisk
  <2> DEFINE P(f) == pages[f].id = q /\ \A g \in Frame : pages[g].id = q => g <= f
             has == {f \in Frame : pages[f].id = q}
  <2>1. CASE q[1] = fd /\ \E f \in Frame : pages[f].id = q
    <3>1. PICK f \in Frame : P(f)
      <4>1. has \in SUBSET Frame /\ has # {}
        BY <2>1
      <4>2. PICK f \in has : \A g \in has : g <= f
        BY <4>1, LargestFrame
      <4> QED BY <4>2
    <3>2. (CHOOSE g \in Frame : P(g)) \in Frame
      BY <3>1
    <3>3. disk'[q] = pages[CHOOSE g \in Frame : P(g)].data
      BY <2>1, <1>1 DEF FlushedDisk
    <3> HIDE DEF P
    <3> QED BY <3>2, <3>3, <1>1 DEF Contents
  <2>2. CASE ~(q[1] = fd /\ \E f \in Frame : pages[f].id = q)
    BY <2>2, <1>1 DEF FlushedDisk
  <2> QED BY <2>1, <2>2
<1>4. TypeOK'
  BY <1>1, <1>2, <1>3 DEF FileInv, TypeOK
<1> QED BY <1>1, <1>2, <1>4, SameHolders DEF FileInv

\* delete_page: the frame keeps its page and goes to free_list_.
LEMMA DeleteFiles ==
    ASSUME FileInv, NEW p \in PageId, delete_page(p)
    PROVE  FileInv'
<1>1. PICK f \in Frame : f = page_table[p] /\ pages[f].id = p
  BY DEF FileInv, TypeOK, delete_page, TableMatchesFrame
<1>2. /\ disk' = WriteBack(f) /\ page_table' = Remap(f, p) /\ pages' = Refill(f, p, Zero, 0)
      /\ free_list' = Append(free_list, f) /\ dead' = dead \cup {p}
      /\ UNCHANGED <<LRUlist, fd2pageno, handle, taken>> /\ free_list \in Seq(Frame) /\ pages[f].pin = 0
  BY <1>1 DEF delete_page, FileInv, TypeOK
<1>3. /\ pages' \in [Frame -> Contents] /\ page_table' \in [PageId -> Frame \cup {NoFrame}]
      /\ disk' \in [PageId -> Data] /\ pages'[f].id = p /\ pages'[f].pin = 0
      /\ \A g \in Frame \ {f} : pages'[g] = pages[g]
  BY <1>2, Apart, Refilled
<1>4. page_table' = page_table
  BY <1>1, <1>2 DEF Remap, FileInv, TypeOK
<1>5. /\ free_list' \in Seq(Frame) /\ Len(free_list') = Len(free_list) + 1 /\ Len(free_list) \in Nat
      /\ \A i \in 1 .. Len(free_list) : free_list'[i] = free_list[i]
      /\ free_list'[Len(free_list) + 1] = f
  BY <1>2, AppendProperties
<1>6. Members(free_list) \subseteq Members(free_list') /\ f \in Members(free_list')
  <2>1. DOMAIN free_list = 1 .. Len(free_list) /\ DOMAIN free_list' = 1 .. Len(free_list) + 1
    BY <1>2, <1>5
  <2> QED BY <2>1, <1>5 DEF Members
<1>7. TypeOK'
  BY <1>2, <1>3, <1>5 DEF FileInv, TypeOK
<1> QED BY <1>1, <1>2, <1>3, <1>4, <1>6, <1>7, SameHolders DEF FileInv

\* ReplaceFile leaves the frames with the pages of the old file.
LEMMA ReplaceFiles ==
    ASSUME FileInv, NEW fd \in Fd, ReplaceFile(fd)
    PROVE  FileInv'
<1>1. /\ pages' = FlushedPages(fd) /\ UNCHANGED <<page_table, free_list, LRUlist, handle, taken>>
      /\ disk' = [p \in PageId |-> IF p[1] = fd THEN Zero ELSE disk[p]]
      /\ fd2pageno' = [fd2pageno EXCEPT ![fd] = 0] /\ dead' = {p \in dead : p[1] # fd}
  BY DEF ReplaceFile
<1>2. /\ pages' \in [Frame -> Contents]
      /\ \A g \in Frame : pages'[g].id = pages[g].id /\ pages'[g].pin = pages[g].pin
  BY <1>1, FlushedFrames DEF FileInv
<1>3. disk' \in [PageId -> Data] /\ fd2pageno' \in [Fd -> 0 .. MaxPage] /\ dead' \subseteq PageId
  BY <1>1, Apart, PoolAssumption DEF FileInv, TypeOK
<1>4. TypeOK'
  BY <1>1, <1>2, <1>3 DEF FileInv, TypeOK
<1> QED BY <1>1, <1>2, <1>4, SameHolders DEF FileInv

\* update_page threw: the victim is in no list, and nothing else changed.
LEMMA WriteErrorFiles ==
    ASSUME FileInv, WriteError, fd2pageno' \in [Fd -> 0 .. MaxPage]
    PROVE  FileInv'
<1>1. PICK f \in Frame : DiskError(f)
  BY DEF WriteError
<1>2. UNCHANGED <<pages, page_table, disk, handle, dead>>
  BY DEF WriteError
<1>3. /\ free_list' \in Seq(Frame) /\ LRUlist' \in Seq(Frame) /\ Unique(LRUlist')
      /\ Members(free_list) \ {f} \subseteq Members(free_list')
      /\ Members(LRUlist) \ {f} \subseteq Members(LRUlist')
      /\ taken' = taken \cup {f} /\ taken' \subseteq Frame
  BY <1>1, ErrorLists DEF FileInv
<1>4. TypeOK'
  BY <1>2, <1>3 DEF FileInv, TypeOK
<1>5. Somewhere'
  BY <1>2, <1>3 DEF FileInv, Somewhere
<1>6. Covered' /\ TableMatchesFrame' /\ HeldLoaded'
  BY <1>2, <1>3 DEF FileInv, Covered, Unmapped, Holders, TableMatchesFrame, HeldLoaded, Holds
<1> QED BY <1>3, <1>4, <1>5, <1>6 DEF FileInv

\* read_page threw: the victim has the new page, and is in no list.
LEMMA ReadErrorFiles ==
    ASSUME FileInv, NEW c \in Client, NEW p \in PageId, FetchReadError(c, p)
    PROVE  FileInv'
<1>1. PICK f \in Frame :
        /\ DiskError(f) /\ disk' = WriteBack(f) /\ page_table' = Remap(f, p)
        /\ pages' = Refill(f, p, Zero, pages[f].pin)
  BY DEF FetchReadError
<1>2. UNCHANGED <<fd2pageno, handle, dead>>
  BY DEF FetchReadError
<1>3. pages[f].pin \in Nat
  BY DEF FileInv, TypeOK, Contents
<1>4. /\ pages' \in [Frame -> Contents] /\ page_table' \in [PageId -> Frame \cup {NoFrame}]
      /\ disk' \in [PageId -> Data] /\ TableMatchesFrame' /\ pages'[f].id = p
      /\ \A g \in Frame \ {f} : pages'[g] = pages[g]
      /\ \A g \in Frame \ {f} : Unmapped(g) => Unmapped(g)'
  BY <1>1, <1>3, Apart, Refilled
<1>5. /\ free_list' \in Seq(Frame) /\ LRUlist' \in Seq(Frame) /\ Unique(LRUlist')
      /\ Members(free_list) \ {f} \subseteq Members(free_list')
      /\ Members(LRUlist) \ {f} \subseteq Members(LRUlist')
      /\ taken' = taken \cup {f} /\ taken' \subseteq Frame
  BY <1>1, ErrorLists DEF FileInv
<1>6. TypeOK'
  BY <1>2, <1>4, <1>5 DEF FileInv, TypeOK
<1>7. Somewhere'
  BY <1>4, <1>5 DEF FileInv, Somewhere
<1>8. Covered'
  <2>1. \A g \in Frame : Holders(g)' = Holders(g)
    BY <1>2 DEF Holders
  <2> QED BY <2>1, <1>4, <1>5 DEF FileInv, Covered
<1>9. HeldLoaded'
  <2> SUFFICES ASSUME NEW e \in Client, handle[e].frame # NoFrame
               PROVE  pages'[handle[e].frame].id # NoPage
    BY <1>2 DEF HeldLoaded, Holds
  <2>1. handle[e].frame \in Frame
    BY DEF FileInv, TypeOK, Handles
  <2> QED BY <2>1, <1>4, Apart DEF FileInv, HeldLoaded, Holds
<1> QED BY <1>4, <1>5, <1>6, <1>7, <1>8, <1>9 DEF FileInv

LEMMA StepFiles == FileInv /\ [Next]_vars => FileInv'
<1> SUFFICES ASSUME FileInv, [Next]_vars PROVE FileInv'
  OBVIOUS
<1>1. ASSUME NEW c \in Client, NEW p \in PageId, fetch_page(c, p) PROVE FileInv'
  BY <1>1, FetchFiles
<1>2. ASSUME NEW c \in Client, NEW fd \in Fd, new_page(c, fd) PROVE FileInv'
  BY <1>2, NewPageFiles
<1>3. ASSUME NEW c \in Client, NEW v \in Value, WriteData(c, v) PROVE FileInv'
  BY <1>3, WriteDataFiles
<1>4. ASSUME NEW c \in Client, unpin_page(c) PROVE FileInv'
  BY <1>4, UnpinFiles
<1>5. ASSUME NEW p \in PageId, flush_page(p) PROVE FileInv'
  BY <1>5, FlushFiles
<1>6. ASSUME NEW p \in PageId, delete_page(p) PROVE FileInv'
  BY <1>6, DeleteFiles
<1>7. ASSUME NEW fd \in Fd, flush_all_pages(fd) PROVE FileInv'
  BY <1>7, FlushAllFiles
<1>8. ASSUME NEW fd \in Fd, ReplaceFile(fd) PROVE FileInv'
  BY <1>8, ReplaceFiles
<1>9. CASE UNCHANGED vars
  BY <1>9 DEF vars, FileInv, TypeOK, TableMatchesFrame, HeldLoaded, Holds, Unique, Somewhere, Members,
              Covered, Unmapped, Holders
<1>10. ASSUME NEW c \in Client, NEW p \in PageId, FetchWriteError(c, p) PROVE FileInv'
  BY <1>10, WriteErrorFiles DEF FetchWriteError, FileInv, TypeOK
<1>11. ASSUME NEW c \in Client, NEW fd \in Fd, NewWriteError(c, fd) PROVE FileInv'
  <2>1. WriteError /\ fd2pageno[fd] < MaxPage /\ fd2pageno' = [fd2pageno EXCEPT ![fd] = fd2pageno[fd] + 1]
    BY <1>11 DEF NewWriteError
  <2>2. fd2pageno' \in [Fd -> 0 .. MaxPage]
    BY <2>1, PoolAssumption DEF FileInv, TypeOK
  <2> QED BY <2>1, <2>2, WriteErrorFiles
<1>12. ASSUME NEW c \in Client, NEW p \in PageId, FetchReadError(c, p) PROVE FileInv'
  BY <1>12, ReadErrorFiles
<1> QED BY <1>1, <1>2, <1>3, <1>4, <1>5, <1>6, <1>7, <1>8, <1>9, <1>10, <1>11, <1>12 DEF Next, Calls

\* The invariant holds however files are replaced.
THEOREM FileInvariant == Spec => []FileInv
<1>1. Init => FileInv
  <2> SUFFICES ASSUME Init PROVE FileInv
    OBVIOUS
  <2>1. PoolInv
    BY InitPool
  <2>2. Somewhere
    BY PoolAssumption DEF Init, Somewhere, Members, Frame
  <2>4. Covered
    BY HoldersCount DEF Init, Covered
  <2>3. HeldLoaded
    BY DEF Init, HeldLoaded, Holds, NoHandle
  <2> QED BY <2>1, <2>2, <2>3, <2>4 DEF FileInv, PoolInv, Idle
<1> QED BY <1>1, StepFiles, PTL DEF Spec

\* page_table_ leads to the frame that has the page, for every order of operations
\* and replacements of files (update_page).
THEOREM TableIsTrue == Spec => []FramesInv
<1>1. FileInv => FramesInv
  BY DEF FileInv, FramesInv
<1> QED BY <1>1, FileInvariant, PTL

\* find_victim_page, the replacer, unpin_page and delete_page drop no frame: one
\* that is in no list and held by nobody was taken by a disk error, or has lost its
\* mapping to another frame.
THEOREM FramesAreKept == Spec => []NoFrameLost
<1>1. FileInv => NoFrameLost
  <2> SUFFICES ASSUME FileInv, NEW f \in Frame, f \notin Members(free_list), f \notin Members(LRUlist),
                      ~Unmapped(f), f \notin taken
               PROVE  \E c \in Client : handle[c].frame = f
    BY DEF NoFrameLost, Members
  <2>1. pages[f].pin > 0 /\ pages[f].pin <= Cardinality(Holders(f)) /\ pages[f].pin \in Nat
    BY DEF FileInv, Somewhere, Covered, TypeOK, Contents
  <2>2. Cardinality(Holders(f)) # 0
    BY <2>1, HoldersCount
  <2>3. Holders(f) # {}
    BY <2>2, FS_EmptySet
  <2> QED BY <2>3 DEF Holders
<1> QED BY <1>1, FileInvariant, PTL

\* While files stay open no frame loses its mapping: a frame is free, evictable or
\* held, or was taken by a failed write.
THEOREM NoFrameUnmapped == PoolSpec => [](\A f \in Frame : ~Unmapped(f))
<1>1. PoolInv => \A f \in Frame : ~Unmapped(f)
  BY DEF PoolInv, Owned, Unmapped
<1> QED BY <1>1, PoolInvariant, PTL
=============================================================================
