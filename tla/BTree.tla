------------------------------- MODULE BTree -------------------------------
(***************************************************************************)
(* IxIndexHandle and IxNodeHandle (src/src/index/ix_index_handle.cpp and   *)
(* .h) with IxScan (ix_scan.cpp): the B+ tree of one index.                *)
(*                                                                         *)
(* An internal node with n keys has n + 1 children.  The key between two   *)
(* leaves is the first key of the right one when the leaf was split, and   *)
(* internal_lookup goes to the left of a key that is equal: the separators *)
(* themselves are looked for in the wrong leaf.                            *)
(*                                                                         *)
(* An entry is its key: the Rid is that of the row with this key.  The     *)
(* build keeps assert, so a failed assertion ends the server (halted).     *)
(*                                                                         *)
(* The code that repairs a node after a deletion loses entries.  The model *)
(* contains the first repair of a tree and stops there.                    *)
(***************************************************************************)
EXTENDS Integers, Sequences, FiniteSets, FiniteSetsExt, SequencesExt, TLC

CONSTANTS Key,          \* the keys, integers
          MaxSize,      \* get_max_size(): btree_order_ + 1
          MaxDeletes    \* bound on the number of deletions

ASSUME KeyAssumption == Key \subseteq Nat
\* create_index asserts that btree_order is above 2.
ASSUME OrderAssumption == MaxSize \in Nat /\ MaxSize > 3
ASSUME DeletesAssumption == MaxDeletes \in Nat

VARIABLES
    tree,       \* the nodes by page number, the file header; whether the server was
                \* ended, and whether it has used a node handle it had deleted
    rows,       \* ghost: the keys of the rows of the table
    repaired,   \* ghost: a node has been repaired after a deletion
    deletes     \* ghost: the number of deletions

vars == <<tree, rows, repaired, deletes>>

NoPage == -1            \* IX_NO_PAGE
LeafHeader == 1         \* IX_LEAF_HEADER_PAGE
Stale == 0              \* what is left of an older child in the array of rids

MinSize == MaxSize \div 2

Leaf(keys, parent, prev, next) ==
    [is_leaf |-> TRUE, keys |-> keys, child |-> <<>>, parent |-> parent,
     prev |-> prev, next |-> next]

Inner(keys, child, parent) ==
    [is_leaf |-> FALSE, keys |-> keys, child |-> child, parent |-> parent,
     prev |-> NoPage, next |-> NoPage]

\* create_index: the leaf header, which is no part of the tree but ends the list
\* of leaves on both sides, and an empty root.
Init ==
    /\ tree = [node |-> (1 :> Leaf(<<>>, NoPage, 2, 2)) @@ (2 :> Leaf(<<>>, NoPage, 1, 1)),
               root |-> 2, first |-> 2, last |-> 2, halted |-> FALSE, misused |-> FALSE]
    /\ rows = {}
    /\ repaired = FALSE
    /\ deletes = 0

-----------------------------------------------------------------------------
(***************************************************************************)
(* Look-up.  Positions are counted from 0, as in the code.                 *)
(***************************************************************************)
lower_bound(keys, k) == Cardinality({i \in DOMAIN keys : keys[i] < k})
upper_bound(keys, k) == Cardinality({i \in DOMAIN keys : keys[i] <= k})

Size(T, p) == Len(T.node[p].keys)
value_at(T, p, i) == T.node[p].child[i + 1]

internal_lookup(T, p, k) == value_at(T, p, lower_bound(T.node[p].keys, k))

RECURSIVE Descend(_, _, _)
Descend(T, p, k) ==
    IF T.node[p].is_leaf THEN p ELSE Descend(T, internal_lookup(T, p, k), k)

find_leaf_page(T, k) == Descend(T, T.root, k)

\* The key at the position where k would be must be k.
leaf_lookup(n, k) ==
    LET pos == lower_bound(n.keys, k) IN pos < Len(n.keys) /\ n.keys[pos + 1] = k

get_value(T, k) == leaf_lookup(T.node[find_leaf_page(T, k)], k)

-----------------------------------------------------------------------------
(***************************************************************************)
(* Insertion.                                                              *)
(***************************************************************************)
NewPage(T) == Max(DOMAIN T.node) + 1

\* maintain_child for every member of pages.
Adopt(node, pages, parent) ==
    [p \in DOMAIN node |-> IF p \in pages THEN [node[p] EXCEPT !.parent = parent] ELSE node[p]]

\* Mutant: the key at the split point is lost.
SplitLosesKey(T, p) ==
    LET n     == T.node[p]
        q     == NewPage(T)
        point == (Len(n.keys) + 1) \div 2
        right == Leaf(SubSeq(n.keys, point + 2, Len(n.keys)), n.parent, p, n.next)
        left  == [n EXCEPT !.keys = SubSeq(@, 1, point), !.next = q]
    IN  [T EXCEPT !.node = [((q :> right) @@ [@ EXCEPT ![p] = left]) EXCEPT ![n.next].prev = q]]

SplitLeaf(T, p) ==
    LET n     == T.node[p]
        q     == NewPage(T)
        point == (Len(n.keys) + 1) \div 2
        right == Leaf(SubSeq(n.keys, point + 1, Len(n.keys)), n.parent, p, n.next)
        left  == [n EXCEPT !.keys = SubSeq(@, 1, point), !.next = q]
        base  == (q :> right) @@ [T.node EXCEPT ![p] = left]
    IN  IF n.next = NoPage
        THEN [T EXCEPT !.node = base, !.last = q]
        ELSE [T EXCEPT !.node = [base EXCEPT ![n.next].prev = q]]

\* Mutant: the children of the new node are not told (maintain_child left out).
SplitOrphans(T, p) ==
    LET n      == T.node[p]
        q      == NewPage(T)
        middle == Len(n.keys) \div 2
        right  == Inner(SubSeq(n.keys, middle + 2, Len(n.keys)),
                        SubSeq(n.child, middle + 2, Len(n.child)), n.parent)
        left   == [n EXCEPT !.keys = SubSeq(@, 1, middle), !.child = SubSeq(@, 1, middle + 1)]
    IN  [T EXCEPT !.node = (q :> right) @@ [@ EXCEPT ![p] = left]]

\* The middle key goes up.
SplitInner(T, p) ==
    LET n      == T.node[p]
        q      == NewPage(T)
        middle == Len(n.keys) \div 2
        right  == Inner(SubSeq(n.keys, middle + 2, Len(n.keys)),
                        SubSeq(n.child, middle + 2, Len(n.child)), n.parent)
        left   == [n EXCEPT !.keys = SubSeq(@, 1, middle), !.child = SubSeq(@, 1, middle + 1)]
    IN  [T EXCEPT !.node = Adopt((q :> right) @@ [T.node EXCEPT ![p] = left],
                                 Range(right.child), q)]

NewRoot(T, old, k, new) ==
    LET r == NewPage(T)
    IN  [T EXCEPT !.root = r,
                  !.node = Adopt((r :> Inner(<<k>>, <<old, new>>, NoPage)) @@ T.node,
                                 {old, new}, r)]

\* The assertions of insert_pair and get_rid: a child after the last fits only
\* while two places are left.
Fits(i) == i + 2 < MaxSize

RECURSIVE insert_into_parent(_, _, _, _)
insert_into_parent(T, old, k, new) ==
    LET p      == T.node[old].parent
        i      == lower_bound(T.node[p].keys, k)
        filled == [T EXCEPT !.node[p].keys = InsertAt(@, i + 1, k),
                            !.node[p].child = InsertAt(@, i + 2, new)]
        middle == filled.node[p].keys[Size(filled, p) \div 2 + 1]
    IN  IF p = NoPage THEN NewRoot(T, old, k, new)
        ELSE IF ~Fits(i) THEN [T EXCEPT !.halted = TRUE]
        ELSE IF Size(filled, p) = MaxSize
        THEN insert_into_parent(SplitInner(filled, p), p, middle, NewPage(filled))
        ELSE filled

\* IxNodeHandle::insert, which leaves a key alone that is there.
LeafInsert(T, p, k) ==
    IF k \in Range(T.node[p].keys) THEN T
    ELSE [T EXCEPT !.node[p].keys = InsertAt(@, lower_bound(@, k) + 1, k)]

\* The right leaf is the last one when the left one was.
LastLeaf(T, p, q) == IF T.last = p THEN [T EXCEPT !.last = q] ELSE T

Inserted(T, k) ==
    LET p == find_leaf_page(T, k)
        U == LeafInsert(T, p, k)
        q == NewPage(U)
        S == SplitLeaf(U, p)
    IN  IF Size(U, p) = MaxSize
        THEN LastLeaf(insert_into_parent(S, p, S.node[q].keys[1], q), p, q)
        ELSE U

\* A row with a new key.
insert_entry(k) ==
    /\ ~tree.halted /\ ~repaired
    /\ k \notin rows
    /\ tree' = Inserted(tree, k)
    /\ rows' = rows \cup {k}
    /\ UNCHANGED <<repaired, deletes>>

-----------------------------------------------------------------------------
(***************************************************************************)
(* Deletion.                                                               *)
(***************************************************************************)
\* insert_pairs and erase_pair move as many children as keys.  In an internal
\* node, which has one more, the last child is overwritten or forgotten.
PutPair(n, i, k, c) ==
    [n EXCEPT !.keys = InsertAt(@, i + 1, k),
              !.child = IF n.is_leaf THEN @ ELSE Append(InsertAt(Front(@), i + 1, c), Stale)]

ErasePair(n, i) ==
    LET c == Front(n.child)
    IN  [n EXCEPT !.keys = RemoveAt(@, i + 1),
                  !.child = IF n.is_leaf THEN @
                            ELSE IF Len(c) = i + 1 THEN c
                            ELSE Append(RemoveAt(c, i + 1), Last(c))]

\* set_key: beyond the last key it has no effect.
SetKey(n, i, k) == IF i < Len(n.keys) THEN [n EXCEPT !.keys[i + 1] = k] ELSE n

PairChild(n, i) == IF n.is_leaf THEN Stale ELSE n.child[i + 1]

\* One pair of the neighbour b goes to the node p at position i of its parent f.
redistribute(T, b, p, f, i) ==
    LET from == IF i > 0 THEN Size(T, b) - 1 ELSE 0
        at   == IF i > 0 THEN 0 ELSE Size(T, p)
        pair == PairChild(T.node[b], from)
        node == PutPair(T.node[p], at, T.node[b].keys[from + 1], pair)
        rest == ErasePair(T.node[b], from)
        up   == IF i > 0 THEN SetKey(T.node[f], i, node.keys[1])
                         ELSE SetKey(T.node[f], i + 1, rest.keys[1])
    IN  [T EXCEPT !.node = Adopt([@ EXCEPT ![p] = node, ![b] = rest, ![f] = up], {pair}, p)]

\* Mutant: the leaf after the right one is lost as well.
MergeSkips(T, left, right) ==
    [T EXCEPT !.node[left].next = T.node[T.node[right].next].next,
              !.last = IF @ = right THEN left ELSE @]

\* Leaves are merged by taking the right one out of the list.
MergeLeaf(T, left, right) ==
    [T EXCEPT !.node[left].next = T.node[right].next,
              !.last = IF @ = right THEN left ELSE @]

MergeInner(T, left, right, k) ==
    LET r == T.node[right]
        n == [T.node[left] EXCEPT !.keys = @ \o [r.keys EXCEPT ![1] = k],
                                  !.child = Front(@) \o Front(r.child) \o <<Stale>>]
    IN  [T EXCEPT !.node = Adopt([@ EXCEPT ![left] = n], Range(Front(r.child)), left)]

\* A root that is an empty leaf, or an internal node with one key, is given up.
adjust_root(T, p) ==
    CASE ~T.node[p].is_leaf /\ Size(T, p) = 1 ->
             [T EXCEPT !.root = value_at(T, p, 0),
                       !.node = Adopt(@, {value_at(T, p, 0)}, NoPage)]
      [] T.node[p].is_leaf /\ Size(T, p) = 0 -> [T EXCEPT !.root = NoPage]
      [] OTHER -> T

RECURSIVE coalesce_or_redistribute(_, _)

\* The right one of two neighbours, at position i of their parent f, is given up.
coalesce(T, left, right, f, i) ==
    LET merged == IF T.node[right].is_leaf THEN MergeLeaf(T, left, right)
                  ELSE MergeInner(T, left, right, T.node[f].keys[i + 1])
        erased == [merged EXCEPT !.node[f] = ErasePair(@, i)]
    IN  IF i >= Size(T, f) THEN [T EXCEPT !.halted = TRUE]      \* erase_pair asserts
        ELSE IF Size(erased, f) < MinSize THEN coalesce_or_redistribute(erased, f)
        ELSE erased

\* For the first child coalesce swaps the handles of its caller, which then unpins
\* and deletes the one that its own caller goes on to use, and to delete again; the
\* right neighbour stays pinned.
CoalesceFirst(T, p, b, f) ==
    LET merged == coalesce(T, p, b, f, 1)
    IN  IF merged.halted THEN merged ELSE [merged EXCEPT !.misused = TRUE]

coalesce_or_redistribute(T, p) ==
    LET f == T.node[p].parent
        i == (CHOOSE j \in DOMAIN T.node[f].child : T.node[f].child[j] = p) - 1
        b == value_at(T, f, IF i > 0 THEN i - 1 ELSE i + 1)
    IN  CASE f = NoPage -> adjust_root(T, p)
          [] f # NoPage /\ Size(T, p) >= MinSize -> T
          [] f # NoPage /\ Size(T, p) < MinSize ->
               CASE Size(T, p) + Size(T, b) >= 2 * MinSize -> redistribute(T, b, p, f, i)
                 [] OTHER -> IF i > 0 THEN coalesce(T, b, p, f, i) ELSE CoalesceFirst(T, p, b, f)

remove(n, k) == [n EXCEPT !.keys = SelectSeq(@, LAMBDA x : x # k)]

\* A handle that is used after it was deleted, and deleted twice: the process is
\* ended (the allocator finds the second deletion), or goes on.
Outcomes(T) == IF T.misused THEN {T, [T EXCEPT !.halted = TRUE]} ELSE {T}

\* A row is deleted, and its entry is taken out of the leaf where it is looked for.
delete_entry(k) ==
    LET p    == find_leaf_page(tree, k)
        less == [tree EXCEPT !.node[p] = remove(@, k)]
    IN  /\ deletes < MaxDeletes /\ ~tree.halted /\ ~repaired
        /\ k \in rows
        /\ IF less # tree
           THEN /\ tree' \in Outcomes(coalesce_or_redistribute(less, p))
                /\ repaired' = (tree' # less)
           ELSE UNCHANGED <<tree, repaired>>
        /\ rows' = rows \ {k}
        /\ deletes' = deletes + 1

Next == \E k \in Key : insert_entry(k) \/ delete_entry(k)

Spec == Init /\ [][Next]_vars

-----------------------------------------------------------------------------
(***************************************************************************)
(* IxIndexHandle::lower_bound, upper_bound, leaf_begin and leaf_end give a *)
(* scan its ends; IxScan::next walks from one to the other.  A position is *)
(* a leaf and a slot in it.                                                *)
(***************************************************************************)
Past(T, k, slot, first) ==
    LET p == find_leaf_page(T, k)
    IN  IF slot >= Size(T, p) /\ T.node[p].next # NoPage THEN <<T.node[p].next, first>>
        ELSE <<p, slot>>

LowerIid(T, k) == Past(T, k, lower_bound(T.node[find_leaf_page(T, k)].keys, k), 0)
\* Mutant: the end in the next leaf is before its first entry.
UpperIidShort(T, k) == Past(T, k, upper_bound(T.node[find_leaf_page(T, k)].keys, k), 0)

UpperIid(T, k) == Past(T, k, upper_bound(T.node[find_leaf_page(T, k)].keys, k), 1)
leaf_begin(T) == <<T.first, 0>>
leaf_end(T) == <<T.last, Size(T, T.last)>>

ScanNext(T, iid, end) ==
    LET next == <<iid[1], iid[2] + 1>>
        leaf == T.node[iid[1]].next
    IN  IF next = end \/ next[2] # Size(T, iid[1]) THEN next
        ELSE IF leaf \notin {NoPage, LeafHeader} THEN <<leaf, 0>>
        ELSE end

\* get_rid throws IndexEntryNotFoundError at a slot that is not there.
NoEntry == -1
get_rid(T, iid) ==
    IF iid[2] >= Size(T, iid[1]) THEN NoEntry ELSE T.node[iid[1]].keys[iid[2] + 1]

\* The keys a scan returns.
RECURSIVE Scan(_, _, _)
Scan(T, iid, end) ==
    LET rid == get_rid(T, iid)
    IN  IF iid = end \/ rid = NoEntry THEN <<>>
        ELSE <<rid>> \o Scan(T, ScanNext(T, iid, end), end)
-----------------------------------------------------------------------------
(***************************************************************************)
(* Properties of a tree no node of which has been repaired yet.            *)
(***************************************************************************)
Sound == ~tree.halted /\ ~repaired

RECURSIVE LeavesFrom(_, _)
LeavesFrom(T, p) == IF p = LeafHeader THEN <<>> ELSE <<p>> \o LeavesFrom(T, T.node[p].next)

\* The leaves of the list, and their keys one after the other.
Leaves == LeavesFrom(tree, tree.first)
Chain == FoldSeq(LAMBDA p, acc : tree.node[p].keys \o acc, <<>>, Leaves)

Inners == {p \in DOMAIN tree.node : ~tree.node[p].is_leaf}
Separators == UNION {Range(tree.node[p].keys) : p \in Inners}

RECURSIVE Below(_), Height(_)
\* The keys in the leaves below a page, and the levels between it and the leaves.
Below(p) ==
    IF tree.node[p].is_leaf THEN Range(tree.node[p].keys)
    ELSE UNION {Below(c) : c \in Range(tree.node[p].child)}
Height(p) == IF tree.node[p].is_leaf THEN 0 ELSE 1 + Height(tree.node[p].child[1])

\* Type invariant; a node that is left between two operations is not full.
TypeOK ==
    /\ \A p \in DOMAIN tree.node : /\ Range(tree.node[p].keys) \subseteq Key
                                   /\ Sound => Size(tree, p) < MaxSize
    /\ {tree.first, tree.last} \subseteq DOMAIN tree.node
    /\ rows \subseteq Key
    /\ repaired \in BOOLEAN /\ tree.halted \in BOOLEAN
    /\ deletes \in 0..MaxDeletes

\* After any splits, children know their parent, all leaves are at the same
\* depth, and a key of an internal node separates what is below its left child
\* from what is below its right one (insert_into_parent, split).
TreeShape ==
    Sound =>
        \A p \in Inners :
            LET n == tree.node[p] IN
            /\ Len(n.child) = Len(n.keys) + 1
            /\ \A c \in Range(n.child) : /\ tree.node[c].parent = p
                                         /\ Height(c) = Height(p) - 1
            /\ \A i \in DOMAIN n.keys : /\ \A k \in Below(n.child[i]) : k <= n.keys[i]
                                        /\ \A k \in Below(n.child[i + 1]) : k >= n.keys[i]

\* The list of leaves, forwards and backwards, has exactly the leaves the root
\* reaches, ends in last_leaf_, and its keys are in order.
LeafList ==
    Sound =>
        /\ \A i \in 1..(Len(Leaves) - 1) :
               tree.node[Leaves[i + 1]].prev = Leaves[i]
        /\ tree.last = Leaves[Len(Leaves)]
        /\ Range(Chain) = Below(tree.root)
        /\ \A i \in 1..(Len(Chain) - 1) : Chain[i] <= Chain[i + 1]

\* The tree and the list of its leaves are whole after any splits.
TreeInv == TypeOK /\ TreeShape /\ LeafList

\* Every row has its entry.  A row that get_value does not find is a separator:
\* internal_lookup went to the left of it.
LookupComplete ==
    Sound => /\ rows \subseteq Range(Chain)
             /\ \A k \in rows : get_value(tree, k) \/ k \in Separators

\* What IndexScanExecutor::beginTuple asks for is found by the walk over the
\* leaves, separators included: the row with a key, the rows from a key on, the
\* rows up to a key, all rows.
ScanComplete ==
    Sound =>
        /\ rows \subseteq Range(Scan(tree, leaf_begin(tree), leaf_end(tree)))
        /\ \A k \in Key :
               /\ k \in rows => k \in Range(Scan(tree, LowerIid(tree, k), UpperIid(tree, k)))
               /\ {r \in rows : r >= k} \subseteq
                      Range(Scan(tree, LowerIid(tree, k), leaf_end(tree)))
               /\ {r \in rows : r <= k} \subseteq
                      Range(Scan(tree, leaf_begin(tree), UpperIid(tree, k)))

\* An entry without a row is a separator: only of those the deletion is missed.
StaleAreSeparators ==
    Sound => Range(Chain) \ rows \subseteq Separators

\* Entries are where the rows are looked for, and rows where the entries are, but for
\* separators.
EntriesMatchRows == LookupComplete /\ StaleAreSeparators

\* p is the first or the last child of a node.
AtTheEnd(p) ==
    \E f \in Inners : p \in {Head(tree.node[f].child), Last(tree.node[f].child)}

\* The server is stopped by an insertion only when an internal node has no more than
\* two places left (the assertions of insert_pair); and by a deletion only when it
\* left a leaf below its minimum, and this is the first or the last child of a node
\* (the swapped handles of coalesce, the assertion of erase_pair).
StopsOnlyWhenFull ==
    tree.halted =>
        IF ~repaired THEN \E p \in Inners : Size(tree, p) >= MaxSize - 2
        ELSE \E p \in DOMAIN tree.node \ {LeafHeader} :
                 tree.node[p].is_leaf /\ Size(tree, p) < MinSize /\ AtTheEnd(p)

\* What the first repair costs, when it did not use a deleted handle: coalesce takes
\* the right leaf out of the list with its entries in it.  The rows the list no
\* longer has are all from one leaf.
LossConfined ==
    ~tree.halted /\ ~tree.misused =>
        \E p \in DOMAIN tree.node : rows \ Range(Chain) \subseteq Range(tree.node[p].keys)

\* What goes wrong goes no further than that.  After a deleted handle was used nothing
\* is said of the tree; it takes a leaf that is the first child of its parent.
DamageConfined == StopsOnlyWhenFull /\ LossConfined
=============================================================================
