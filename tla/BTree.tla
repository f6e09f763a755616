-------------------------------- MODULE BTree --------------------------------
(***************************************************************************)
(* storage/btree: insert with leaf, multiway and internal splits and root  *)
(* growth; delete with merges, redistribution and root collapse; replace;  *)
(* search and range scan over the linked leaves.                           *)
(*                                                                         *)
(* A page is a parsed node, a value is its length, and the byte arithmetic *)
(* that decides splits and merges is the code's own, with the page sizes   *)
(* as constants.  Page 0 stands for "none".  A new page takes the smallest *)
(* free number.                                                            *)
(*                                                                         *)
(* The trees of collections and of indexes write through a structural      *)
(* batch, which discards the pages of an operation that returns an error.  *)
(* The catalog's tree and the history store's write their pages in place   *)
(* and keep what was written before the error.                             *)
(***************************************************************************)
EXTENDS Integers, FiniteSets, SequencesExt

CONSTANTS
  Keys,          \* the keys, integers in byte order
  KeyLen(_),     \* the length of an encoded key
  Values,        \* the lengths of the values
  LeafPage, LeafHeader, InternalPage, InternalHeader,   \* page sizes, bytes
  MinLeafCells,       \* MIN_LEAF_CELLS
  OverflowThreshold   \* OVERFLOW_THRESHOLD

ASSUME KeyAssumption == Keys \subseteq Nat
ASSUME LayoutAssumption ==
  /\ {LeafPage, LeafHeader, InternalPage, InternalHeader, OverflowThreshold} \subseteq Nat
  /\ MinLeafCells \in Nat \ {0}
  /\ \A k \in Keys : KeyLen(k) \in Nat

VARIABLES
  pages,   \* page number -> node, for the allocated pages of the tree
  root,    \* root_page
  level,   \* root_level
  inPlace, \* BufferPoolPageStore, which writes in place; else a structural batch
  reply,   \* the last operation, its key and what it returned
  map      \* history: the map the operations so far have made

vars == <<pages, root, level, inPlace, reply, map>>

-----------------------------------------------------------------------------
(* Sizes. *)

(* An inline value is stored with its length, an overflow value as a       *)
(* pointer pair.                                                           *)
ValueSize(v) == IF v > OverflowThreshold THEN 8 ELSE 4 + v

CellSize(c) == 2 + KeyLen(c.key) + 1 + ValueSize(c.value)

Total(f(_), s) == FoldLeft(LAMBDA sum, x : sum + f(x), 0, s)

UsedBytes(cells) == LeafHeader + 2 * Len(cells) + Total(CellSize, cells)

MinLeafBytes == LeafPage \div 2

NeedsRebalance(cells) == Len(cells) < MinLeafCells \/ UsedBytes(cells) < MinLeafBytes

CanInsertCell(cells, c) == LeafPage - UsedBytes(cells) >= CellSize(c) + 2

EntrySize(e) == 2 + KeyLen(e.key) + 4

InternalBytes(entries) == InternalHeader + Total(EntrySize, entries)

CanInsertEntry(entries, e) == InternalBytes(entries) + EntrySize(e) <= InternalPage

-----------------------------------------------------------------------------
(* Nodes. *)

Leaf(cells, next, prev) == [leaf |-> TRUE, cells |-> cells, next |-> next, prev |-> prev]

Internal(lv, entries, right) ==
  [leaf |-> FALSE, level |-> lv, entries |-> entries, right |-> right]

(* encode refuses a node that does not fit its page. *)
Fits(node) ==
  IF node.leaf THEN UsedBytes(node.cells) <= LeafPage
               ELSE InternalBytes(node.entries) <= InternalPage

(* The number of elements of the sorted sequence s whose key is at most k. *)
PartitionPoint(s, k) == Len(SelectSeq(s, LAMBDA x : x.key <= k))

(* The index of the cell with key k, 0 when there is none. *)
CellAt(cells, k) == SelectInSeq(cells, LAMBDA c : c.key = k)

(* Faulty variant: a key equal to a separator goes left of it. *)
FindChildIdxStrict(node, k) == Len(SelectSeq(node.entries, LAMBDA e : e.key < k))

FindChildIdx(node, k) == PartitionPoint(node.entries, k)

ChildAt(node, idx) ==
  IF idx < Len(node.entries) THEN node.entries[idx + 1].child ELSE node.right

SetChildAt(node, idx, page) ==
  IF idx < Len(node.entries) THEN [node EXCEPT !.entries[idx + 1].child = page]
                             ELSE [node EXCEPT !.right = page]

(* A tree being changed: its pages, its root, and whether a step failed.   *)
(* A page that does not fit fails to encode and is not written; the pages  *)
(* of w are all encoded before the first of them is written.               *)
PutAll(t, w) ==
  LET fit == \A p \in DOMAIN w : Fits(w[p])
      over(f) == [p \in DOMAIN f \cup DOMAIN w |-> IF p \in DOMAIN w THEN w[p] ELSE f[p]]
  IN  [t EXCEPT !.pages = IF fit THEN over(@) ELSE @, !.failed = @ \/ ~fit]

Put(t, p, node) == PutAll(t, [q \in {p} |-> node])

FreePage(t, p) == [t EXCEPT !.pages = Restrict(@, DOMAIN @ \ {p})]

(* The n smallest free page numbers. *)
NewPages(t, n) ==
  SubSeq(SetToSortSeq((1 .. Cardinality(DOMAIN t.pages) + n) \ DOMAIN t.pages, <), 1, n)

(* The page at each level on the way from the root to the leaf of k. *)
PathTo(k) ==
  LET at[l \in 0 .. level] ==
        IF l = level THEN root
        ELSE LET n == pages[at[l + 1]] IN ChildAt(n, FindChildIdx(n, k))
  IN  at

LeafOf(k) == PathTo(k)[0]

-----------------------------------------------------------------------------
(* Choosing where to cut. *)

Monus(a, b) == IF a > b THEN a - b ELSE 0
AbsDiff(a, b) == IF a > b THEN a - b ELSE b - a

LexLess(s, u) == \E i \in 1 .. 3 : s[i] < u[i] /\ \A j \in 1 .. i - 1 : s[j] = u[j]

(* The cut points that leave two leaves that fit. *)
Cuts(cells) ==
  {n \in 1 .. Len(cells) - 1 : /\ UsedBytes(SubSeq(cells, 1, n)) <= LeafPage
                               /\ UsedBytes(SubSeq(cells, n + 1, Len(cells))) <= LeafPage}

(* The cut with the smallest deficit, then imbalance, then movement; the   *)
(* first one when several score the same.                                  *)
ChooseSplit(cells, originalLeft) ==
  LET score(n) ==
        LET l == UsedBytes(SubSeq(cells, 1, n))
            r == UsedBytes(SubSeq(cells, n + 1, Len(cells)))
        IN  <<Monus(MinLeafBytes, l) + Monus(MinLeafBytes, r), AbsDiff(l, r),
              AbsDiff(n, originalLeft)>>
  IN  CHOOSE n \in Cuts(cells) :
        \A m \in Cuts(cells) :
          LexLess(score(n), score(m)) \/ (score(n) = score(m) /\ n <= m)

(* Fill one leaf after the other, in order. *)
PackMultiway(cells) ==
  FoldLeft(LAMBDA groups, c :
             IF CanInsertCell(Last(groups), c) \/ Last(groups) = <<>>
               THEN ReplaceAt(groups, Len(groups), Append(Last(groups), c))
               ELSE Append(groups, <<c>>),
           <<<<>>>>, cells)

-----------------------------------------------------------------------------
(* Insert. *)

(* A step of an insert: the tree so far and the splits to promote. *)
Step(t, splits) == [t |-> t, splits |-> splits]

(* Write cells over the leaf and as many new right neighbours as needed,   *)
(* linked in order; every new leaf is promoted by its first key.           *)
SplitLeaf(t, p, cells) ==
  LET node == t.pages[p]
      cut == ChooseSplit(cells, Len(cells) \div 2)
      groups == IF Cuts(cells) = {} THEN PackMultiway(cells)
                ELSE <<SubSeq(cells, 1, cut), SubSeq(cells, cut + 1, Len(cells))>>
      n == Len(groups)
      ps == <<p>> \o NewPages(t, n - 1)
      written(i) == Leaf(groups[i], IF i < n THEN ps[i + 1] ELSE node.next,
                                    IF i = 1 THEN node.prev ELSE ps[i - 1])
      image(q) == IF q = node.next THEN [t.pages[q] EXCEPT !.prev = Last(ps)]
                  ELSE written(SelectInSeq(ps, LAMBDA r : r = q))
  IN  Step(PutAll(t, [q \in ToSet(ps) \cup ({node.next} \ {0}) |-> image(q)]),
           [i \in 1 .. n - 1 |-> [key |-> groups[i + 1][1].key, right |-> ps[i + 1]]])

(* insert_leaf, for a key that is not there. *)
InsertLeaf(t, p, c) ==
  LET node == t.pages[p]
      cells == InsertAt(node.cells, PartitionPoint(node.cells, c.key) + 1, c)
  IN  IF CanInsertCell(node.cells, c)
        THEN Step(Put(t, p, [node EXCEPT !.cells = cells]), <<>>)
        ELSE SplitLeaf(t, p, cells)

(* The middle entry moves up; its child becomes the left half's rightmost. *)
SplitInternal(t, p, node, e) ==
  LET all == InsertAt(node.entries, PartitionPoint(node.entries, e.key) + 1, e)
      m == Len(all) \div 2 + 1
      q == NewPages(t, 1)[1]
      left == Internal(node.level, SubSeq(all, 1, m - 1), all[m].child)
      right == Internal(node.level, SubSeq(all, m + 1, Len(all)), node.right)
  IN  Step(PutAll(t, [x \in {p, q} |-> IF x = p THEN left ELSE right]),
           <<[key |-> all[m].key, right |-> q]>>)

(* The promoted page takes the slot of the page it was split from, which   *)
(* becomes the child left of the promoted key.                             *)
InsertIntoInternal(t, p, s) ==
  LET old == t.pages[p]
      at == PartitionPoint(old.entries, s.key)
      node == SetChildAt(old, at, s.right)
      e == [key |-> s.key, child |-> ChildAt(old, at)]
  IN  IF CanInsertEntry(node.entries, e)
        THEN Step(Put(t, p, [node EXCEPT !.entries = InsertAt(@, at + 1, e)]), <<>>)
        ELSE SplitInternal(t, p, node, e)

(* Insert each promotion into p, or into the part of p, split off by an    *)
(* earlier one, that covers its key.                                       *)
InsertPromotions(t, p, promotions) ==
  FoldLeft(LAMBDA s, promo :
             LET idx == PartitionPoint(s.splits, promo.key)
                 target == IF idx = 0 THEN p ELSE s.splits[idx].right
                 r == InsertIntoInternal(s.t, target, promo)
             IN  IF s.t.failed THEN s
                 ELSE Step(r.t, IF r.splits = <<>> THEN s.splits
                                ELSE InsertAt(s.splits, idx + 1, r.splits[1])),
           Step(t, <<>>), promotions)

(* One more level: a new root over the old one and the first split. *)
GrowRoot(s) ==
  LET q == NewPages(s.t, 1)[1]
      first == Head(s.splits)
      node == Internal(s.t.level + 1, <<[key |-> first.key, child |-> s.t.root]>>, first.right)
      grown == [Put(s.t, q, node) EXCEPT !.root = IF Fits(node) THEN q ELSE @,
                                         !.level = IF Fits(node) THEN @ + 1 ELSE @]
  IN  InsertPromotions(grown, q, Tail(s.splits))

(* The whole insert: the leaf, its ancestors from the bottom up, and new   *)
(* roots while splits are left.  Each new root takes at least one of them, *)
(* and there are fewer than keys.  It stops where a step fails.            *)
Inserted(t, k, v) ==
  LET path == PathTo(k)
      up(s, l) == IF l <= t.level THEN InsertPromotions(s.t, path[l], s.splits) ELSE GrowRoot(s)
  IN  FoldLeft(LAMBDA s, l : IF s.splits = <<>> \/ s.t.failed THEN s ELSE up(s, l),
               InsertLeaf(t, path[0], [key |-> k, value |-> v]),
               [l \in 1 .. t.level + Cardinality(Keys) |-> l]).t

-----------------------------------------------------------------------------
(* Delete. *)

RedirectChild(t, parent, idx, p) == Put(t, parent, SetChildAt(t.pages[parent], idx, p))

(* A root without separators gives way to its only child; any other node   *)
(* stays, however few entries are left.                                    *)
RemoveFromParent(t, parent, idx) ==
  LET node == [t.pages[parent] EXCEPT !.entries = RemoveAt(@, idx + 1)]
  IN  IF node.entries = <<>> /\ parent = t.root
        THEN [FreePage(t, parent) EXCEPT !.root = node.right, !.level = @ - 1]
        ELSE Put(t, parent, node)

(* Faulty variant: a merge leaves the prev pointer of the leaf after it alone. *)
RelinkPrevNot(t, p, prev) == t

RelinkPrev(t, p, prev) == IF p = 0 THEN t ELSE Put(t, p, [t.pages[p] EXCEPT !.prev = prev])
RelinkNext(t, p, next) == IF p = 0 THEN t ELSE Put(t, p, [t.pages[p] EXCEPT !.next = next])

MergeIntoLeft(t, parent, idx, l, p) ==
  LET node == t.pages[p]
      merged == [t.pages[l] EXCEPT !.cells = @ \o node.cells, !.next = node.next]
      moved == FreePage(Put(RelinkPrev(t, node.next, l), l, merged), p)
  IN  RemoveFromParent(RedirectChild(moved, parent, idx, l), parent, idx - 1)

MergeIntoRight(t, parent, p, r) ==
  LET node == t.pages[p]
      merged == [t.pages[r] EXCEPT !.cells = node.cells \o @, !.prev = node.prev]
  IN  RemoveFromParent(FreePage(Put(RelinkNext(t, node.prev, r), r, merged), p), parent, 0)

Redistribute(t, parent, sep, l, r) ==
  LET cells == t.pages[l].cells \o t.pages[r].cells
      cut == ChooseSplit(cells, Len(t.pages[l].cells))
      left == [t.pages[l] EXCEPT !.cells = SubSeq(cells, 1, cut), !.next = r]
      right == [t.pages[r] EXCEPT !.cells = SubSeq(cells, cut + 1, Len(cells)), !.prev = l]
      above == [t.pages[parent] EXCEPT !.entries[sep + 1].key = cells[cut + 1].key]
  IN  PutAll(t, [p \in {l, r, parent} |-> CASE p = l -> left [] p = r -> right [] OTHER -> above])

CanMerge(t, l, r) == UsedBytes(t.pages[l].cells \o t.pages[r].cells) <= LeafPage

(* The left sibling first, else the right one; a leaf that is its parent's *)
(* only child has neither, and the delete fails.                           *)
HandleUnderflow(t, parent, idx, p) ==
  LET node == t.pages[parent]
      sep == IF idx > 0 THEN idx - 1 ELSE 0
      l == ChildAt(node, sep)
      r == ChildAt(node, sep + 1)
  IN  CASE node.entries = <<>> -> [t EXCEPT !.failed = TRUE]
        [] node.entries # <<>> /\ ~CanMerge(t, l, r) -> Redistribute(t, parent, sep, l, r)
        [] OTHER -> IF idx > 0 THEN MergeIntoLeft(t, parent, idx, l, p)
                               ELSE MergeIntoRight(t, parent, p, r)

Deleted(t, k) ==
  LET path == PathTo(k)
      p == path[0]
      cells == RemoveAt(t.pages[p].cells, CellAt(t.pages[p].cells, k))
      removed == Put(t, p, [t.pages[p] EXCEPT !.cells = cells])
  IN  IF NeedsRebalance(cells) /\ t.level > 0
        THEN HandleUnderflow(removed, path[1], FindChildIdx(t.pages[path[1]], k), p)
        ELSE removed

Replaced(t, k, v) ==
  LET p == LeafOf(k)
  IN  Put(t, p, [t.pages[p] EXCEPT !.cells[CellAt(t.pages[p].cells, k)].value = v])

-----------------------------------------------------------------------------
(* The operations. *)

Abstract == INSTANCE OrderedMap

Tree == [pages |-> pages, root |-> root, level |-> level, failed |-> FALSE]

(* A batch keeps the pages of an operation that succeeds only; the pages   *)
(* written in place before an error stay.                                  *)
Commit(t, op, k) ==
  /\ reply' = Abstract!Reply(op, k, IF t.failed THEN "error" ELSE "ok")
  /\ IF t.failed /\ ~inPlace THEN UNCHANGED <<pages, root, level>>
     ELSE pages' = t.pages /\ root' = t.root /\ level' = t.level

Refuse(op, k, result) ==
  reply' = Abstract!Reply(op, k, result) /\ UNCHANGED <<pages, root, level>>

(* LeafNode::cell_value: is k in the leaf it belongs to? *)
Found(k) == CellAt(pages[LeafOf(k)].cells, k) # 0

(* A delete that fails in place has removed the cell from its leaf.        *)
Made(m) ==
  /\ LET lost == inPlace /\ reply'.op = "delete" /\ reply'.result = "error"
     IN  map' = IF reply'.result = "ok" \/ lost THEN m ELSE map
  /\ UNCHANGED inPlace

Insert(k, v) ==
  /\ IF Found(k) THEN Refuse("insert", k, "duplicate")
                 ELSE Commit(Inserted(Tree, k, v), "insert", k)
  /\ Made(Abstract!With(map, k, v))

ReplaceExisting(k, v) ==
  /\ IF Found(k) THEN Commit(Replaced(Tree, k, v), "replace", k)
                 ELSE Refuse("replace", k, "absent")
  /\ Made(Abstract!With(map, k, v))

Delete(k) ==
  /\ IF Found(k) THEN Commit(Deleted(Tree, k), "delete", k)
                 ELSE Refuse("delete", k, "absent")
  /\ Made(Abstract!Without(map, k))

(* create: one empty leaf. *)
Init ==
  /\ pages = [p \in {1} |-> Leaf(<<>>, 0, 0)]
  /\ root = 1 /\ level = 0 /\ inPlace \in BOOLEAN
  /\ reply = <<>> /\ map = <<>>

Next ==
  \/ \E k \in Keys, v \in Values : Insert(k, v)
  \/ \E k \in Keys, v \in Values : ReplaceExisting(k, v)
  \/ \E k \in Keys : Delete(k)

Spec == Init /\ [][Next]_vars

-----------------------------------------------------------------------------
(* Reading. *)

(* The leaves from page p on, by their next pointers. *)
LeavesFrom(p) ==
  FoldLeft(LAMBDA s, x : IF pages[Last(s)].next = 0 THEN s
                         ELSE Append(s, pages[Last(s)].next),
           <<p>>, [i \in 1 .. Cardinality(DOMAIN pages) |-> i])

(* The pages of each level, left to right. *)
PagesAt ==
  LET children(p) == [i \in 1 .. Len(pages[p].entries) + 1 |-> ChildAt(pages[p], i - 1)]
      at[l \in 0 .. level] ==
        IF l = level THEN <<root>>
        ELSE LET above == at[l + 1]
             IN  FlattenSeq([i \in DOMAIN above |-> children(above[i])])
  IN  at

CellsOf(leaves) == FlattenSeq([i \in DOMAIN leaves |-> pages[leaves[i]].cells])

(* range_scan without an end: the cells from key lo on, starting in the    *)
(* leaf of lo.                                                             *)
RangeScan(lo) == SelectSeq(CellsOf(LeavesFrom(LeafOf(lo))), LAMBDA c : lo <= c.key)

(* read_leftmost_leaf_latch_coupled, and everything right of it. *)
FullScan == CellsOf(LeavesFrom(PagesAt[0][1]))

-----------------------------------------------------------------------------
(* Correctness. *)

(* After any sequence of inserts, replacements and deletes (btree/insert   *)
(* and btree/delete) the tree is sound: all leaves are at the same depth,  *)
(* every allocated page is reached from the root exactly once and fits its *)
(* page, the next and prev pointers run through the leaves in key order,   *)
(* the separators route every key to the leaf that holds it, a full scan   *)
(* returns the map the operations have made, and a range scan the part of  *)
(* it from its start on.  No leaf but the root is empty, unless the tree   *)
(* is written in place: there a delete that fails leaves its leaf empty.   *)
TreeSound ==
  LET at == PagesAt
      leaves == at[0]
      cells == FullScan
  IN  /\ \A l \in 0 .. level : \A i \in DOMAIN at[l] :
             /\ pages[at[l][i]].leaf <=> l = 0
             /\ Fits(pages[at[l][i]])
             /\ l > 0 => pages[at[l][i]].level = l
      /\ LET all == FlattenSeq([l \in 1 .. level + 1 |-> at[l - 1]])
         IN  ToSet(all) = DOMAIN pages /\ Len(all) = Cardinality(DOMAIN pages)
      /\ \A i \in DOMAIN leaves :
             LET n == pages[leaves[i]]
             IN  /\ n.prev = (IF i = 1 THEN 0 ELSE leaves[i - 1])
                 /\ n.next = (IF i = Len(leaves) THEN 0 ELSE leaves[i + 1])
                 /\ n.cells = <<>> => level = 0 \/ inPlace
                 /\ \A c \in ToSet(n.cells) : LeafOf(c.key) = leaves[i]
      /\ \A i \in 1 .. Len(cells) - 1 : cells[i].key < cells[i + 1].key
      /\ Len(cells) = Cardinality(DOMAIN map)
      /\ \A c \in ToSet(cells) : c.key \in DOMAIN map /\ c.value = map[c.key]
      /\ \A lo \in Keys : RangeScan(lo) = SelectSeq(cells, LAMBDA c : lo <= c.key)

(* The tree implements an ordered map: an insert replies "duplicate", and  *)
(* a replacement or a delete "absent", exactly when the map says so.  An   *)
(* operation of btree/insert or btree/delete that fails changes nothing in *)
(* a tree that writes through a structural batch.  In a tree written in    *)
(* place a delete that finds no sibling to rebalance with (delete.rs)      *)
(* reports an error and has removed its key, and no other is touched.      *)
ImplementsOrderedMap == Abstract!Spec
=============================================================================
