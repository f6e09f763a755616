------------------------------- MODULE MCBTree -------------------------------
(* BTree for TLC.  Two keys are longer than the others.  States that differ*)
(* in the last reply and the numbers of their pages only are one: a page is*)
(* seen as its place in the tree, from the root down, left to right.  The  *)
(* last component makes TLC evaluate the function it stores in the state.  *)
EXTENDS BTree

MCKeyLen(k) == IF k \in {3, 5} THEN 2 ELSE 1

TreeView ==
  LET at == PagesAt
      order == FlattenSeq([i \in 1 .. level + 1 |-> at[level + 1 - i]])
      place(p) == IF p = 0 THEN 0 ELSE SelectInSeq(order, LAMBDA q : q = p)
      seen(n) == IF n.leaf THEN <<n.cells, place(n.next), place(n.prev)>>
                 ELSE <<n.level, [i \in DOMAIN n.entries |-> n.entries[i].key]>>
  IN  <<[i \in DOMAIN order |-> seen(pages[order[i]])],
        level, Cardinality(DOMAIN pages), map, inPlace, pages = <<>>>>
==============================================================================
