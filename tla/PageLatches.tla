---------------------------- MODULE PageLatches ----------------------------
(* Page latches of one B+ tree: readers that couple latches from the root   *)
(* down (btree/scan.rs), and committing writers that classify their writes, *)
(* latch leaves or whole root-to-leaf paths (smo_latch.rs), install, and    *)
(* later flip their pending versions page by page (pending_install.rs).     *)
(*                                                                          *)
(* The tree keeps its shape: checkpoints and DDL exclude writers, so a path *)
(* is the same when it is planned and when it is validated.  Only the fill  *)
(* of a leaf can change under a writer, when an index build backfills the   *)
(* tree; a tree that is being built has no readers.                         *)
EXTENDS Integers

CONSTANTS
  Readers, Writers, Keys,
  Root, Level,    \* the root page and its level; a page is its number
  Child,          \* internal page -> key -> child page
  PrevLeaf, NextLeaf, \* leaf -> neighbouring leaf, 0 for none
  InitFill,       \* leaf -> "thin", "room" or "full"
  Building,       \* is the tree an index that is being built?
  RetryCap        \* smo_classification_retry_cap

Threads == Readers \cup Writers
Leaves == DOMAIN NextLeaf
Pages == Leaves \cup DOMAIN Child

Ops == {"insert", "insertUnique", "insertLarge", "update", "delete"}
Targets == [key : Keys, op : Ops]

\* One or two writes to the tree, what a transaction brings to an install.
Batches == {{t, u} : t \in Targets, u \in Targets}

\* The order in which BTreeMap yields the pages to latch.
Lowest(S) == CHOOSE p \in S : \A q \in S : p <= q

VARIABLES
  sharers,  \* page -> threads holding its latch shared
  writer,   \* page -> threads (at most one) that own the writer bit
  fill,     \* leaf -> how full its bytes are
  pc,       \* thread -> where it is
  page,     \* thread -> the page it is about to latch
  read,     \* reader -> its key, and whether it scans on
  targets,  \* writer -> its batch
  shape,    \* writer -> the classification of its batch so far
  tries,    \* writer -> reclassifications
  need      \* writer -> the pages it must latch, or flip

latchVars == <<sharers, writer>>
planVars == <<targets, shape, tries, need>>
vars == <<sharers, writer, fill, pc, page, read, targets, shape, tries, need>>

NoPage == 0

---------------------------------------------------------------------------
\* PageLatch is a parking_lot lock: a reader passes when no writer has
\* announced itself, a writer announces itself first and then waits for
\* the readers to leave.

MayShare(p) == writer[p] = {}
MayClaim(p) == writer[p] = {}
Drained(p) == sharers[p] = {}

\* The root-to-leaf path of a key, BTree::path_to_leaf.
PathFrom[n \in 0..Level] ==
  [k \in Keys |-> IF n = 0 THEN Root ELSE Child[PathFrom[n - 1][k]][k]]
Path(k) == {PathFrom[n][k] : n \in 0..Level}
LeafOf(k) == PathFrom[Level][k]

\* classify_leaf_bytes.  A unique insert here is one whose prefix range
\* reaches past both ends of its leaf.
Siblings(t) == IF t.op = "insertUnique"
               THEN {PrevLeaf[LeafOf(t.key)], NextLeaf[LeafOf(t.key)]} \ {NoPage} ELSE {}

Shape(t) ==
  LET leaf == LeafOf(t.key)
      inserts == t.op \in {"insert", "insertUnique"}
  IN  CASE Siblings(t) # {}                                  -> "UniqueSpansSibling"
        [] t.op = "insertLarge"                              -> "OverflowChange"
        [] inserts /\ fill[leaf] = "full"                    -> "LeafSplit"
        [] t.op = "delete" /\ Level > 0 /\ fill[leaf] = "thin" -> "LeafMerge"
        [] OTHER                                             -> "RootNeutral"

\* required_pages_for_shapes: one structural write makes every write of the
\* batch latch its whole path.
RequiredPages(shapes) ==
  LET structural == \E t \in DOMAIN shapes : shapes[t] # "RootNeutral"
  IN  UNION {(IF structural THEN Path(t.key) ELSE {LeafOf(t.key)})
               \cup (IF shapes[t] = "UniqueSpansSibling" THEN Siblings(t) ELSE {})
             : t \in DOMAIN shapes}

ShapesNow(batch) == [t \in batch |-> Shape(t)]

ShareOnly(t, p) == [q \in Pages |-> IF q = p THEN sharers[q] \cup {t} ELSE sharers[q] \ {t}]
Disown(t) == [p \in Pages |-> writer[p] \ {t}]

Init ==
  /\ sharers = [p \in Pages |-> {}]
  /\ writer = [p \in Pages |-> {}]
  /\ fill = InitFill
  /\ pc = [t \in Threads |-> "idle"]
  /\ page = [t \in Threads |-> NoPage]
  /\ read = [r \in Readers |-> <<>>]
  /\ targets = [w \in Writers |-> {}]
  /\ shape = [w \in Writers |-> <<>>]
  /\ tries = [w \in Writers |-> 0]
  /\ need = [w \in Writers |-> {}]

---------------------------------------------------------------------------
\* Readers.

\* A point read, or a range scan that goes on along the leaf links.
StartRead(r, k, scan) ==
  /\ ~Building
  /\ pc[r] = "idle"
  /\ pc' = [pc EXCEPT ![r] = "descend"]
  /\ page' = [page EXCEPT ![r] = Root]
  /\ read' = [read EXCEPT ![r] = [key |-> k, scan |-> scan]]
  /\ UNCHANGED <<latchVars, fill, planVars>>

\* The child's latch is taken while the parent's is held, then the parent's
\* is dropped.
Descend(r) ==
  /\ pc[r] = "descend"
  /\ MayShare(page[r])
  /\ sharers' = ShareOnly(r, page[r])
  /\ IF page[r] \in Leaves
     THEN pc' = [pc EXCEPT ![r] = "leaf"] /\ page' = page
     ELSE pc' = pc /\ page' = [page EXCEPT ![r] = Child[page[r]][read[r].key]]
  /\ UNCHANGED <<writer, fill, read, planVars>>

\* The leaf is copied under its latch, which is dropped before the cells are
\* visited; the next leaf is latched on its own.
ReadLeaf(r) ==
  /\ pc[r] = "leaf"
  /\ sharers' = ShareOnly(r, NoPage)
  /\ LET goesOn == read[r].scan /\ NextLeaf[page[r]] # NoPage IN
       /\ pc' = [pc EXCEPT ![r] = IF goesOn THEN "descend" ELSE "idle"]
       /\ page' = [page EXCEPT ![r] = IF goesOn THEN NextLeaf[page[r]] ELSE NoPage]
       /\ read' = [read EXCEPT ![r] = IF goesOn THEN read[r] ELSE <<>>]
  /\ UNCHANGED <<writer, fill, planVars>>

---------------------------------------------------------------------------
\* Writers.

\* install_pending_primary or install_pending_sec_index builds its targets.
StartInstall(w, batch) ==
  /\ pc[w] = "idle"
  /\ pc' = [pc EXCEPT ![w] = "plan"]
  /\ targets' = [targets EXCEPT ![w] = batch]
  /\ UNCHANGED <<latchVars, fill, page, read, shape, tries, need>>

\* classify_write_from_leaf holds the leaf's latch shared, and no other.
Classify(w, t) ==
  /\ pc[w] = "plan"
  /\ t \in targets[w] \ DOMAIN shape[w]
  /\ MayShare(LeafOf(t.key))
  /\ shape' = [shape EXCEPT ![w] = [u \in DOMAIN shape[w] \cup {t} |->
                                      IF u = t THEN Shape(t) ELSE shape[w][u]]]
  /\ UNCHANGED <<latchVars, fill, pc, page, read, targets, tries, need>>

Planned(w) ==
  /\ pc[w] = "plan"
  /\ DOMAIN shape[w] = targets[w]
  /\ pc' = [pc EXCEPT ![w] = "claim"]
  /\ need' = [need EXCEPT ![w] = RequiredPages(shape[w])]
  /\ page' = [page EXCEPT ![w] = Lowest(RequiredPages(shape[w]))]
  /\ UNCHANGED <<latchVars, fill, read, targets, shape, tries>>

\* acquire_pages: pin_for_write_sized on each page in ascending order.
Claim(w) ==
  /\ pc[w] \in {"claim", "flipClaim"}
  /\ MayClaim(page[w])
  /\ writer' = [writer EXCEPT ![page[w]] = {w}]
  /\ pc' = [pc EXCEPT ![w] = IF pc[w] = "claim" THEN "drain" ELSE "flipDrain"]
  /\ UNCHANGED <<sharers, fill, page, read, planVars>>

Higher(w) == {p \in need[w] : p > page[w]}

Acquired(w) ==
  /\ pc[w] = "drain"
  /\ Drained(page[w])
  /\ IF Higher(w) = {}
     THEN pc' = [pc EXCEPT ![w] = "check"] /\ page' = page
     ELSE pc' = [pc EXCEPT ![w] = "claim"] /\ page' = [page EXCEPT ![w] = Lowest(Higher(w))]
  /\ UNCHANGED <<latchVars, fill, read, planVars>>

TargetLeaves(w) == {LeafOf(t.key) : t \in targets[w]}

\* reclassify_exclusive agrees: the versions are installed and the latches
\* dropped.  The flips follow, for a commit and for an abort alike.
Install(w) ==
  /\ pc[w] = "check"
  /\ RequiredPages(ShapesNow(targets[w])) = need[w]
  /\ writer' = Disown(w)
  /\ pc' = [pc EXCEPT ![w] = "flipShare"]
  /\ need' = [need EXCEPT ![w] = TargetLeaves(w)]
  /\ page' = [page EXCEPT ![w] = Lowest(TargetLeaves(w))]
  /\ shape' = [shape EXCEPT ![w] = <<>>]
  /\ tries' = [tries EXCEPT ![w] = 0]
  /\ UNCHANGED <<sharers, fill, read, targets>>

\* It disagrees: everything is dropped and planned again, or the writer is
\* refused with StructuralContention.
Reclassify(w) ==
  /\ pc[w] = "check"
  /\ RequiredPages(ShapesNow(targets[w])) # need[w]
  /\ writer' = Disown(w)
  /\ shape' = [shape EXCEPT ![w] = <<>>]
  /\ LET refused == tries[w] + 1 >= RetryCap IN
       /\ pc' = [pc EXCEPT ![w] = IF refused THEN "idle" ELSE "plan"]
       /\ tries' = [tries EXCEPT ![w] = IF refused THEN 0 ELSE tries[w] + 1]
  /\ UNCHANGED <<sharers, fill, page, read, targets, need>>

\* flip_phase_a_prepare copies the chains under a shared latch.
FlipPrepare(w) ==
  /\ pc[w] = "flipShare"
  /\ MayShare(page[w])
  /\ pc' = [pc EXCEPT ![w] = "flipClaim"]
  /\ UNCHANGED <<latchVars, fill, page, read, planVars>>

\* flip_phase_b_swap puts them back under an exclusive one.
FlipSwap(w) ==
  /\ pc[w] = "flipDrain"
  /\ Drained(page[w])
  /\ writer' = Disown(w)
  /\ IF Higher(w) = {}
     THEN pc' = [pc EXCEPT ![w] = "idle"] /\ page' = page
     ELSE pc' = [pc EXCEPT ![w] = "flipShare"] /\ page' = [page EXCEPT ![w] = Lowest(Higher(w))]
  /\ UNCHANGED <<sharers, fill, read, planVars>>

\* The commit of a backfill batch writes leaf bytes without a latch.
Backfill(leaf) ==
  /\ Building
  /\ fill[leaf] # "full"
  /\ fill' = [fill EXCEPT ![leaf] = "full"]
  /\ UNCHANGED <<latchVars, pc, page, read, planVars>>

ReaderStep(r) ==
  \/ \E k \in Keys, scan \in BOOLEAN : StartRead(r, k, scan)
  \/ Descend(r)
  \/ ReadLeaf(r)

WriterStep(w) ==
  \/ \E batch \in Batches : StartInstall(w, batch)
  \/ \E t \in Targets : Classify(w, t)
  \/ Planned(w) \/ Claim(w) \/ Acquired(w) \/ Install(w) \/ Reclassify(w)
  \/ FlipPrepare(w) \/ FlipSwap(w)

Next ==
  \/ \E r \in Readers : ReaderStep(r)
  \/ \E w \in Writers : WriterStep(w)
  \/ \E leaf \in Leaves : Backfill(leaf)

Spec == Init /\ [][Next]_vars

---------------------------------------------------------------------------
\* The latch a thread must have for its next step, and who keeps it away.

WaitsFor(t) ==
  CASE pc[t] \in {"descend", "claim", "flipShare", "flipClaim"} -> writer[page[t]]
    [] pc[t] \in {"drain", "flipDrain"}                        -> sharers[page[t]]
    [] OTHER                                                   -> {}

Cycle(S) == S # {} /\ \A t \in S : WaitsFor(t) \cap S # {}

\* Writers never wait for each other in a circle: the pages of a batch are
\* latched in ascending page order (acquire_pages), and classification and
\* flips hold one latch at a time.
WritersNeverCycle == \A S \in SUBSET Writers : ~Cycle(S)

\* No circle of readers and writers waits for latches: a reader that couples
\* from parent to child (read_leaf_for_key) and a writer that latches a whole
\* path by page number (required_pages_for_shapes) never hold what the other
\* needs.
LatchesNeverCycle == \A S \in SUBSET Threads : ~Cycle(S)
=============================================================================
