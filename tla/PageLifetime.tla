---------------------------- MODULE PageLifetime ----------------------------
(***************************************************************************)
(* The life of a page: the free lists of storage/allocator, the refcounts  *)
(* of overflow chains, the page-lifetime queue that delays a free, the     *)
(* structural batch that allocates and frees on behalf of a tree change,   *)
(* and the pages a dropped tree leaves behind for the views that still     *)
(* read it.                                                                *)
(*                                                                         *)
(* The file starts with one collection's tree (an internal page, a leaf    *)
(* and an overflow page) and one overflow chain that only a persisted      *)
(* history record refers to.  A page's size is fixed when the file grows   *)
(* by it.  The checkpoint fence is kept relative: an entry of the queue    *)
(* records whether the fence is still the one it was queued under.         *)
(***************************************************************************)
EXTENDS Integers, FiniteSets, SequencesExt

CONSTANTS
  Views,        \* the read views
  MaxPages,     \* bound on total_page_count
  MaxBatch,     \* bound on the pages a batch holds allocated
  MaxBatches    \* bound on the batches begun

ASSUME ViewAssumption == IsFiniteSet(Views)
ASSUME PageAssumption == MaxPages \in Nat /\ MaxPages >= 5
ASSUME BatchAssumption == MaxBatch \in Nat /\ MaxBatches \in Nat

Pages == 1 .. MaxPages
Sizes == {"4k", "32k"}
Holders == {"base", "record", "reader"}
NoSlot == -1
Absent == -1

VARIABLES
  file,       \* the header's allocator fields, the links and the page sizes
  slot,       \* page -> its overflow refcount, NoSlot when it has none
  queue,      \* the page-lifetime queue: overflow and retired entries
  pending,    \* page -> the reader fence a retire walk left for it, or 0
  published,  \* the published epoch
  tree,       \* the pages of the collection's tree
  others,     \* the pages of trees the batches created
  registry,   \* view -> its registered read_ts, or Absent
  view,       \* view -> where it stands and the epoch it reads
  md,         \* who holds the metadata lock, and how far it got
  batch,      \* the structural batch
  begun,      \* batches begun so far
  walk,       \* the retire walk of a drop: pages left, probe, fence, and the
              \* dropped pages no overflow reference counts
  holder      \* holder of overflow references -> what it is doing

refs == <<slot, holder>>
readers == <<registry, view>>
vars == <<file, slot, queue, pending, published, tree, others, registry, view,
          md, batch, begun, walk, holder>>

-----------------------------------------------------------------------------
(* The free lists. *)

SizeOf(p) == file.size[p]

(* What allocate hands out and leaves: the head of the size's list, or the *)
(* first page past the end of the file.                                    *)
Allocated(f, size) == IF f.head[size] # 0 THEN f.head[size] ELSE f.total

AfterAllocate(f, size) ==
  IF f.head[size] # 0
  THEN [f EXCEPT !.head[size] = f.link[f.head[size]], !.link[f.head[size]] = 0,
                 !.count[size] = IF @ = 0 THEN 0 ELSE @ - 1]
  ELSE [f EXCEPT !.total = @ + 1, !.size[f.total] = size]

CanAllocate(f, size) == f.head[size] # 0 \/ f.total <= MaxPages

AfterFreeNoLink(f, p, size) ==
  [f EXCEPT !.head[size] = p, !.count[size] = @ + 1]

AfterFree(f, p, size) ==
  [f EXCEPT !.link[p] = f.head[size], !.head[size] = p, !.count[size] = @ + 1]

FreeEach(f, ps) == FoldLeft(LAMBDA g, p : AfterFree(g, p, g.size[p]), f, ps)

-----------------------------------------------------------------------------
(* The page-lifetime queue. *)

Entry(kind, p, ts) == [kind |-> kind, page |-> p, fenced |-> FALSE, ts |-> ts]

PushEntry(q, e) ==
  IF e.kind = "overflow" THEN [q EXCEPT !.overflow = Append(@, e)]
                         ELSE [q EXCEPT !.retired = Append(@, e)]

PushEach(q, es) == FoldLeft(PushEntry, q, es)

IsFenceEligible(e) == e.fenced

TakeEligible(q) == SelectSeq(q.overflow, IsFenceEligible)
KeepIneligible(q) == [q EXCEPT !.overflow = SelectSeq(@, LAMBDA e : ~IsFenceEligible(e))]

(* oldest_required_ts: the lowest read_ts registered; floor >= ts when     *)
(* every registered read_ts is.                                            *)
FloorReaches(ts) == \A v \in Views : registry[v] # Absent => registry[v] >= ts

RetiredReleaseNoFloor(e) == IsFenceEligible(e)

RetiredRelease(e) == IsFenceEligible(e) /\ FloorReaches(e.ts)

Passed(es) == [i \in DOMAIN es |-> [es[i] EXCEPT !.fenced = TRUE]]

(* enqueue_overflow_deferred_free: a note left by a retire walk turns the  *)
(* entry into a retired one that carries the walk's reader fence.          *)
OverflowEntry(p) ==
  IF pending[p] # 0 THEN Entry("retired32k", p, pending[p]) ELSE Entry("overflow", p, 0)

-----------------------------------------------------------------------------
(* Overflow refcounts. *)

RefCount(p) == IF slot[p] = NoSlot THEN 0 ELSE slot[p]

IncrefOverflow(p) == slot' = [slot EXCEPT ![p] = RefCount(p) + 1]

TryIncrefLive(p) == RefCount(p) > 0 /\ IncrefOverflow(p)

(* free_drained_entries: entries whose page is referenced again go back.   *)
Droppable(e) == e.kind = "retired4k" \/ RefCount(e.page) = 0

FreeDrained(es, q) ==
  LET freed == SelectSeq(es, Droppable)
      pages == [i \in DOMAIN freed |-> freed[i].page]
  IN /\ file' = FreeEach(file, pages)
     /\ slot' = [p \in Pages |-> IF p \in ToSet(pages) THEN NoSlot ELSE slot[p]]
     /\ queue' = PushEach(q, SelectSeq(es, LAMBDA e : ~Droppable(e)))

-----------------------------------------------------------------------------

IdleBatch == [kind |-> "none", allocs |-> <<>>, drained |-> <<>>, frees |-> <<>>]
NoEpoch == [ts |-> 0, gen |-> 0, live |-> FALSE]
IdleView == [pc |-> "idle", epoch |-> NoEpoch, poisoned |-> FALSE]
NoWalk == [left |-> <<>>, probe |-> "none", ts |-> 0, plain |-> {}]
NoHold == [pc |-> "none", page |-> 0, entry |-> Entry("overflow", 0, 0)]
Hold(p) == [NoHold EXCEPT !.pc = "holds", !.page = p]

(* Whether the tree's overflow page is also held by references (base) is   *)
(* left open; the history record's chain is page 4.                        *)
Init ==
  \E shared \in BOOLEAN :
    /\ file = [total |-> 5, head |-> [s \in Sizes |-> 0], count |-> [s \in Sizes |-> 0],
               link |-> [p \in Pages |-> 0],
               size |-> [p \in Pages |-> IF p = 1 THEN "4k" ELSE "32k"]]
    /\ slot = [p \in Pages |-> IF p = 4 \/ (shared /\ p = 3) THEN 1 ELSE NoSlot]
    /\ queue = [overflow |-> <<>>, retired |-> <<>>]
    /\ pending = [p \in Pages |-> 0]
    /\ published = [ts |-> 1, gen |-> 1, live |-> TRUE]
    /\ tree = {1, 2, 3}
    /\ others = {}
    /\ registry = [v \in Views |-> Absent]
    /\ view = [v \in Views |-> IdleView]
    /\ md = "free"
    /\ batch = IdleBatch
    /\ begun = 0
    /\ walk = NoWalk
    /\ holder = [h \in Holders |->
                   CASE h = "record" -> Hold(4)
                     [] h = "base" /\ shared -> Hold(3)
                     [] OTHER -> NoHold]

-----------------------------------------------------------------------------
(* Read views: registered at the lowest timestamp first, then given the    *)
(* epoch, then raised to it, then revalidated.                             *)

RegisterView(v) ==
  /\ view[v].pc = "idle"
  /\ registry' = [registry EXCEPT ![v] = 0]
  /\ view' = [view EXCEPT ![v].pc = "registered"]
  /\ UNCHANGED <<file, refs, queue, pending, published, tree, others, md, batch, walk, begun>>

LoadEpoch(v) ==
  /\ view[v].pc = "registered"
  /\ view' = [view EXCEPT ![v] = [@ EXCEPT !.pc = "loaded", !.epoch = published]]
  /\ UNCHANGED <<file, refs, queue, pending, published, tree, others, registry, md, batch, walk, begun>>

AttachAndRefineNever(v) ==
  /\ view[v].pc = "loaded"
  /\ registry' = [registry EXCEPT ![v] = Absent]
  /\ view' = [view EXCEPT ![v].pc = "refined"]
  /\ UNCHANGED <<file, refs, queue, pending, published, tree, others, md, batch, walk, begun>>

AttachAndRefine(v) ==
  /\ view[v].pc = "loaded"
  /\ registry' = [registry EXCEPT ![v] = view[v].epoch.ts]
  /\ view' = [view EXCEPT ![v].pc = "refined"]
  /\ UNCHANGED <<file, refs, queue, pending, published, tree, others, md, batch, walk, begun>>

RevalidateView(v) ==
  /\ view[v].pc = "refined"
  /\ IF published.gen # view[v].epoch.gen
     THEN /\ registry' = [registry EXCEPT ![v] = Absent]
          /\ view' = [view EXCEPT ![v] = IdleView]
     ELSE /\ view' = [view EXCEPT ![v].pc = "live"]
          /\ UNCHANGED registry
  /\ UNCHANGED <<file, refs, queue, pending, published, tree, others, md, batch, walk, begun>>

DropView(v) ==
  /\ view[v].pc = "live"
  /\ registry' = [registry EXCEPT ![v] = Absent]
  /\ view' = [view EXCEPT ![v] = IdleView]
  /\ UNCHANGED <<file, refs, queue, pending, published, tree, others, md, batch, walk, begun>>

(* force_expire_all reaches the views whose back-pointer is attached.      *)
ForceExpireAll ==
  view' = [v \in Views |->
             IF view[v].pc \in {"refined", "live"}
             THEN [view[v] EXCEPT !.poisoned = TRUE] ELSE view[v]]

-----------------------------------------------------------------------------
(* Overflow references.  The persisted record and the base image each own  *)
(* one reference; decoding a record and cloning a reference take another.  *)

HeldPages == {holder[h].page : h \in {g \in Holders : holder[g].pc = "holds"}}

CloneRef ==
  /\ holder["reader"].pc = "none"
  /\ \E p \in HeldPages :
       /\ TryIncrefLive(p)
       /\ holder' = [holder EXCEPT !["reader"] = Hold(p)]
  /\ UNCHANGED <<file, queue, pending, published, tree, others, readers, md, batch, walk, begun>>

(* OverflowRef::drop, first half: the decrement.  The base image gives up  *)
(* its reference only once the collection is dropped.                      *)
DropRef(h) ==
  /\ holder[h].pc = "holds"
  /\ h = "base" => ~published.live
  /\ LET p == holder[h].page
     IN /\ slot' = [slot EXCEPT ![p] = @ - 1]
        /\ holder' = [holder EXCEPT ![h] = IF slot[p] = 1 THEN [@ EXCEPT !.pc = "zero"] ELSE NoHold]
  /\ UNCHANGED <<file, queue, pending, published, tree, others, readers, md, batch, walk, begun>>

(* OverflowRef::drop, second half, by whoever saw zero: take the note and  *)
(* read the checkpoint fence, then push the entry.                         *)
TakeNote(h) ==
  /\ holder[h].pc = "zero"
  /\ LET p == holder[h].page
     IN /\ holder' = [holder EXCEPT ![h] = [@ EXCEPT !.pc = "push", !.entry = OverflowEntry(p)]]
        /\ pending' = [pending EXCEPT ![p] = 0]
  /\ UNCHANGED <<file, slot, queue, published, tree, others, readers, md, batch, walk, begun>>

EnqueueDropped(h) ==
  /\ holder[h].pc = "push"
  /\ queue' = PushEntry(queue, holder[h].entry)
  /\ holder' = [holder EXCEPT ![h] = NoHold]
  /\ UNCHANGED <<file, slot, pending, published, tree, others, readers, md, batch, walk, begun>>

-----------------------------------------------------------------------------
(* The structural batch. *)

(* drain_deferred_free_pages: the batch takes the overflow pages that are  *)
(* eligible and unreferenced; the rest stay queued.                        *)
ReadyPages ==
  LET ready == SelectSeq(TakeEligible(queue), LAMBDA e : RefCount(e.page) = 0)
  IN [i \in DOMAIN ready |-> ready[i].page]

DrainDeferredFreePages ==
  /\ slot' = [p \in Pages |-> IF p \in ToSet(ReadyPages) THEN NoSlot ELSE slot[p]]
  /\ queue' = PushEach(KeepIneligible(queue),
                       SelectSeq(TakeEligible(queue), LAMBDA e : RefCount(e.page) # 0))

BeginBatch(kind) ==
  /\ md = "free" /\ begun < MaxBatches
  /\ begun' = begun + 1
  /\ kind = "drop" => published.live
  /\ IF kind = "drop" THEN ForceExpireAll ELSE UNCHANGED view
  /\ batch' = [IdleBatch EXCEPT !.kind = kind, !.drained = ReadyPages]
  /\ DrainDeferredFreePages
  /\ md' = "batch"
  /\ UNCHANGED <<file, holder, pending, published, tree, others, registry, walk>>

BatchAlloc(size) ==
  /\ md = "batch" /\ batch.kind # "drop"
  /\ Len(batch.allocs) < MaxBatch
  /\ CanAllocate(file, size)
  /\ file' = AfterAllocate(file, size)
  /\ batch' = [batch EXCEPT !.allocs = Append(@, Allocated(file, size))]
  /\ UNCHANGED <<refs, queue, pending, published, tree, others, readers, md, walk, begun>>

(* A page of the batch is freed at once and forgotten. *)
BatchFreeOwnKeep(p) ==
  /\ md = "batch" /\ p \in ToSet(batch.allocs)
  /\ file' = AfterFree(file, p, SizeOf(p))
  /\ UNCHANGED <<refs, queue, pending, published, tree, others, readers, md, batch, walk, begun>>

BatchFreeOwn(p) ==
  /\ md = "batch" /\ p \in ToSet(batch.allocs)
  /\ file' = AfterFree(file, p, SizeOf(p))
  /\ batch' = [batch EXCEPT !.allocs = Remove(@, p)]
  /\ UNCHANGED <<refs, queue, pending, published, tree, others, readers, md, walk, begun>>

(* A page the base image still refers to is freed by the commit only.      *)
BatchFreeBase(p) ==
  /\ md = "batch" /\ batch.kind = "checkpoint"
  /\ p \in tree \ {1} /\ slot[p] = NoSlot
  /\ p \notin ToSet(batch.frees)
  /\ batch' = [batch EXCEPT !.frees = Append(@, p)]
  /\ UNCHANGED <<file, refs, queue, pending, published, tree, others, readers, md, walk, begun>>

CommitBatch ==
  /\ md = "batch"
  /\ file' = FreeEach(FreeEach(file, batch.frees), batch.drained)
  /\ LET new == ToSet(batch.allocs)
     IN CASE batch.kind = "create" -> /\ others' = others \cup new
                                      /\ md' = "free"
                                      /\ UNCHANGED tree
          [] batch.kind = "checkpoint" -> /\ IF published.live
                                             THEN /\ tree' = (tree \ ToSet(batch.frees)) \cup new
                                                  /\ UNCHANGED others
                                             ELSE /\ others' = others \cup new
                                                  /\ UNCHANGED tree
                                          /\ md' = "boundary"
          [] batch.kind = "drop" -> md' = "publish" /\ UNCHANGED <<tree, others>>
  /\ batch' = IdleBatch
  /\ UNCHANGED <<refs, queue, pending, published, readers, walk, begun>>

AbortBatchFreeing ==
  /\ md = "batch"
  /\ file' = FreeEach(FreeEach(file, batch.allocs), batch.frees)
  /\ queue' = PushEach(queue, [i \in DOMAIN batch.drained |-> OverflowEntry(batch.drained[i])])
  /\ pending' = [p \in Pages |-> IF p \in ToSet(batch.drained) THEN 0 ELSE pending[p]]
  /\ batch' = IdleBatch
  /\ md' = "free"
  /\ UNCHANGED <<refs, published, tree, others, readers, walk, begun>>

(* Abort: new pages go back, drained pages are queued again, and the       *)
(* deferred frees are dropped.                                             *)
AbortBatch ==
  /\ md = "batch"
  /\ file' = FreeEach(file, batch.allocs)
  /\ queue' = PushEach(queue, [i \in DOMAIN batch.drained |-> OverflowEntry(batch.drained[i])])
  /\ pending' = [p \in Pages |-> IF p \in ToSet(batch.drained) THEN 0 ELSE pending[p]]
  /\ batch' = IdleBatch
  /\ md' = "free"
  /\ UNCHANGED <<refs, published, tree, others, readers, walk, begun>>

-----------------------------------------------------------------------------
(* Drains. *)

(* drain_free_queue, on the way of a commit or a pin: overflow entries.    *)
HotDrain ==
  /\ TakeEligible(queue) # <<>>
  /\ FreeDrained(TakeEligible(queue), KeepIneligible(queue))
  /\ UNCHANGED <<holder, pending, published, tree, others, readers, md, batch, walk, begun>>

(* A checkpoint that leaves a logical tail does not advance the fence.     *)
CheckpointTail ==
  /\ md = "boundary"
  /\ md' = "free"
  /\ UNCHANGED <<file, refs, queue, pending, published, tree, others, readers, batch, walk, begun>>

(* advance_page_lifetime_checkpoint: advance the fence, then drain the     *)
(* overflow entries and the retired ones no reader can need.               *)
AdvanceCheckpointFence ==
  /\ md = "boundary"
  /\ queue' = [overflow |-> Passed(queue.overflow), retired |-> Passed(queue.retired)]
  /\ holder' = [h \in Holders |-> [holder[h] EXCEPT !.entry.fenced = (holder[h].pc = "push")]]
  /\ md' = "drain"
  /\ UNCHANGED <<file, slot, pending, published, tree, others, readers, batch, walk, begun>>

DrainWithRetired ==
  /\ md = "drain"
  /\ LET kept == [KeepIneligible(queue) EXCEPT
                    !.retired = SelectSeq(@, LAMBDA e : ~RetiredRelease(e))]
     IN FreeDrained(TakeEligible(queue) \o SelectSeq(queue.retired, RetiredRelease), kept)
  /\ md' = "free"
  /\ UNCHANGED <<holder, pending, published, tree, others, readers, batch, walk, begun>>

-----------------------------------------------------------------------------
(* Dropping the collection: publish the catalog without it, then walk the  *)
(* pages its trees had.                                                    *)

PublishDrop ==
  /\ md = "publish"
  /\ published' = [ts |-> published.ts + 1, gen |-> published.gen + 1, live |-> FALSE]
  /\ walk' = [left |-> SetToSeq(tree), probe |-> "none", ts |-> published.ts + 1,
              plain |-> {p \in tree : slot[p] = NoSlot}]
  /\ tree' = {}
  /\ md' = "retire"
  /\ UNCHANGED <<file, refs, queue, pending, others, readers, batch, begun>>

Retire4k ==
  /\ md = "retire" /\ walk.left # <<>> /\ walk.probe = "none"
  /\ SizeOf(Head(walk.left)) = "4k"
  /\ queue' = PushEntry(queue, Entry("retired4k", Head(walk.left), walk.ts))
  /\ walk' = [walk EXCEPT !.left = Tail(@)]
  /\ UNCHANGED <<file, refs, pending, published, tree, others, readers, md, batch, begun>>

(* A 32k page: leave the note first, then probe the refcount. *)
RetireNote ==
  /\ md = "retire" /\ walk.left # <<>> /\ walk.probe = "none"
  /\ SizeOf(Head(walk.left)) = "32k"
  /\ pending' = [pending EXCEPT ![Head(walk.left)] = walk.ts]
  /\ walk' = [walk EXCEPT !.probe = "noted"]
  /\ UNCHANGED <<file, refs, queue, published, tree, others, readers, md, batch, begun>>

RetireProbe ==
  /\ md = "retire" /\ walk.probe = "noted"
  /\ walk' = [walk EXCEPT !.probe =
                CASE slot[Head(walk.left)] = NoSlot -> "slotless"
                  [] slot[Head(walk.left)] = 0 -> "dead"
                  [] OTHER -> "live"]
  /\ UNCHANGED <<file, refs, queue, pending, published, tree, others, readers, md, batch, begun>>

NextRetired == walk' = [walk EXCEPT !.left = Tail(@), !.probe = "none"]

RetireDeadEnqueue(p) ==
  /\ pending' = [pending EXCEPT ![p] = 0]
  /\ queue' = IF pending[p] # 0 THEN PushEntry(queue, Entry("retired32k", p, walk.ts)) ELSE queue

(* Refcount zero: the final decrement owns the entry; reclaim the note.    *)
RetireDead(p) ==
  /\ pending' = [pending EXCEPT ![p] = 0]
  /\ UNCHANGED queue

RetireSlotless(p) ==
  /\ pending' = [pending EXCEPT ![p] = 0]
  /\ queue' = IF pending[p] # 0 THEN PushEntry(queue, Entry("retired32k", p, pending[p])) ELSE queue

RetireResolve ==
  /\ md = "retire" /\ walk.probe \in {"slotless", "dead", "live"}
  /\ LET p == Head(walk.left)
     IN \/ walk.probe = "slotless" /\ RetireSlotless(p)
        \/ walk.probe = "dead" /\ RetireDead(p)
        \/ walk.probe = "live" /\ UNCHANGED <<pending, queue>>
  /\ NextRetired
  /\ UNCHANGED <<file, refs, published, tree, others, readers, md, batch, begun>>

FinishDrop ==
  /\ md = "retire" /\ walk.left = <<>>
  /\ md' = "free"
  /\ UNCHANGED <<file, refs, queue, pending, published, tree, others, readers, batch, walk, begun>>

Next ==
  \/ \E v \in Views : \/ RegisterView(v) \/ LoadEpoch(v) \/ AttachAndRefine(v)
                      \/ RevalidateView(v) \/ DropView(v)
  \/ \E h \in Holders : DropRef(h) \/ TakeNote(h) \/ EnqueueDropped(h)
  \/ CloneRef
  \/ \E kind \in {"create", "checkpoint", "drop"} : BeginBatch(kind)
  \/ \E size \in Sizes : BatchAlloc(size)
  \/ \E p \in Pages : BatchFreeOwn(p) \/ BatchFreeBase(p)
  \/ CommitBatch \/ AbortBatch
  \/ HotDrain \/ CheckpointTail \/ AdvanceCheckpointFence \/ DrainWithRetired
  \/ PublishDrop \/ Retire4k \/ RetireNote \/ RetireProbe \/ RetireResolve \/ FinishDrop

Spec == Init /\ [][Next]_vars

-----------------------------------------------------------------------------

(* The pages on a size's free list, by following the links from its head.  *)
FreeAfter(size) ==
  LET step[n \in 0 .. MaxPages] ==
        IF n = 0 THEN file.head[size]
        ELSE IF step[n - 1] = 0 THEN 0 ELSE file.link[step[n - 1]]
  IN step

FreePages(size) == {FreeAfter(size)[n] : n \in 0 .. MaxPages} \ {0}

Queued(p) == Cardinality({i \in DOMAIN queue.overflow : queue.overflow[i].page = p})
             + Cardinality({i \in DOMAIN queue.retired : queue.retired[i].page = p})

Bit(b) == IF b THEN 1 ELSE 0

(* References own a page that no tree holds while one is left or whoever   *)
(* dropped the last has not queued the page yet.                           *)
RefOwned(p) ==
  /\ p \notin tree
  /\ \/ RefCount(p) > 0
     \/ \E h \in Holders : holder[h].pc \in {"zero", "push"} /\ holder[h].page = p

WalkOwned(p) == md = "retire" /\ p \in ToSet(walk.left) /\ slot[p] = NoSlot

Owners(p) ==
  Cardinality({s \in Sizes : p \in FreePages(s)}) + Bit(p \in tree) + Bit(p \in others)
  + Queued(p) + Cardinality({i \in DOMAIN batch.allocs : batch.allocs[i] = p})
  + Cardinality({i \in DOMAIN batch.drained : batch.drained[i] = p})
  + Bit(RefOwned(p)) + Bit(WalkOwned(p))

(* Every page of the file has exactly one owner: a free list, a tree, the  *)
(* lifetime queue, the batch, its overflow references or the retire walk.  *)
(* So no page is handed out twice, none is freed twice and none is lost,   *)
(* whatever order decrements, drains, batches and the retire walk take     *)
(* (allocator/overflow.rs, structural_page_batch.rs, paged_engine.rs:578). *)
PageOwnedOnce == \A p \in 1 .. file.total - 1 : Owners(p) = 1

(* The free lists are well formed: each ends, its length is the header's   *)
(* count and its pages have its size (allocator/free_list.rs).             *)
FreeListsSound ==
  \A s \in Sizes :
    /\ FreeAfter(s)[MaxPages] = 0
    /\ Cardinality(FreePages(s)) = file.count[s]
    /\ \A p \in FreePages(s) : p < file.total /\ SizeOf(p) = s

(* A view opened on the catalog from before a drop, and not expired by it, *)
(* finds the pages of the dropped tree where they were: none of them is on *)
(* a free list or in another tree.  Pages whose lifetime is counted by     *)
(* overflow references are not the queue's to protect.                     *)
DroppedPagesStayReadable ==
  \A v \in Views :
    (view[v].pc = "live" /\ ~view[v].poisoned /\ view[v].epoch.live /\ ~published.live)
      => \A p \in walk.plain :
           \/ p \in ToSet(walk.left)
           \/ \E i \in DOMAIN queue.retired : queue.retired[i].page = p
=============================================================================
