# A TLA+ verification of mqlite

mqlite is an embedded, MongoDB-compatible document store written in Rust: a
multi-version storage engine over a B+ tree file, with a byte-LSN journal and
group commit.  This directory models the parts of it whose correctness depends
on interleavings, failures and long sequences of steps, checks them with TLC on
small instances, and proves the most important facts with TLAPS for every value
of the constants.

## The system

* **Journal** (`src/journal`).  `LogManager` reserves byte ranges, lets threads
  write them in any order, moves a *ready* frontier over the contiguous written
  prefix and a *durable* frontier by group-commit fsyncs.  Recovery replays it.
* **Publish sequencer** (`src/storage/paged_engine/publish_sequencer.rs`).
  Allocates commit timestamps with dense sequence numbers and publishes epochs
  in that order, whichever order the writers finish in.
* **Commit envelope** (`commit_envelope.rs`, `pending_install.rs`,
  `doc_ops.rs`).  The stages S1 to S12 of a write: admission, visibility, body,
  slot, pending install, log append, flip, publish.
* **Versions and views** (`src/mvcc`).  Version chains, read views pinned in a
  registry, the oldest required timestamp that bounds reclamation.
* **Checkpoint** (`snapshot_ops/checkpoint.rs`, `reconcile`,
  `history_store.rs`).  Drains the writers, folds committed versions into the
  leaf pages, spills what old views need to the history store, writes the pages
  out and appends a boundary record.
* **Pages** (`buffer_pool`, `allocator`, `btree`, `structural_page_batch.rs`),
  **catalog and DDL** (`catalog.rs`, `ns_ddl.rs`, `index_ddl.rs`), **query and
  update languages** (`query`, `update`, `keys`), **client and wire server**.
  A commit plans its writes with the query and update languages, latches the
  tree's pages to install them, and reaches the tree itself at a checkpoint.

The journal orders bytes, the sequencer orders visibility, and the envelope
calls both: it registers a slot (S4), appends its record (S8, S9) and marks the
slot ready (S11).  Readers meet writers in three places only: the published
epoch with its frontier, the version chains, and the registry of pins.

`PROJECT.json` lists every component, what is modelled of it and what is not,
the source lines of every definition, and the hazards.

## The modules

**LogManager** models `log_manager.rs` and its callers in `journal_io.rs`.
State: the three LSN frontiers, the slot map, the poison, the leader flag, the
condition variable as its set of parked threads, and the bytes in the file
(`file`) and on stable storage (`disk`).  Every atomic load, store and critical
section of `reserve`, `write_reserved`, `mark_written`, `wait_ready` and
`ensure_sync` is an action.  A byte is its LSN; record contents are left out.

**PublishSequencer** models `publish_sequencer.rs`, the two stores of
`publish_commit` and `load_published_coherent`.  State: the window of slots, the
mutex (held across publish closures, so an action for each store), the epoch,
the frontier, the poison and the parked writers.

**CommitEnvelope** models the write path, the snapshot read path, the
checkpoint fold and the chain pruning of an eviction, over the chains, the
history store and the base cells they share.  A transaction inserts, updates or
deletes a set of keys.  Its id, slot, timestamp and written value are one number
(its commit timestamp), and 0 is "no document".  The sequencer appears as the
contract PublishSequencer establishes (`Settle`) and the log as the outcome of
the append.  Every key has a leaf of its own.

**Recovery** models what survives a crash: the journal as a sequence of records
with its durable prefix; the main file as the images of its last sync and the
page writes issued since; the frames, dirty stamps and chains of the pool.  Its
actions are document and catalog commits, syncs, evictions, the steps of
`checkpoint_after_reconcile_plan`, a crash, and the steps of
`recover_log_record_journal` and of `open`.  A commit is one step, because its
inner interleavings are the subject of the modules above.

**DurableStore** is the abstract promise: a list of commits of which a crash may
take back only those not yet *safe*, and a store that, when open, shows the last
of the list.  Recovery implements it: its commits are the reference states after
each record still kept, a commit is safe when its record is synced, and the state
shown is what a reader finds through catalog, chains and frames.

**PageLifetime** models who owns a page: the two free lists and file growth
(`allocator`), the refcounts of overflow chains, the lifetime queue
(`deferred_free.rs`) with its checkpoint and reader fences, the structural batch
that commits or aborts, and the walk with which a drop retires a tree that views
may still read.

**Ddl** models namespace and index DDL beside writers: the live catalog and the
published one, the reserve, build, commit and cleanup phases of `create_index`
with writers that write to the Building index too, drops and recreations, refused
log records, the TTL sweep and a reopen.  One namespace and one index name stand
for all.  A DDL operation is one step, because it holds `metadata.write()`
throughout; a build holds nothing and is split wherever it lets go of what it
read.  A build looks its entries up by name and compares ids with what it read
itself, not with what was reserved, so it may fill another call's index; only the
commit and the cleanup ask whether the entry is its own.  After its last look
nothing tells it of a drop.  Pages have no numbers in this module: a build whose
index is gone (`BuildAstray`, `ApplyBatch`) may find and leave anything, harmlessly
while the pages are retired or free, and otherwise with `torn` set.

**BTree** models `storage/btree`: insert with leaf, multiway and internal splits
and root growth, replace, delete with merge, redistribution and root collapse,
over the code's own byte arithmetic with the page sizes as constants.
A tree writes its pages through a structural batch, which discards those of an
operation that fails, or in place (`inPlace`: the catalog and the history store),
where they stay.  **OrderedMap** is its promise: each operation takes effect as a
whole, or fails and changes nothing, but for a delete that fails in place, which has
removed its key.

**PageLatches** models the latches of one tree: readers that couple from parent
to child (`scan.rs`), writers that classify their writes, latch leaves or whole
paths by page number (`smo_latch.rs`), install, and later flip their versions
page by page.

**Bson**, **Expr**, **Filter**, **Planner**, **Aggregate** and **Update**, each
extending the one before, are the query and update languages as operators:
values and their sortable keys (`keys`), expressions, filters, the choice and the
execution of a plan, pipelines, update operators.  Numbers are counted in halves
and i32, i64 and u64 are 4, 6 and 8 bits wide, so that truncation, overflow and
saturation happen.  A field name or a path segment is a token, characters are
numbers, a regular expression is a substring.  What the floating-point functions
and the conversions to and from text return are parameters.

**Collection** runs the document operations of `doc_ops.rs` on one collection
with its indexes, one client at a time: what is stored, what is staged for each
index, and the unique checks at staging and at install.  The update, delete,
replace and find-and-modify handlers are one action, `Perform`: each of them
selects, takes all or the first (after sorting, if asked), makes the new version
and stages it, and `UpdateDocs`, `FindOneAndReplace` and the others say in which
way.  **Values** compares the pure functions with reference definitions; its
states are pairs of values and days.

**MC*** modules give the constants their values and add symmetry sets, a view or
a constraint.  ***Proofs** modules hold the theorems.  Those about CommitEnvelope
take five modules: **VersionChain** says what each operation does to a chain,
**EnvelopeInvariant** defines the inductive invariants, **EnvelopeOrder** proves
the lemmas about chains and reads, **EnvelopeSteps** that the steps preserve the
invariants, and **CommitEnvelopeProofs** puts them together.

A definition called a *faulty variant* is not part of any specification: it
states how a plausible mistake in the code would change the definition after it,
and is used to show that the properties notice.

## What the runs check

| Run | Result | Question |
| --- | --- | --- |
| `LogManager` | holds | Do frontiers, slot map and acknowledgements stay consistent, and do ready waits end? |
| `LogManager_wakeup` | violated | Does every follower of a group commit return? |
| `PublishSequencer` | holds | Are publish order, frontier, views and acknowledgements consistent; do waits end? |
| `CommitEnvelope_snapshot` | holds | Are snapshots point-in-time and does the first committer win, without checkpoints? |
| `CommitEnvelope_maintenance` | holds | Do folding, spilling, collection and eviction keep what new readers and open views need? |
| `Recovery` | holds | Does the engine implement DurableStore across power losses, and are frontier, counters and clock right after one? |
| `PageLifetime` | holds | Has every page one owner, are the free lists sound, and do a dropped tree's pages stay while a view reads them? |
| `Ddl` | holds | Does a Ready index hold the collection's keys, do the two catalogs agree, does a failed build leave nothing? |
| `BTree` | holds | Is the tree well formed after every operation, and does it implement OrderedMap? |
| `PageLatches_cycle` | violated | Do readers and writers never wait for each other's latches in a circle? |
| `Collection` | holds | Do index entries match the documents, do unique indexes hold, does a planned read find what a scan finds, do find and the pipeline agree? |
| `Values` | holds | Do keys sort as values do, is the calendar right, do the expression operators agree with each other? |

The two violated runs are disagreements between the code and what its comments
or docs say; `findings` in `PROJECT.json` quotes both.  A follower of
`ensure_sync` can miss the leader's wakeup and sleep although its record is
durable.  A writer that splits a leaf latches leaf and root in page order, a
reader latches root and leaf in tree order; a root that grew has the higher
number, and the two wait for each other for ever.

### Other disagreements

The properties below fail with the constants given; each restriction of a holding
run is one of them.

| Property | Differs from the run | What the code does |
| --- | --- | --- |
| `SnapshotReads` | `CommitEnvelope_snapshot` with one key, writer and reader, `Ops = {"insert"}`, the key evictable, `MaxTs = 2`, one checkpoint | A view older than a key's first version sees the folded base cell, which carries no timestamp. |
| `FirstCommitterWins` | one key, two writers, no reader, `Ops = {"insert", "update"}`, `MaxTs = 3`, one checkpoint | An update whose chain a checkpoint cleared finds no live head and installs. |
| `FirstCommitterWins` | the same with `{"insert", "delete"}` and no checkpoint | An insert accepts a tombstone newer than its own timestamp. |
| `ResolvedReadsStable` | one key, two writers, one reader, all three operations, nothing evictable, `MaxTs = 3`, one checkpoint | The fold keeps the version with the greatest timestamp, a read takes the first of the chain; an insert over a newer tombstone makes them differ. |
| `FreshAllocations` | `Recovery` with one key, `CrashKinds = {"process"}`, `LateCreates` | The header of a boundary overwrites the counters of later creates. |
| `NewestVisible` | `Recovery` with one collection, `CrashKinds = {"process"}`, `Splits` | A split leaf is flushed in place with no copy in the journal. |
| `RecoveryAccepts` | `Recovery` with one collection and key, `CrashKinds = {"process"}`, three crashes | The frontier is rewound before the journal is reset, and the next recovery refuses the file. |
| `NoReattach` | `Ddl` as it is | An update selected before a drop and recreation installs into the new collection; `docs/CONCURRENCY.md:121-123` says old versions cannot reattach. |
| `ReadyIndexComplete` | `Ddl` as it is | A build that splits its leaf leaves concurrent versions on the old one, or takes them along when its batch is aborted; `structural_page_batch.rs:440-441` says no DDL batch moves them. |
| `ReadyIndexAgrees` without `~torn` | `Ddl` without `MCUntorn` | A build that outlived its index's drop writes its images, by page number, over the leaf of the index reserved since. |

Met while translating, and visible in the definitions (`torn`, `Made`, `PassedOver`,
`Encodable`, `RemPanics`): a refused index record has no undo; a build that had
changed the root before it failed is never cleaned up; an index scan passes over
some documents that the filter matches, and returns a document twice for several
keys; numbers beyond the u64 range have equal keys; `i64::MIN` modulo -1 panics;
internal nodes are never rebalanced, so that a delete can fail, in place with its
key removed and its leaf left empty; a replacement
that no longer fits its leaf fails instead of splitting it.

### Bounds

* `LogManager`: two threads, records of one and two bytes, four bytes of log.
  Enough for a leader, a follower, a hole, and a leader change.
* `PublishSequencer`: three writers, three slots, one reader, one failing
  closure.  Three slots give an aborted, a ready and a pending one at once, and
  a closure run by a third thread.  The run lets the system stop: slots are
  bounded and a poisoned sequencer refuses everyone.
* `CommitEnvelope_snapshot`: two writers, two keys, three timestamps.  The
  selection scans of the updates are the readers.  Two keys let a transaction
  fail between two installs or be seen between two flips.  No eviction and no
  checkpoint here (`Evictable` is empty): both are the subject of the next run.
* `CommitEnvelope_maintenance`: one key, one writer, two readers, three
  timestamps, two checkpoints: insert, supersede, delete around two folds with
  views held across both, and evictions of the leaf (`Evictable` is the key).
* `Recovery`: two collections, two keys, three leaves, six records, four commits,
  two power losses.  Enough for a create, two writes and a checkpoint, a crash in
  it, and a crash in the recovery from that.  Three restrictions of this run are
  disagreements listed above or a hazard: leaves do not split
  (`Splits`), no collection is created while the journal holds a boundary
  (`LateCreates`), and page writes reach the disk in the order issued
  (`CrashKinds` without "reorder": the checkpoint writes its header after the
  pages with no fsync between).
* `PageLifetime`: five pages of two sizes, one view, three batches that hold one
  allocated page each, three holders of overflow references (a base cell, a
  history record, a reader).  Enough for a page to be freed by one path, queued,
  drained and handed out again while the view or the drop's walk is under way.
* `Ddl`: two documents, two values, a unique index, one writer, two builders, and
  three writes with two DDL operations or two with three (`MCMaxOps`); a leaf of
  one cell, so that a build of two documents splits.  Behaviours end at a refused
  index record or at a build that changes pages its dropped index gave up
  (`MCUntorn`): nothing is claimed from there on.
* `BTree`: six keys, two of them longer, and three value lengths, the last of
  which overflows; leaves of one or two cells and internal pages of one or two
  entries give trees of one to four levels.  States that differ only in page
  numbers and in the last reply are one (`TreeView`): the specification gives a
  new page the smallest free number and nothing depends on which it is.  The
  refinement is checked on every step, the reply included.
* `PageLatches_cycle`: two leaves under the root that grew above them, a full and
  a thin leaf, one reader, two writers with one or two writes each.
* `Collection`: four sets of indexes (ascending; sparse and descending; unique
  over two fields; partial together with a nested path), five documents, four
  updates, two stored documents and three operations; seventeen queries are
  compared in every state.
* `Values`: all pairs of 53 values of every type, and 6404 days around the years 0,
  1900, 1970 and 2000.
* An oracle at its bound refuses writers, as `TimestampExhausted` does.
* The filters tried match some document when there is one.

### Fairness

`LogManager` assumes strong fairness of each running thread's step: threads are
scheduled, and a thread that keeps being able to take a mutex gets it
(`parking_lot` hands a mutex over).  A parked thread moves only when notified,
and nobody is obliged to begin an operation.  `PublishSequencer` assumes the same
of the writers that hold a slot: a slot's guard is marked or dropped, because
Rust runs the drop.

## What is proved

Everything below holds for any sets of threads, keys and documents and any
bounds.  `LogManagerProofs` and `PublishSequencerProofs` prove every safety
property their runs check, and `DdlProofs` does for Ddl; of CommitEnvelope the six
safety invariants of its runs and its step property are proved, and of PageLatches
the part that is true.

* **LogManager.**  The inductive invariant says that slots tile the bytes from
  the ready to the reservation frontier, that a slot is marked Written only
  when its bytes are in the file, that a thread between two steps owns the slot
  it is about to change, that at most the elected leader is between election and
  release, and that the leader's target is covered by the file before the sync
  and by the disk after it.  `ReadyPrefixWritten` alone is not inductive: the
  walk of `mark_written` needs the tiling to know that the written slots it
  passes leave no hole.  `AckedIsDurable` needs the leader's target, because the
  acknowledged thread is usually not the one that synced.
* **PublishSequencer.**  `WindowInv` ties window, mutex and oracle together: the
  mutex is held exactly across `advance_window_locked`; timestamps increase along
  the window and none is beyond the oracle; between the epoch store and the
  frontier store the front slot has left the map.  `FrontierPassesTerminal` needs
  all of it, because the store happens a step after the slot is taken out.
  `OkMeansPublished` needs `GuardInv`: the slot of a live guard is in the map as
  its writer left it, or is being published, or was taken out by a closure that
  failed, or has been published.

* **CommitEnvelope.**  Six inductive invariants; each but the first rests on those
  before it, `LogInv` on the first three.

  `EnvelopeInv` ties every version to its transaction: a pending version's slot is
  pending, a committed version has a record in the log, a transaction in flight
  owns a pending slot that no other has, and the frontier, the views and the
  checkpoint's timestamp are behind settled slots only.  It needs no condition and
  gives `TypesKept` (`TypeOK`) and `ReadsAreClean` (`NoDirtyRead`).  `NoDirtyRead`
  alone is not inductive: that a visible version was logged follows from its slot
  being settled, and that again from the owner flipping its versions before it
  settles the slot.

  `LinkInv` says that a chain is sorted, newest first, with no gap between the
  versions that stand and at most the first one pending, and that a registered
  writer expects to replace an older version.  It gives `ChainsStayLinked`
  (`ChainLinked`) under `TombsInOrder`: no deletes are run, or one thread writes.
  Without it the property is false, because an insert accepts a tombstone newer
  than its own timestamp.  A gap-free chain is not enough: that a push keeps the
  chain sorted needs the expected version to be older than the writer's slot.

  `FoldInv` follows a logged write past the fold: it stands in its chain, or it is
  published and older than everything that stands there, and the base cell holds
  the newest such write.  It gives `NewestWritesAreRead` (`LatestReads`) across any
  number of checkpoints and evictions, under `TombsInOrder`.  The step that folds a
  leaf needs all of it: the version written to the base cell is the newest of those
  that leave, and what stays is newer.

  `ViewInv` and `SpillInv` say what a fold leaves to the views held across it.  A
  view is registered at its own timestamp, so that the `ort` a running fold sampled
  is not above it unless the view was opened past the boundary; the fold runs behind
  a closed and drained gate, so that nobody commits below it; before a leaf is folded
  the rows of its superseded versions are in the history store; and no logged write
  falls inside the window of a row.  They give `ResolvedReadsStay`
  (`ResolvedReadsStable`) across any number of checkpoints and evictions, under
  `TombsInOrder`.  What a view finds in a chain or in the history store is the
  newest write logged up to its timestamp; a step keeps the view finding it there
  or moves that very version to the base cell; and commits are logged past the
  frontier only, so that the newest write stays the same.

  `LogInv` says that until the first checkpoint every logged write stands in its
  chain with the tombstone flag it was logged with, that each was logged over the
  newest write before it, and that what a writer with a pending version read is
  still the newest write below its timestamp.  It gives `SnapshotsHold`
  (`SnapshotReads`) and `NoLostUpdates` (`FirstCommitterWins`), under
  `TombsInOrder` and `MaxCheckpoints = 0`, evictions included.  A checkpoint makes
  both false (see the table above), so that the condition is the code's and not the
  proof's.

  The invariants were model-checked as invariants of CommitEnvelope before they
  were proved.  Scans of a chain take the first match (`First`) or keep some
  positions (`Keep`, a recursive function): what they return is proved by taking
  the least position at which the claim would fail.

* **Ddl.**  `DdlProofs` proves `CatalogsAgree` (`CatalogAgrees`),
  `BuildsAreOwned` (`NoOrphanBuild`) and `ReadyIndexesAgree` (`ReadyIndexAgrees`),
  for any finite set of writers and any builders, documents and bounds, with a unique
  index or without.  The invariant `CatalogInv` adds that a missing collection has no
  index, that an index has a durable id exactly when it exists, and that ids only
  grow, so that an entry a builder meets under the name is its own or a later one.

  What a Ready index contains needs three more invariants, which hold until `torn`: an
  index record is refused, or a build left over from a dropped index changes pages
  that are not its own any more.  `VersionInv`: a timestamp names one write, the uncommitted
  versions are those of installed writers of different documents, and what a writer
  replaces is what the published epoch shows, unless its collection is gone.
  `TreeInv`: until a build splits the leaf, the chains hold exactly the index writes
  of installed writers and, in the journal too, of published ones.  `AgreeInv`: there
  is a timestamp B since which every key without a committed chain entry is held or
  not held as it is now, a key with one is held as its newest entry says, and of each
  key the cells that a builder of the entry staged or wrote say what some view since
  B saw.  The last is the argument of the online build: the builder's view may be of
  any moment since the entry was reserved, and a second builder may add its keys to
  the first one's cells or overwrite them, because whatever changed in between is in
  the chains.  The condition
  that no write was carried over from a dropped incarnation (`NoReattach`) is the
  code's: without it the statement is false.

* **DurableStore.**  `DurableStoreProofs` proves for any collections and keys that
  an open store shows the newest commit (`OpenShowsNewest`, inductive with the
  type invariant) and that a safe commit is never changed or taken back
  (`DurableCommitsStay`, a step property over prefixes of the commit list).

* **PageLatches.**  `PageLatchesProofs` proves that writers never wait for each
  other in a circle (`WritersProceed`: `Spec => []WritersNeverCycle`), for any
  tree whose page numbers are bounded (`TreeOK`) and any writers and batches.  The
  invariant `LatchInv` says that the pages a writer still needs are above every
  page it holds; among the writers of a circle the one that waits for the
  greatest page waits for a writer that holds that page and needs a greater one.  Well-foundedness of the naturals gives the
  greatest page.  With readers the statement is false, as the run shows.

The assumptions are the named ASSUMEs of the modules (bounds are naturals, record
lengths positive, `NoThread` is no thread, writers are no readers, and the writers
beside DDL a finite set) and, where the
theorems say so, `TreeOK` for the latches and `TombsInOrder` and
`MaxCheckpoints = 0` for the envelope.

## What is only model-checked

* Liveness (`ReadyWaitEnds`, `PublishWaitEnds`): fairness is out of the prover's
  reach.
* PageLifetime and Recovery, the implementation of DurableStore included: a drain, a
  batch's commit or abort and a replay fold over a queue, a list of pages or the
  journal, and what a fold leaves for every input needs induction over data.
* BTree and the query languages, whose operators are recursive, for the same reason.

Of an index whose build split the leaf nothing is proved: there the statement is
false (see the table above).

## What is not modelled

* **Composition.**  CommitEnvelope takes the sequencer and the log by contract,
  Collection runs one client at a time, Ddl has one writer and one index, and no
  checkpoint folds its chains while a build is under way.  Their
  product is beyond exhaustive checking; the interfaces named above are what each
  promises the next.
* **Ddl**: page numbers, so that a second split of the leaf by another build is not
  told apart from the first, and what a build writes over pages of others is not
  followed further.
* **BTree**: an insert that fails after it has written a page in place.  An internal
  split above a split leaf could do so if a half did not fit; at these sizes every
  half fits.
* **Recovery**: secondary indexes and the history store, the free lists, torn
  single pages, a process crash followed by a power loss, and checkpoint page
  frames, a record kind nothing writes.
* **Buffer pool**: pins, partitions and the clock below the fence that Recovery
  models.  **Allocator**: the freeze guard and the rebuild of refcounts at open.
* **Languages**: Decimal128, full regular expressions, the parsing of update and
  stage documents, the wording of errors, and that `$rand` draws a new number each
  time.
* **Client and wire server**: plumbing over the engine, and cursors over results
  that are already materialised.
* **File locks**: one advisory lock of the operating system.
* Byte layouts and checksums, metrics, logging, the format printing tool.
