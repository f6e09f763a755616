------------------------------ MODULE Recovery ------------------------------
(***************************************************************************)
(* The durable state of one database and how it survives a crash: the      *)
(* journal, the main file, the checkpoint that moves committed versions    *)
(* from one to the other, and the recovery of journal/recovery.rs.         *)
(*                                                                         *)
(* The journal is a sequence of records and an LSN is the index of the     *)
(* last record it covers.  The main file has page 0 (the file header),     *)
(* page 1 (the catalog) and leaves: file holds what its last sync made     *)
(* durable, and writes lists the page writes issued since.  A read returns *)
(* the last write; a power loss may take some of them back.                *)
(*                                                                         *)
(* A commit is one step: the interleaving of its parts is the subject of   *)
(* CommitEnvelope, LogManager and PublishSequencer.  A document's value is *)
(* the timestamp of the commit that wrote it, 0 when it is absent.         *)
(***************************************************************************)
EXTENDS Integers, FiniteSetsExt, SequencesExt

CONSTANTS
  Collections,    \* the collection names
  Keys,           \* the document keys of a collection
  CrashKinds,     \* the crashes that happen: "process" takes back no write,
                  \* "power" the last ones issued, "reorder" any of them
  Splits,         \* whether a checkpoint may split a leaf
  LateCreates,    \* whether a collection may be created while the journal
                  \* holds a checkpoint boundary
  MaxPage,        \* bound on page numbers
  MaxLog,         \* bound on journal records
  MaxCommits,     \* bound on commits
  MaxCrashes      \* bound on crashes

ASSUME BoundAssumption ==
  /\ MaxPage \in Nat /\ MaxPage >= 1
  /\ MaxLog \in Nat /\ MaxCommits \in Nat /\ MaxCrashes \in Nat
ASSUME KindAssumption == CrashKinds \subseteq {"process", "power", "reorder"}
ASSUME SwitchAssumption == Splits \in BOOLEAN /\ LateCreates \in BOOLEAN

VARIABLES
  log,      \* the journal's records
  durable,  \* LogManager's durable_lsn
  synced,   \* the records a power loss cannot take
  file,     \* page -> its image when the main file was last synced
  writes,   \* the page writes to the main file since, in the order issued
  frame,    \* page -> its content in the buffer pool (0: the allocator's header)
  dirty,    \* page -> Clean, Unflushable or the LSN its frame is stamped with
  chain,    \* leaf -> the newest committed version of each key not yet folded
  clock,    \* the oracle's last commit timestamp
  nextSeq,  \* the next publish_seq
  phase,    \* where the engine stands: open, in a checkpoint, or recovering
  ckpt,     \* the running checkpoint's timestamp and logical-tail verdict
  scan,     \* what recovery read from the journal, until the engine is open
  crashes,  \* crashes so far
  past      \* history: the reference state after each commit still journalled
            \* or checkpointed

journal == <<log, durable, synced>>
pool == <<frame, dirty, chain>>
floors == <<clock, nextSeq>>
main == <<file, writes>>
vars == <<journal, main, pool, floors, phase, ckpt, scan, crashes, past>>

----------------------------------------------------------------------------
Header == 0
Catalog == 1
Page == 0..MaxPage
Leaf == 2..MaxPage

Clean == -1
Unflushable == MaxLog + 1

EmptyLeaf == [k \in Keys |-> 0]
NoVersions == [k \in {} |-> 0]
NoCollections == [c \in {} |-> 0]
FreshHeader == [applied |-> 0, ckptTs |-> 0, nextId |-> 1, pages |-> 2]

NoCkpt == [ts |-> 0, tail |-> FALSE]
NoScan == [frames |-> <<>>, ts |-> 0, seq |-> 0]

\* The image of page p once the given writes, indices of w, are applied.
ImageAfter(w, kept, p) ==
  LET mine == {i \in kept : w[i].page = p}
  IN IF mine = {} THEN file[p] ELSE w[Max(mine)].image

Read(w, p) == ImageAfter(w, DOMAIN w, p)
OnDisk(p) == Read(writes, p)

\* A write that changes nothing is left out.
Write(w, p, image) ==
  IF Read(w, p) = image THEN w ELSE Append(w, [page |-> p, image |-> image])

IsCommit(r) == r.kind \in {"crud", "catalog"}

\* LogManager::ensure_sync of the whole ready prefix: it returns at once when
\* durable_lsn already covers it.
EnsureSync ==
  IF durable >= Len(log)
  THEN UNCHANGED <<durable, synced>>
  ELSE durable' = Len(log) /\ synced' = Len(log)

Folded(p) ==
  [k \in Keys |-> IF k \in DOMAIN chain[p] THEN chain[p][k] ELSE frame[p][k]]

\* What a reader of the current epoch sees.
Visible ==
  [c \in DOMAIN frame[Catalog] |->
     [k \in Keys |-> Folded(frame[Catalog][c].route[k])[k]]]

HoldsBoundary == \E i \in DOMAIN log : log[i].kind = "boundary"

Chained == {p \in Leaf : chain[p] # NoVersions}

CheckpointPhases == {"flush", "reflush", "boundary", "harden"}
RecoveryPhases == {"down", "resync", "reset", "opening"}
Up == phase \notin RecoveryPhases

----------------------------------------------------------------------------
Init ==
  /\ log = <<>> /\ durable = 0 /\ synced = 0
  /\ frame = [p \in Page |-> CASE p = Header -> FreshHeader
                               [] p = Catalog -> NoCollections
                               [] OTHER -> EmptyLeaf]
  /\ file = frame /\ writes = <<>>
  /\ dirty = [p \in Page |-> Clean]
  /\ chain = [p \in Leaf |-> NoVersions]
  /\ clock = 0 /\ nextSeq = 1
  /\ phase = "open" /\ ckpt = NoCkpt /\ scan = NoScan
  /\ crashes = 0
  /\ past = <<NoCollections>>

MayCommit ==
  /\ phase = "open"
  /\ Len(log) < MaxLog
  /\ Len(past) <= MaxCommits

\* A commit takes the next timestamp and publish_seq and appends its record.
CommitRecord(r, state) ==
  /\ log' = Append(log, r)
  /\ clock' = clock + 1
  /\ nextSeq' = nextSeq + 1
  /\ past' = Append(past, state)

\* insert, update or delete of one document: a CrudCommit record and a new
\* head on the version chain of the leaf the key routes to.
Crud(c, k, value) ==
  LET entry == frame[Catalog][c]
      leaf == entry.route[k]
  IN /\ MayCommit
     /\ CommitRecord([kind |-> "crud", seq |-> nextSeq, ts |-> clock + 1,
                      id |-> entry.id, key |-> k, value |-> value],
                     [Visible EXCEPT ![c][k] = value])
     /\ chain' = [chain EXCEPT ![leaf] =
                    [j \in DOMAIN @ \cup {k} |-> IF j = k THEN value ELSE @[j]]]
     /\ UNCHANGED <<durable, synced, main, frame, dirty, phase, ckpt, scan, crashes>>

Put(c, k) == Crud(c, k, clock + 1)

Delete(c, k) == Visible[c][k] # 0 /\ Crud(c, k, 0)

\* A catalog change logs the header and the image of every page it dirtied,
\* and stamps the frames with the record's end LSN.
CatalogCommit(state, newFrame, pages) ==
  LET lsn == Len(log) + 1
  IN /\ CommitRecord([kind |-> "catalog", seq |-> nextSeq, ts |-> clock + 1,
                      header |-> newFrame[Header],
                      pages |-> [p \in pages |-> newFrame[p]]], state)
     /\ frame' = newFrame
     /\ dirty' = [p \in Page |->
                    IF p \in pages THEN lsn
                    ELSE IF p = Header /\ newFrame[p] # frame[p] THEN Unflushable
                    ELSE dirty[p]]
     /\ UNCHANGED <<durable, synced, main, phase, ckpt, scan, crashes>>

\* create_namespace: the next namespace id and one page at the end of the file
\* for the collection's root leaf.
Create(c) ==
  LET header == frame[Header]
      root == header.pages
      entry == [id |-> header.nextId, route |-> [k \in Keys |-> root]]
      catalog == [d \in DOMAIN frame[Catalog] \cup {c} |->
                    IF d = c THEN entry ELSE frame[Catalog][d]]
  IN /\ MayCommit
     /\ c \notin DOMAIN frame[Catalog]
     /\ root \in Leaf
     /\ HoldsBoundary => LateCreates
     /\ CatalogCommit([d \in DOMAIN catalog |-> IF d = c THEN EmptyLeaf ELSE Visible[d]],
                      [frame EXCEPT ![Header].nextId = @ + 1, ![Header].pages = @ + 1,
                                    ![Catalog] = catalog, ![root] = EmptyLeaf],
                      {Catalog, root})
     /\ chain' = [chain EXCEPT ![root] = NoVersions]

\* drop_namespace: the catalog entry goes, and the tree's chains with it.
Drop(c) ==
  LET rest == DOMAIN frame[Catalog] \ {c}
      route == frame[Catalog][c].route
  IN /\ MayCommit
     /\ CatalogCommit([d \in rest |-> Visible[d]],
                      [frame EXCEPT ![Catalog] = [d \in rest |-> @[d]]],
                      {Catalog})
     /\ chain' = [p \in Leaf |-> IF \E k \in Keys : route[k] = p
                                 THEN NoVersions ELSE chain[p]]

\* The interval or FullSync durability wait.
Sync ==
  /\ phase = "open"
  /\ durable < Len(log)
  /\ EnsureSync
  /\ UNCHANGED <<log, main, pool, floors, phase, ckpt, scan, crashes, past>>

\* Faulty variant: the durable-LSN fence is dropped.
EvictUnfenced(p) ==
  /\ Up
  /\ dirty[p] \in 0..MaxLog
  /\ p \in Leaf => chain[p] = NoVersions
  /\ writes' = Write(writes, p, frame[p])
  /\ dirty' = [dirty EXCEPT ![p] = Clean]
  /\ UNCHANGED <<journal, file, frame, chain, floors, phase, ckpt, scan, crashes, past>>

\* The pool evicts a dirty frame: never one whose record is not durable, one
\* not stamped yet, or one that carries committed versions.
Evict(p) ==
  /\ Up
  /\ dirty[p] \in 0..durable
  /\ p \in Leaf => chain[p] = NoVersions
  /\ writes' = Write(writes, p, frame[p])
  /\ dirty' = [dirty EXCEPT ![p] = Clean]
  /\ UNCHANGED <<journal, file, frame, chain, floors, phase, ckpt, scan, crashes, past>>

----------------------------------------------------------------------------
(* The checkpoint.  It holds metadata.write() and has drained every writer, *)
(* so no commit runs until it returns.                                      *)

NoSplit == [leaf |-> Header, keys |-> {}]

\* The leaves a checkpoint may split: the keys that move go to a new page at
\* the end of the file, the others stay in place (btree/insert.rs).
SplitPlans(folding) ==
  {NoSplit} \cup
    (IF Splits /\ frame[Header].pages \in Leaf
     THEN [leaf : folding, keys : SUBSET Keys \ {{}, Keys}] ELSE {})

Materialized(folding, split) ==
  LET right == frame[Header].pages
      Moves(k) == k \in split.keys
      Route(entry) ==
        [entry EXCEPT !.route =
           [k \in Keys |-> IF @[k] = split.leaf /\ Moves(k) THEN right ELSE @[k]]]
  IN [p \in Page |->
        CASE p = Header -> IF split = NoSplit THEN frame[p]
                           ELSE [frame[p] EXCEPT !.pages = @ + 1]
          [] p = Catalog -> [c \in DOMAIN frame[p] |-> Route(frame[p][c])]
          [] p = right /\ split # NoSplit ->
               [k \in Keys |-> IF Moves(k) THEN Folded(split.leaf)[k] ELSE 0]
          [] p \in folding ->
               [k \in Keys |-> IF p = split.leaf /\ Moves(k) THEN 0 ELSE Folded(p)[k]]
          [] OTHER -> frame[p]]

\* Sync the journal, fold the committed versions of every leaf but those left
\* to the logical tail into the frames, and clear the folded chains.  Folded
\* leaves are stamped with the durable LSN, and so is the catalog a moved root
\* dirties unless the round leaves a tail; it publishes at its own timestamp.
Materialize(left, split) ==
  LET folding == Chained \ left
      base == Materialized(folding, split)
      changed == {p \in Page : base[p] # frame[p]}
  IN /\ phase = "open"
     /\ Len(log) < MaxLog
     /\ EnsureSync
     /\ frame' = base
     /\ dirty' = [p \in Page |->
                    CASE p \in Leaf /\ p \in changed \cup folding -> durable'
                      [] p = Catalog /\ p \in changed /\ dirty[p] = Clean ->
                           IF left = {} THEN durable' ELSE Unflushable
                      [] p = Header /\ p \in changed -> Unflushable
                      [] OTHER -> dirty[p]]
     /\ chain' = [p \in Leaf |-> IF p \in folding THEN NoVersions ELSE chain[p]]
     /\ clock' = IF split = NoSplit THEN clock ELSE clock + 1
     /\ ckpt' = [ts |-> clock, tail |-> left # {}]
     /\ phase' = "flush"
     /\ UNCHANGED <<log, main, nextSeq, scan, crashes, past>>

\* BufferPoolHandle::flush, one page at a time: first the stamped frames in
\* any order, then the header and the frames it stamps itself.  A page whose
\* record is not durable stays dirty.
Flushable(p) ==
  LET Stamped(q) == dirty[q] \in 0..durable
  IN \/ Stamped(p)
     \/ dirty[p] = Unflushable /\ ~ \E q \in Page : Stamped(q)

FlushPage(p) ==
  /\ phase \in {"flush", "reflush"}
  /\ Flushable(p)
  /\ writes' = Write(writes, p, frame[p])
  /\ dirty' = [dirty EXCEPT ![p] = Clean]
  /\ UNCHANGED <<journal, file, frame, chain, floors, phase, ckpt, scan, crashes, past>>

FlushEnded == \A p \in Page : ~Flushable(p)
HasDirtyPages == \E p \in Page : dirty[p] # Clean

\* A round that left versions or dirty pages behind ends here: the journal
\* stays their only durable copy and the frontier does not move.
LeaveTail ==
  /\ phase = "flush"
  /\ FlushEnded
  /\ ckpt.tail \/ HasDirtyPages
  /\ EnsureSync
  /\ phase' = "open" /\ ckpt' = NoCkpt
  /\ UNCHANGED <<log, main, pool, floors, scan, crashes, past>>

\* The header takes the checkpoint's timestamp and the journal frontier, and
\* is flushed in its turn.
AdvanceFrontier ==
  /\ phase = "flush"
  /\ FlushEnded
  /\ ~ckpt.tail /\ ~HasDirtyPages
  /\ frame' = [frame EXCEPT ![Header].ckptTs = Max({@, ckpt.ts}),
                            ![Header].applied = durable]
  /\ dirty' = [dirty EXCEPT ![Header] = Unflushable]
  /\ phase' = "reflush"
  /\ UNCHANGED <<journal, main, chain, floors, ckpt, scan, crashes, past>>

\* sync_main_file: what was written is what a power loss leaves.
SyncMainFile ==
  /\ phase = "reflush" /\ FlushEnded
  /\ file' = [p \in Page |-> OnDisk(p)] /\ writes' = <<>>
  /\ phase' = "boundary"
  /\ UNCHANGED <<journal, pool, floors, ckpt, scan, crashes, past>>

AppendBoundary ==
  /\ phase = "boundary"
  /\ log' = Append(log, [kind |-> "boundary", ts |-> ckpt.ts, header |-> frame[Header]])
  /\ phase' = "harden"
  /\ UNCHANGED <<durable, synced, main, pool, floors, ckpt, scan, crashes, past>>

HardenBoundary ==
  /\ phase = "harden"
  /\ EnsureSync
  /\ phase' = "open" /\ ckpt' = NoCkpt
  /\ UNCHANGED <<log, main, pool, floors, scan, crashes, past>>

----------------------------------------------------------------------------
(* Crash and recovery.                                                      *)

\* The death of the process alone takes nothing back.  A power loss keeps a
\* prefix of the unsynced journal (the checksums end the scan at the first
\* record that is not whole) and, of the unsynced page writes, a prefix or,
\* when the system reorders them, any subset.
KeptRecords(kind) == IF kind = "process" THEN {Len(log)} ELSE synced..Len(log)

KeptWrites(kind) ==
  CASE kind = "process" -> {DOMAIN writes}
    [] kind = "power" -> {1..n : n \in 0..Len(writes)}
    [] kind = "reorder" -> SUBSET DOMAIN writes

CommitsAfter(n) == Cardinality({i \in DOMAIN log : i > n /\ IsCommit(log[i])})

Crash(kind) ==
  /\ crashes < MaxCrashes
  /\ phase # "down"
  /\ \E n \in KeptRecords(kind), kept \in KeptWrites(kind) :
       /\ log' = SubSeq(log, 1, n)
       /\ past' = SubSeq(past, 1, Len(past) - CommitsAfter(n))
       /\ IF kind = "process"
          THEN UNCHANGED <<main, synced>>
          ELSE /\ file' = [p \in Page |-> ImageAfter(writes, kept, p)]
               /\ writes' = <<>>
               /\ synced' = n
  /\ crashes' = crashes + 1
  /\ phase' = "down"
  /\ durable' = 0
  /\ frame' = [p \in Page |-> CASE p = Header -> FreshHeader
                                [] p = Catalog -> NoCollections
                                [] OTHER -> EmptyLeaf]
  /\ dirty' = [p \in Page |-> Clean]
  /\ chain' = [p \in Leaf |-> NoVersions]
  /\ clock' = 0 /\ nextSeq' = 0
  /\ ckpt' = NoCkpt /\ scan' = NoScan

\* The records above a header's frontier.
Above(header) == {i \in DOMAIN log : i > header.applied}
OfKind(kind) == {i \in DOMAIN log : log[i].kind = kind}
CommitsAbove(header) == {i \in Above(header) : IsCommit(log[i])}

\* Recovery refuses a journal with a duplicate publish_seq above the frontier,
\* or whose boundaries' checkpoint timestamps regress.
Accepted(header) ==
  /\ \A i, j \in CommitsAbove(header) : log[i].seq = log[j].seq => i = j
  /\ \A i, j \in OfKind("boundary") :
       i < j => log[i].header.ckptTs <= log[j].header.ckptTs

InPublishOrder(records) ==
  SetToSortSeq(records, LAMBDA i, j : log[i].seq < log[j].seq)

\* Faulty variant: the record's pages are written, its header is not.
ReplayCatalogPages(w, i) ==
  FoldSet(LAMBDA p, acc : Write(acc, p, log[i].pages[p]), w, DOMAIN log[i].pages)

\* A CatalogCommit is replayed by writing its pages and its header, whose
\* frontier and timestamp never fall behind the recovered ones.
ReplayCatalog(w, i) ==
  LET r == log[i]
      recovered == Read(w, Header)
      header == [r.header EXCEPT !.ckptTs = Max({@, recovered.ckptTs}),
                                 !.applied = Max({@, recovered.applied})]
      pages == FoldSet(LAMBDA p, acc : Write(acc, p, r.pages[p]), w, DOMAIN r.pages)
  IN Write(pages, Header, header)

\* The journal can be reset when a boundary advanced the frontier and no
\* CrudCommit is in it.
Truncatable(header) ==
  /\ Above(header) \cap OfKind("boundary") # {}
  /\ OfKind("crud") = {}

\* Faulty variant: the frontier is not rewound before a reset.
FinalizeWithoutRewind(w, header) ==
  LET boundaries == Above(header) \cap OfKind("boundary")
  IN IF boundaries = {} THEN w
     ELSE Write(w, Header, log[Max(boundaries)].header)

\* The latest boundary's header becomes page 0; a journal about to be reset
\* rewinds the frontier.
FinalizeHeader(w, header) ==
  LET boundaries == Above(header) \cap OfKind("boundary")
      recovered == Read(w, Header)
      latest == log[Max(boundaries)].header
  IN IF boundaries = {} THEN w
     ELSE Write(w, Header,
                [latest EXCEPT
                   !.ckptTs = Max({@, recovered.ckptTs}),
                   !.applied = IF Truncatable(header) THEN 0
                               ELSE Max({@, recovered.applied})])

\* Faulty variant: only the commits above the frontier count.
RecoveredCommitTs(header) == Max({0} \cup {log[i].ts : i \in CommitsAbove(header)})

\* The oracle's floor: the checkpoint timestamps of the header and of every
\* boundary, and the commits above the frontier.
RecoveredTs(header) ==
  Max({header.ckptTs}
      \cup {log[i].header.ckptTs : i \in OfKind("boundary")}
      \cup {log[i].ts : i \in CommitsAbove(header)})

\* scan_log_records: replay the catalog records, keep the document records for
\* the engine to replay, and find the timestamp and publish_seq floors.
Replay ==
  LET header == OnDisk(Header)
      commits == CommitsAbove(header)
      crud == {i \in commits \cap OfKind("crud") :
                 ~ \E j \in commits \cap OfKind("crud") :
                     log[j].seq < log[i].seq /\ log[j].ts = log[i].ts}
      replayed == FoldLeft(ReplayCatalog, writes,
                           InPublishOrder(commits \cap OfKind("catalog")))
  IN /\ phase = "down"
     /\ Accepted(header)
     /\ writes' = FinalizeHeader(replayed, header)
     /\ scan' = [frames |-> [n \in 1..Cardinality(crud) |-> log[InPublishOrder(crud)[n]]],
                 ts |-> RecoveredTs(header),
                 seq |-> Max({0} \cup {log[i].seq : i \in commits})]
     /\ phase' = IF Truncatable(header) THEN "resync" ELSE "opening"
     /\ UNCHANGED <<journal, file, pool, floors, ckpt, crashes, past>>

\* The main file is synced before the journal's only copy of it is destroyed.
SyncReplayed ==
  /\ phase = "resync"
  /\ file' = [p \in Page |-> OnDisk(p)] /\ writes' = <<>>
  /\ phase' = "reset"
  /\ UNCHANGED <<journal, pool, floors, ckpt, scan, crashes, past>>

\* Faulty variant: the synced length is left behind.
ResetRecords ==
  /\ phase = "reset"
  /\ log' = <<>>
  /\ phase' = "opening"
  /\ UNCHANGED <<durable, synced, main, pool, floors, ckpt, scan, crashes, past>>

ResetJournal ==
  /\ phase = "reset"
  /\ log' = <<>> /\ synced' = 0
  /\ phase' = "opening"
  /\ UNCHANGED <<durable, main, pool, floors, ckpt, scan, crashes, past>>

\* A document record is replayed as a committed chain head on the leaf its key
\* routes to; one whose collection is gone is skipped.
ReplayFrame(heads, r) ==
  LET catalog == OnDisk(Catalog)
      owners == {c \in DOMAIN catalog : catalog[c].id = r.id}
      leaf == catalog[CHOOSE c \in owners : TRUE].route[r.key]
  IN IF owners = {} THEN heads
     ELSE [heads EXCEPT ![leaf] = [j \in DOMAIN @ \cup {r.key} |->
                                     IF j = r.key THEN r.value ELSE @[j]]]

\* The rest of open: the header, the catalog and the chains come from the
\* recovered file and records, the oracle and the sequencer from their floors,
\* and LogManager takes the whole surviving journal for durable.
OpenEngine ==
  /\ phase = "opening"
  /\ durable' = Len(log)
  /\ frame' = [p \in Page |-> OnDisk(p)]
  /\ chain' = FoldLeft(ReplayFrame, chain, scan.frames)
  /\ clock' = scan.ts
  /\ nextSeq' = scan.seq + 1
  /\ scan' = NoScan
  /\ phase' = "open"
  /\ UNCHANGED <<log, synced, main, dirty, ckpt, crashes, past>>

----------------------------------------------------------------------------
Next ==
  \/ \E c \in DOMAIN frame[Catalog], k \in Keys : Put(c, k) \/ Delete(c, k)
  \/ \E c \in Collections : Create(c)
  \/ \E c \in DOMAIN frame[Catalog] : Drop(c)
  \/ Sync
  \/ \E p \in Page : Evict(p) \/ FlushPage(p)
  \/ \E left \in SUBSET Chained : \E split \in SplitPlans(Chained \ left) :
       Materialize(left, split)
  \/ LeaveTail \/ AdvanceFrontier \/ SyncMainFile \/ AppendBoundary \/ HardenBoundary
  \/ \E kind \in CrashKinds : Crash(kind)
  \/ Replay \/ SyncReplayed \/ ResetJournal \/ OpenEngine

Spec == Init /\ [][Next]_vars

----------------------------------------------------------------------------
(* Properties.                                                              *)

Entry == [id : Nat, route : [Keys -> Leaf]]
LeafImage == [Keys -> Nat]
HeaderImage == [applied : 0..MaxLog, ckptTs : Nat, nextId : Nat, pages : 2..(MaxPage + 1)]
PartialFunction(f, D, R) == DOMAIN f \subseteq D /\ f \in [DOMAIN f -> R]
IsImage(p, image) ==
  CASE p = Header -> image \in HeaderImage
    [] p = Catalog -> PartialFunction(image, Collections, Entry)
    [] OTHER -> image \in LeafImage

\* Every page holds an image of its kind, in the pool and on disk, and the
\* durable prefix never passes the end of the journal.
TypeOK ==
  /\ Len(log) <= MaxLog
  /\ durable \in 0..Len(log) /\ synced \in 0..Len(log)
  /\ \A p \in Page :
       /\ IsImage(p, frame[p])
       /\ IsImage(p, file[p])
       /\ dirty[p] \in Clean..Unflushable
  /\ \A i \in DOMAIN writes : IsImage(writes[i].page, writes[i].image)
  /\ \A p \in Leaf : PartialFunction(chain[p], Keys, Nat)
  /\ clock \in Nat /\ nextSeq \in Nat
  /\ phase \in {"open"} \cup CheckpointPhases \cup RecoveryPhases
  /\ crashes \in 0..MaxCrashes
  /\ past # <<>>

\* What the engine promises (DurableStore): the commits whose record is synced
\* survive any crash, and an open engine, before and after a crash and during
\* a checkpoint, shows exactly the newest commit that was kept.
Promise == INSTANCE DurableStore WITH
  commits <- past,
  safe <- Len(past) - CommitsAfter(synced),
  up <- Up,
  seen <- IF Up THEN Visible ELSE NoCollections

ImplementsDurableStore == Promise!Spec

\* The headers a power loss may leave on page 0.
HeadersLeft ==
  {file[Header]} \cup {writes[i].image : i \in {j \in DOMAIN writes : writes[j].page = Header}}

\* Whatever a power loss leaves of page 0, the frontier it names lies inside
\* the synced journal: a record appended later is never taken for one the main
\* file already holds.
FrontierCovered == \A header \in HeadersLeft : header.applied <= synced

\* Recovery accepts whatever a crash leaves: no two commits above the frontier
\* share a publish_seq and no boundary's timestamp regresses.
RecoveryAccepts == phase = "down" => Accepted(OnDisk(Header))

\* An open engine shows the newest commit the crash kept.
NewestVisible == Up => Visible = Last(past)

\* In an open engine every collection's id and leaves are its own, and the
\* header's counters lie above them, so the next create_namespace or split
\* takes an id and a page nobody uses.
FreshAllocations ==
  Up => LET catalog == frame[Catalog]
        IN \A c \in DOMAIN catalog :
             /\ catalog[c].id < frame[Header].nextId
             /\ \A k \in Keys : catalog[c].route[k] < frame[Header].pages
             /\ \A d \in DOMAIN catalog \ {c} :
                  /\ catalog[d].id # catalog[c].id
                  /\ \A j, k \in Keys : catalog[d].route[j] # catalog[c].route[k]

\* In an open engine the oracle is past every version it can meet, in a page,
\* in a chain or in the journal, so the next commit's timestamp is new.
ClockAhead ==
  Up => /\ \A i \in DOMAIN log : IsCommit(log[i]) => log[i].ts <= clock
        /\ \A p \in Leaf, k \in Keys : Folded(p)[k] <= clock
=============================================================================
