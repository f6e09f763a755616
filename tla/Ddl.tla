-------------------------------- MODULE Ddl --------------------------------
(***************************************************************************)
(* Namespace and index DDL of the paged engine beside ordinary writes: the *)
(* live catalog and the published epoch, creating and dropping a           *)
(* namespace, the reserve / build / commit / cleanup phases of             *)
(* create_index with writers that dual-write to the Building index,        *)
(* drop_index, the TTL sweep, and reopening with an unfinished build.      *)
(*                                                                         *)
(* One namespace name and one index name stand for all: what matters is    *)
(* that a name can be dropped and created again under a new durable id.    *)
(* The index is ascending on one field, so the key of document d with      *)
(* value v is <<v, d>>.  Its tree is the leaf "L" given at reservation,    *)
(* which a build may split once, into "L" and "R" under a new root.  Pages *)
(* have no numbers here: what a build reads from and writes to the pages   *)
(* of an index dropped under it is a choice among what they may be by then.*)
(*                                                                         *)
(* CRUD holds metadata.read() from its envelope's entry to its publish,    *)
(* DDL holds metadata.write() from its first check to its last, so a DDL   *)
(* operation is one step whose guard is that no writer is inside.  The     *)
(* build phase holds neither, and is split at every point where the code   *)
(* releases what it read.  Journal, publish ordering and page lifetime are *)
(* the LogManager, PublishSequencer and PageLifetime modules.              *)
(***************************************************************************)
EXTENDS Integers, FiniteSets

CONSTANTS
  Docs,         \* document ids
  Values,       \* values of the indexed field, positive integers
  Expired,      \* the values a TTL sweep finds past their cutoff
  Writers,      \* threads that run CRUD operations
  Unique,       \* whether the index is unique
  LeafCap,      \* how many cells fit in a leaf of the index
  Builders,     \* threads that run create_index
  MaxWrites,    \* bound on committed writes
  MaxDdl        \* bound on DDL operations

ASSUME DdlAssumption ==
  /\ Values \subseteq (Int \ {0}) /\ Expired \subseteq Values
  /\ Unique \in BOOLEAN /\ IsFiniteSet(Writers)
  /\ {LeafCap, MaxWrites, MaxDdl} \subseteq Nat

VARIABLES
  cat,     \* the live catalog, behind its mutex: ns id and index entry
  pub,     \* the published epoch: ns id, index entry and visible timestamp
  next,    \* next durable namespace and index id
  prim,    \* versions of primary keys of the namespace's current incarnation
  tree,    \* the index's tree: cells, chains, and the journal's index writes
  wr,      \* the CRUD threads
  bld,     \* the threads inside create_index
  torn,    \* an index record was refused after the live catalog changed, or
           \* a build changed pages that are no longer its index's
  ddls     \* DDL operations and reopenings so far

vars == <<cat, pub, next, prim, tree, wr, bld, torn, ddls>>

NoIndex == [id |-> 0, st |-> "None", root |-> "leaf"]
NoTree == [L |-> {}, R |-> {}, sep |-> <<0, 0>>, node |-> FALSE, ch |-> {}, log |-> {}]
Idle == [pc |-> "idle", d |-> 0, v |-> 0, old |-> 0, exp |-> 0,
         from |-> 0, ts |-> 0, sec |-> {}, pages |-> {}]
NoBuild == [pc |-> "idle", ns |-> 0, ix |-> 0, col |-> 0, ent |-> 0, root |-> "leaf",
            ts |-> 0, L |-> {}, R |-> {}, sep |-> <<0, 0>>]

Less(j, k) == j[1] < k[1] \/ (j[1] = k[1] /\ j[2] < k[2])

(***************************************************************************)
(* Reading                                                                 *)
(***************************************************************************)

\* The newest of a set of versions.
Newest(vs) == CHOOSE x \in vs : \A y \in vs : y.ts <= x.ts

\* What a view at ts reads for document d; 0 is absent.
Visible(d, ts) ==
  LET vs == {x \in prim : x.d = d /\ x.c /\ x.ts <= ts}
  IN IF vs = {} THEN 0 ELSE Newest(vs).v

\* The live head of a primary key's chain, committed or pending.
Heads(d) == LET vs == {x \in prim : x.d = d}
            IN IF vs = {} THEN {} ELSE {Newest(vs)}

\* The leaf a descent from `root` reaches for key k.
Leaf(root, k) == IF root = "leaf" \/ Less(k, tree.sep) THEN "L" ELSE "R"

\* A descent from the new root reads a page no batch has applied yet.
Readable(root) == root = "leaf" \/ tree.node

CellsOf(pg) == IF pg = "L" THEN tree.L ELSE tree.R

\* The keys a view at ts finds in the index: the chain's newest committed
\* version decides, and the base cell where the chain has none.
IndexKeysAt(root, ts) ==
  LET at(k) == {x \in tree.ch : x.k = k /\ x.pg = Leaf(root, k) /\ x.c /\ x.ts <= ts}
  IN {k \in Values \X Docs :
        IF at(k) = {} THEN k \in CellsOf(Leaf(root, k)) ELSE Newest(at(k)).live}

\* check_unique_constraint_mvcc: another document holds the value.
UniqueViolated(ix, k, ts, dels) ==
  Unique /\ \E j \in IndexKeysAt(ix.root, ts) \ dels : j[1] = k[1] /\ j[2] # k[2]

(***************************************************************************)
(* Ordinary writes                                                         *)
(***************************************************************************)
Clock == pub.ts + Cardinality({w \in Writers : wr[w].pc = "installed"})
Inside == {w \in Writers : wr[w].pc \in {"staged", "installed"}}
SetW(w, r) == wr' = [wr EXCEPT ![w] = r]
WritesOnly == UNCHANGED <<cat, next, bld, torn, ddls>>

\* A write that changes a document chooses it in a view of its own, before the
\* envelope, with the head it expects to replace (collect_mutation_candidates).
Select(w, d, v) ==
  LET old == Visible(d, pub.ts)
  IN /\ pub.ns # 0 /\ old # 0
     /\ \A h \in Heads(d) : h.c /\ h.v = old
     /\ SetW(w, [Idle EXCEPT !.pc = "selected", !.d = d, !.v = v, !.old = old,
                 !.from = pub.ns, !.exp = Newest(Heads(d)).ts])

IsIdle(w) == wr[w].pc = "idle" /\ WritesOnly /\ UNCHANGED <<pub, prim, tree>>

Update(w) == IsIdle(w) /\ \E d \in Docs, v \in Values : Select(w, d, v)
Delete(w) == IsIdle(w) /\ \E d \in Docs : Select(w, d, 0)
FindOneAndUpdate(w) == IsIdle(w) /\ \E d \in Docs, v \in Values : Select(w, d, v)
FindOneAndDelete(w) == IsIdle(w) /\ \E d \in Docs : Select(w, d, 0)
FindOneAndReplace(w) == IsIdle(w) /\ \E d \in Docs, v \in Values : Select(w, d, v)
ReplaceOne(w) == IsIdle(w) /\ \E d \in Docs, v \in Values : Select(w, d, v)

\* The upsert forms insert when their view matched nothing, in an envelope
\* entered later.
Upsert(w) ==
  \E d \in Docs, v \in Values :
    /\ IsIdle(w) /\ Visible(d, pub.ts) = 0
    /\ SetW(w, [Idle EXCEPT !.pc = "upserting", !.d = d, !.v = v])

\* sweep_one_ttl_index finds the expired documents in one view, and deletes
\* them by _id alone: the delete selects again, in a view of its own.
SweepScan(w) ==
  \E d \in Docs :
    /\ IsIdle(w) /\ pub.ns # 0 /\ pub.ix.st = "Ready"
    /\ Visible(d, pub.ts) \in Expired
    /\ SetW(w, [Idle EXCEPT !.pc = "swept", !.d = d])

SweepDelete(w) ==
  /\ wr[w].pc = "swept"
  /\ \/ Select(w, wr[w].d, 0)
     \/ (pub.ns = 0 \/ Visible(wr[w].d, pub.ts) = 0) /\ SetW(w, Idle)
  /\ WritesOnly /\ UNCHANGED <<pub, prim, tree>>

\* Faulty variant: a Building index is not maintained.
SecWritesReadyOnly(ix, d, old, v) ==
  IF ix.st # "Ready" \/ old = v THEN {}
  ELSE {[k |-> <<x, d>>, live |-> FALSE, root |-> ix.root] : x \in {old} \ {0}}
       \cup {[k |-> <<x, d>>, live |-> TRUE, root |-> ix.root] : x \in {v} \ {0}}

\* What a write stages for the index: maintain_secondary_on_insert_snapshot
\* takes the published entry, the update and delete forms the live one.  An
\* update that leaves the key alone stages nothing.
SecWrites(ix, d, old, v) ==
  IF ix.id = 0 \/ old = v THEN {}
  ELSE {[k |-> <<x, d>>, live |-> FALSE, root |-> ix.root] : x \in {old} \ {0}}
       \cup {[k |-> <<x, d>>, live |-> TRUE, root |-> ix.root] : x \in {v} \ {0}}

\* run_write_commit_envelope to the end of the body: the namespace is looked
\* up again by name.  A refused write leaves nothing behind.
Refuse(w) == SetW(w, Idle) /\ WritesOnly /\ UNCHANGED <<pub, prim, tree>>

StageUpdate(w) ==
  /\ wr[w].pc = "selected"
  /\ LET t == wr[w]
         sec == SecWrites(cat.ix, t.d, t.old, t.v)
     IN IF \/ pub.ns = 0
           \/ t.v # 0 /\ cat.ix.id # 0
              /\ UniqueViolated(cat.ix, <<t.v, t.d>>, pub.ts, {s.k : s \in {x \in sec : ~x.live}})
        THEN Refuse(w)
        ELSE /\ SetW(w, [t EXCEPT !.pc = "staged", !.sec = sec])
             /\ WritesOnly /\ UNCHANGED <<pub, prim, tree>>

\* stage_insert, in the envelope run_write enters for an insert or an upsert.
StageInsert(w) ==
  \E d \in Docs, v \in Values :
    /\ wr[w].pc = "idle" \/ (wr[w].pc = "upserting" /\ d = wr[w].d /\ v = wr[w].v)
    /\ pub.ns # 0
    /\ IF Visible(d, pub.ts) # 0 \/ (pub.ix.id # 0 /\ UniqueViolated(pub.ix, <<v, d>>, pub.ts, {}))
       THEN Refuse(w)
       ELSE /\ SetW(w, [Idle EXCEPT !.pc = "staged", !.d = d, !.v = v,
                        !.from = pub.ns, !.sec = SecWrites(pub.ix, d, 0, v)])
            /\ WritesOnly /\ UNCHANGED <<pub, prim, tree>>

\* classify_delta_install on the primary chain.
InstallOk(t) ==
  \A h \in Heads(t.d) :
    IF t.exp # 0 THEN h.c /\ h.ts = t.exp /\ h.v # 0 ELSE h.c /\ h.v = 0

\* leaf_unique_prefix_sibling_pages: the leaf, and its neighbour where the
\* value's range may reach into it.
PrefixPages(root, pg, v) ==
  {pg} \cup (IF root = "leaf" THEN {}
             ELSE IF pg = "R" THEN {q \in {"L"} : \A k \in tree.R : v <= k[1]}
             ELSE {q \in {"R"} : \A k \in tree.L : k[1] <= v})

\* check_unique_prefix_install: another document has a head or a cell with the
\* value on the latched leaves.  A head counts until it is aborted, a deleted
\* entry's tombstone included, and a cell counts under its tombstone too.
PrefixTaken(s) ==
  /\ Unique /\ s.live
  /\ LET pages == PrefixPages(s.root, Leaf(s.root, s.k), s.k[1])
         other(k) == k[1] = s.k[1] /\ k[2] # s.k[2]
     IN \/ \E x \in tree.ch : x.pg \in pages /\ other(x.k)
        \/ \E pg \in pages : \E k \in CellsOf(pg) : other(k)

\* install_pending_sec_index, then install_pending_primary, under one commit
\* timestamp; a conflict flips what was installed to aborted.
Install(w) ==
  /\ wr[w].pc = "staged" /\ Clock < MaxWrites
  /\ LET t == wr[w]
         ts == Clock + 1
     IN IF \/ ~InstallOk(t)
           \/ \E s \in t.sec : ~Readable(s.root) \/ PrefixTaken(s)
           \/ t.sec # {} /\ pub.ix.id = 0
        THEN Refuse(w)
        ELSE /\ prim' = prim \cup {[d |-> t.d, ts |-> ts, v |-> t.v, c |-> FALSE,
                                    from |-> t.from]}
             /\ tree' = [tree EXCEPT !.ch = @ \cup
                           {[pg |-> Leaf(s.root, s.k), k |-> s.k, ts |-> ts,
                             live |-> s.live, c |-> FALSE] : s \in t.sec}]
             /\ SetW(w, [t EXCEPT !.pc = "installed", !.ts = ts,
                         !.pages = {Leaf(s.root, s.k) : s \in t.sec}])
             /\ WritesOnly /\ UNCHANGED pub

\* The flip visits the pages recorded at installation, then the slot is
\* published in timestamp order.
Publish(w) ==
  /\ wr[w].pc = "installed"
  /\ \A u \in Inside : wr[u].pc = "installed" => wr[w].ts <= wr[u].ts
  /\ LET t == wr[w]
     IN /\ prim' = {IF x.ts = t.ts THEN [x EXCEPT !.c = TRUE] ELSE x : x \in prim}
        /\ tree' = [tree EXCEPT
             !.ch = {IF x.ts = t.ts /\ x.pg \in t.pages THEN [x EXCEPT !.c = TRUE] ELSE x : x \in @},
             !.log = @ \cup {[k |-> s.k, ts |-> t.ts, live |-> s.live] : s \in t.sec}]
        /\ pub' = [pub EXCEPT !.ts = t.ts]
  /\ SetW(w, Idle) /\ WritesOnly

(***************************************************************************)
(* DDL under metadata.write()                                              *)
(***************************************************************************)
Ddl == Inside = {} /\ ddls < MaxDdl /\ ddls' = ddls + 1

\* The catalog's operations on its entries.
NoCollection == [ns |-> 0, ix |-> NoIndex]
CreateCollection(id) == [ns |-> id, ix |-> NoIndex]
CreateIndexEntry(c, id) == [c EXCEPT !.ix = [id |-> id, st |-> "Building", root |-> "leaf"]]
DropIndexEntry(c) == [c EXCEPT !.ix = NoIndex]
SetIndexState(c, st) == [c EXCEPT !.ix.st = st]
SetIndexRoot(c, root) == [c EXCEPT !.ix.root = root]
PublishedCatalog(c, ts) == [ns |-> c.ns, ix |-> c.ix, ts |-> ts]

\* The envelope's two ends: rebuild_and_publish from the live catalog, or the
\* log's refusal, which publishes nothing and leaves the undo to the caller.
CommitCatalog(c) == cat' = c /\ pub' = PublishedCatalog(c, pub.ts) /\ torn' = torn
RefuseCatalog(c) == cat' = c /\ pub' = pub

\* The undo of a refused namespace creation drops the collection again; its
\* durable id stays used.
CreateNamespace ==
  /\ Ddl /\ cat.ns = 0
  /\ \/ CommitCatalog(CreateCollection(next.ns))
     \/ RefuseCatalog(NoCollection) /\ torn' = torn
  /\ next' = [next EXCEPT !.ns = @ + 1]
  /\ UNCHANGED <<prim, tree, wr, bld>>

\* Faulty variant: the undo of a refused drop restores the collection alone.
RestoreDroppedNoIndexes(c) == [ns |-> c.ns, ix |-> NoIndex]

\* restore_dropped_namespace_catalog puts the captured entries back.
RestoreDropped(c) == [ns |-> c.ns, ix |-> c.ix]

DropNamespace ==
  /\ Ddl /\ cat.ns # 0
  /\ \/ CommitCatalog(NoCollection) /\ prim' = {} /\ tree' = NoTree
     \/ RefuseCatalog(RestoreDropped(cat)) /\ UNCHANGED <<prim, tree, torn>>
  /\ UNCHANGED <<next, wr, bld>>

\* DDL on some other name publishes this one's live entries too.
OtherDdl == Ddl /\ CommitCatalog(cat) /\ UNCHANGED <<next, prim, tree, wr, bld>>

\* drop_index frees the tree and its chains.  Its undo is empty: a refused
\* record leaves the entry removed from the live catalog only.
DropIndex ==
  /\ Ddl /\ cat.ix.id # 0
  /\ LET c == DropIndexEntry(cat)
     IN \/ CommitCatalog(c) /\ tree' = NoTree
        \/ RefuseCatalog(c) /\ torn' = TRUE /\ UNCHANGED tree
  /\ UNCHANGED <<next, prim, wr, bld>>

(***************************************************************************)
(* create_index: reserve, build, then commit or clean up                   *)
(***************************************************************************)
SetB(b, r) == bld' = [bld EXCEPT ![b] = r]
At(b, pc) == [bld[b] EXCEPT !.pc = pc]
BuildOnly == UNCHANGED <<pub, next, prim, wr, ddls>>

\* create_index_reserve creates a missing collection in the same record.  Its
\* undo is empty.
CreateIndexReserve(b) ==
  /\ Ddl /\ bld[b].pc = "idle" /\ cat.ix.id = 0
  /\ LET new == cat.ns = 0
         ns == IF new THEN next.ns ELSE cat.ns
         c == CreateIndexEntry(IF new THEN CreateCollection(ns) ELSE cat, next.ix)
     IN /\ next' = [ns |-> IF new THEN ns + 1 ELSE next.ns, ix |-> next.ix + 1]
        /\ \/ /\ CommitCatalog(c) /\ tree' = NoTree
              /\ SetB(b, [NoBuild EXCEPT !.pc = "reserved", !.ns = ns, !.ix = next.ix])
           \/ RefuseCatalog(c) /\ torn' = TRUE /\ UNCHANGED <<tree, bld>>
  /\ UNCHANGED <<prim, wr>>

\* The build reads whatever entries have the names now, under metadata.read().
BuildOpen(b) ==
  /\ bld[b].pc = "reserved"
  /\ IF cat.ix.id # 0
     THEN SetB(b, [At(b, "opened") EXCEPT !.col = cat.ns, !.ent = cat.ix.id, !.root = cat.ix.root])
     ELSE SetB(b, At(b, "failed"))
  /\ BuildOnly /\ UNCHANGED <<cat, tree, torn>>

\* The entries are still the ones that were read, whoever reserved them.
SameTarget(b) == cat.ns = bld[b].col /\ cat.ix.id = bld[b].ent /\ cat.ix.st = "Building"

\* They are looked up once more, under metadata.read() again.  A stale target
\* ends create_index without cleanup.
BuildCheck(b) ==
  /\ bld[b].pc = "opened"
  /\ SetB(b, IF SameTarget(b) THEN At(b, "checked") ELSE NoBuild)
  /\ BuildOnly /\ UNCHANGED <<cat, tree, torn>>

BuildView(b) ==
  /\ bld[b].pc = "checked"
  /\ SetB(b, [At(b, "viewed") EXCEPT !.ts = pub.ts])
  /\ BuildOnly /\ UNCHANGED <<cat, tree, torn>>

\* Pending and committed chains of dual-writers that lie above a separator
\* move with the upper half of a split leaf.
MigrateChains(sep) ==
  [tree EXCEPT !.sep = sep,
     !.ch = {IF Less(x.k, sep) THEN x ELSE [x EXCEPT !.pg = "R"] : x \in @}]

\* Aborting a batch does not move them back: they go with its pages.
LoseChains(sep) == [tree EXCEPT !.sep = sep, !.ch = {x \in @ : Less(x.k, sep)}]

KeysAt(ts) == {<<Visible(d, ts), d>> : d \in {e \in Docs : Visible(e, ts) # 0}}
Duplicates(keys) == Unique /\ \E j, k \in keys : j # k /\ j[1] = k[1]

\* The cells of the tree, and whether keys can all be inserted beside them:
\* the unique check of a build reads base cells only, and a key that is there
\* already is a duplicate.
BaseCells(root) == tree.L \cup (IF root = "node" THEN tree.R ELSE {})
Insertable(root, keys) ==
  Readable(root) /\ keys \cap BaseCells(root) = {} /\ ~Duplicates(BaseCells(root) \cup keys)
FitsLeaf(root, keys) == root = "node" \/ Cardinality(BaseCells(root) \cup keys) <= LeafCap

\* What the batch writes to a leaf: its cells and the new ones; {} is a leaf
\* that no key was inserted into, and that is not written.
Image(root, pg, keys) ==
  LET new == {k \in keys : Leaf(root, k) = pg}
  IN IF new = {} THEN {} ELSE CellsOf(pg) \cup new

\* The keys go into the leaves, or the one leaf splits; then the build may
\* still fail.
InsertKeys(b, keys) ==
  LET root == bld[b].root
  IN /\ Insertable(root, keys) /\ FitsLeaf(root, keys)
     /\ SetB(b, [At(b, "staged") EXCEPT !.L = Image(root, "L", keys), !.R = Image(root, "R", keys)])
     /\ UNCHANGED tree

SplitLeaf(b, keys) ==
  /\ ~FitsLeaf(bld[b].root, keys)
  /\ \E sep \in Values \X Docs :
       LET cells == BaseCells(bld[b].root) \cup keys
           low == {k \in cells : Less(k, sep)}
       IN /\ sep \in cells /\ low # {}
          /\ \/ /\ Insertable(bld[b].root, keys) /\ tree' = MigrateChains(sep)
                /\ SetB(b, [At(b, "split") EXCEPT !.L = low, !.R = cells \ low, !.sep = sep])
             \/ SetB(b, At(b, "failed")) /\ tree' = LoseChains(sep)

\* Nothing tells a build that its index or its collection was dropped: it goes
\* on with what it finds on their pages, retired, free or in use again, and a
\* split there may take chains of their new owner.
BuildAstray(b) ==
  \/ SetB(b, At(b, "astray")) /\ UNCHANGED <<tree, torn>>
  \/ SetB(b, At(b, "split")) /\ UNCHANGED <<tree, torn>>
  \/ /\ SetB(b, At(b, "split")) /\ torn' = TRUE
     /\ \E sep \in Values \X Docs : tree' = LoseChains(sep)

\* build_index_mvcc: what the view sees goes into base cells of the batch.
\* Opening the view, a page read or a duplicate key may fail it.
BuildIndexMvcc(b) ==
  /\ bld[b].pc = "viewed"
  /\ \/ SetB(b, At(b, "failed")) /\ UNCHANGED <<tree, torn>>
     \/ /\ cat.ix.id = bld[b].ent /\ torn' = torn
        /\ InsertKeys(b, KeysAt(bld[b].ts)) \/ SplitLeaf(b, KeysAt(bld[b].ts))
     \/ cat.ix.id # bld[b].ent /\ BuildAstray(b)
  /\ BuildOnly /\ UNCHANGED cat

\* A changed root goes into the live catalog, if the entries are still the
\* ones that were read; a stale target aborts the batch and ends create_index
\* without cleanup.
BuildCatalogUpdate(b) ==
  /\ bld[b].pc = "split"
  /\ IF SameTarget(b)
     THEN cat' = SetIndexRoot(cat, "node") /\ SetB(b, At(b, "staged")) /\ UNCHANGED tree
     ELSE /\ SetB(b, NoBuild) /\ UNCHANGED cat
          /\ tree' = IF cat.ix.id = bld[b].ent THEN [tree EXCEPT !.ch = {x \in @ : x.pg = "L"}] ELSE tree
  /\ BuildOnly /\ torn' = torn

Landed(b) ==
  [tree EXCEPT !.L = IF bld[b].L = {} THEN @ ELSE bld[b].L,
               !.R = IF bld[b].R = {} THEN @ ELSE bld[b].R,
               !.node = @ \/ bld[b].R # {}]

\* The images are written by page number, without another look at the entry.
\* Those of a dropped index land on pages that are still retired, or free, or
\* in use again, by the index reserved since among others.
ApplyBatch(b) ==
  \/ cat.ix.id = bld[b].ent /\ tree' = Landed(b) /\ torn' = torn
  \/ cat.ix.id # bld[b].ent /\ UNCHANGED <<tree, torn>>
  \/ /\ cat.ix.id # bld[b].ent /\ (bld[b].pc = "astray" \/ bld[b].L \cup bld[b].R # {})
     /\ torn' = TRUE
     /\ tree' \in {tree} \cup {[tree EXCEPT !.L = found] : found \in SUBSET (Values \X Docs)}

\* Faulty variant: a build the log refuses is not cleaned up.
BuildCommitToLogNoCleanup(b) ==
  /\ bld[b].pc \in {"staged", "astray"}
  /\ \/ SetB(b, At(b, "built")) /\ ApplyBatch(b)
     \/ SetB(b, NoBuild) /\ UNCHANGED <<tree, torn>>
  /\ BuildOnly /\ UNCHANGED cat

\* commit_catalog_batch_to_log.  A refusal aborts the batch, and takes the
\* chains on the pages it had allocated with it.
BuildCommitToLog(b) ==
  /\ bld[b].pc \in {"staged", "astray"}
  /\ \/ SetB(b, At(b, "built")) /\ ApplyBatch(b)
     \/ /\ SetB(b, At(b, "failed")) /\ torn' = torn
        /\ tree' = IF cat.ix.id = bld[b].ent /\ bld[b].root = "leaf" /\ bld[b].R # {}
                   THEN [tree EXCEPT !.ch = {x \in @ : x.pg = "L"}] ELSE tree
  /\ BuildOnly /\ UNCHANGED cat

\* The entry is still the one this create_index reserved, and unfinished.
StillReserved(b) == cat.ns = bld[b].ns /\ cat.ix.id = bld[b].ix /\ cat.ix.st = "Building"

CreateIndexCommit(b) ==
  /\ bld[b].pc = "built" /\ Inside = {}
  /\ LET c == SetIndexState(cat, "Ready")
     IN \/ StillReserved(b) /\ CommitCatalog(c)
        \/ StillReserved(b) /\ RefuseCatalog(c) /\ torn' = TRUE
        \/ ~StillReserved(b) /\ UNCHANGED <<cat, pub, torn>>
  /\ SetB(b, NoBuild) /\ UNCHANGED <<next, prim, tree, wr, ddls>>

\* create_index_cleanup removes the entry only if it is the one reserved,
\* with the root it was reserved with.
CreateIndexCleanup(b) ==
  /\ bld[b].pc = "failed" /\ Inside = {}
  /\ LET c == DropIndexEntry(cat)
         mine == StillReserved(b) /\ cat.ix.root = "leaf"
     IN \/ mine /\ CommitCatalog(c) /\ tree' = NoTree
        \/ mine /\ RefuseCatalog(c) /\ torn' = TRUE /\ UNCHANGED tree
        \/ ~mine /\ UNCHANGED <<cat, pub, torn, tree>>
  /\ SetB(b, NoBuild) /\ UNCHANGED <<next, prim, wr, ddls>>

(***************************************************************************)
(* Reopening                                                               *)
(***************************************************************************)

\* resume_building_indexes_after_open: an unfinished index is built again in
\* a fresh tree and made Ready, or removed when that build fails.
Resumed(ix, keys) ==
  IF ix.st # "Building" THEN ix
  ELSE IF Duplicates(keys) THEN NoIndex ELSE [ix EXCEPT !.st = "Ready", !.root = "leaf"]

\* The committed writes and the last logged catalog come back from the
\* journal, the chains replayed under the root it names.
Reopen ==
  /\ ddls < MaxDdl /\ ddls' = ddls + 1
  /\ LET keys == KeysAt(pub.ts)
         ix == Resumed(pub.ix, keys)
     IN /\ cat' = [ns |-> pub.ns, ix |-> ix] /\ pub' = [pub EXCEPT !.ix = ix]
        /\ tree' = IF pub.ix.st = "Ready"
                   THEN [tree EXCEPT !.ch = {[pg |-> Leaf(ix.root, x.k), k |-> x.k, ts |-> x.ts,
                                              live |-> x.live, c |-> TRUE] : x \in tree.log}]
                   ELSE [NoTree EXCEPT !.L = IF ix.st = "Ready" THEN keys ELSE {}]
  /\ prim' = {x \in prim : x.c}
  /\ wr' = [w \in Writers |-> Idle] /\ bld' = [b \in Builders |-> NoBuild]
  /\ UNCHANGED <<torn, next>>

(***************************************************************************)
(* Specification                                                           *)
(***************************************************************************)
Init ==
  /\ cat = NoCollection /\ pub = [ns |-> 0, ix |-> NoIndex, ts |-> 0]
  /\ next = [ns |-> 1, ix |-> 1] /\ prim = {} /\ tree = NoTree
  /\ wr = [w \in Writers |-> Idle] /\ bld = [b \in Builders |-> NoBuild]
  /\ torn = FALSE /\ ddls = 0

Builder(b) ==
  \/ CreateIndexReserve(b) \/ BuildOpen(b) \/ BuildCheck(b) \/ BuildView(b) \/ BuildIndexMvcc(b)
  \/ BuildCatalogUpdate(b) \/ BuildCommitToLog(b) \/ CreateIndexCommit(b) \/ CreateIndexCleanup(b)

Writer(w) ==
  \/ Update(w) \/ Delete(w) \/ FindOneAndUpdate(w) \/ FindOneAndDelete(w)
  \/ FindOneAndReplace(w) \/ ReplaceOne(w) \/ Upsert(w) \/ SweepScan(w) \/ SweepDelete(w)
  \/ StageUpdate(w) \/ StageInsert(w) \/ Install(w) \/ Publish(w)

Next ==
  \/ CreateNamespace \/ DropNamespace \/ OtherDdl \/ DropIndex
  \/ Reopen \/ \E b \in Builders : Builder(b)
  \/ \E w \in Writers : Writer(w)

Spec == Init /\ [][Next]_vars

(***************************************************************************)
(* Properties                                                              *)
(***************************************************************************)

\* A Ready index holds exactly the keys of the documents a reader of the
\* published epoch sees: the base cells of its build and the chains of the
\* writers that ran beside it add up to the collection.  It says nothing once
\* an index record was refused, or a build that outlived its index has changed
\* pages the index gave up: both are torn, and both can break it.
ReadyIndexComplete ==
  pub.ix.st = "Ready" /\ ~torn =>
    Readable(pub.ix.root) /\ IndexKeysAt(pub.ix.root, pub.ts) = KeysAt(pub.ts)

\* Every version of a collection's documents was selected from that very
\* incarnation: an update or a delete that chose its document before the
\* collection was dropped and created again does not reach the new one.
NoReattach ==
  \A x \in prim : x.from = pub.ns

\* ReadyIndexComplete for every index whose build fitted the leaf it was
\* reserved with, in a collection no older write was carried over to, whatever
\* was written before, during and after the build, and across drops,
\* recreations, a second create_index that builds into the same entry, refused
\* namespace records and reopening.  A build left over from a dropped index is
\* harmless as long as its batch does not land, or lands on pages nobody uses.
ReadyIndexAgrees ==
  tree.sep = <<0, 0>> /\ NoReattach => ReadyIndexComplete

\* The live catalog, which updates and deletes take their indexes from, and
\* the published one, which inserts and readers take theirs from, name the
\* same collection and the same index in the same state, whatever namespace
\* record the log refused.  Only a build's new root may be ahead; a refused
\* index record, which has no undo, ends the agreement, and so may a build
\* that lands on pages which the catalog has come to own.
CatalogAgrees ==
  ~torn => cat.ns = pub.ns /\ cat.ix.id = pub.ix.id /\ cat.ix.st = pub.ix.st

\* A Building index always has the create_index call that will finish or
\* remove it: no failed build leaves an entry for which every later
\* create_index of that name is refused.  (A refused index record, a build
\* that had changed the root before it failed, and one that lands on pages of
\* the catalog may do.)
NoOrphanBuild ==
  cat.ix.st = "Building" /\ cat.ix.root = "leaf" /\ ~torn =>
    \E b \in Builders : bld[b].pc # "idle" /\ bld[b].ix = cat.ix.id

=============================================================================
