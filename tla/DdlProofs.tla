----------------------------- MODULE DdlProofs -----------------------------
(***************************************************************************)
(* The two catalogs name the same collection and index, a Building index   *)
(* has the create_index that will finish or remove it, and a Ready index   *)
(* that was never split holds the keys of the collection, for any number   *)
(* of writers and builders and any bounds.                                 *)
(*                                                                         *)
(* None is inductive alone.  The catalogs agree after a refused namespace  *)
(* record only because a missing collection has no index.  A builder that  *)
(* gives up leaves no entry behind because durable ids only grow: whatever *)
(* entry it met under the name was its own or a later one.                 *)
(*                                                                         *)
(* For the contents of the index, VersionInv says which versions the       *)
(* writers between two steps rely on, TreeInv that the chains hold exactly *)
(* the index writes of the installed and the published ones, and AgreeInv  *)
(* that there is a timestamp B at which the chains began: every key        *)
(* without a committed entry is held now as at each moment since B, and    *)
(* for each key the cells show what some view since B saw.  Which view     *)
(* does not matter, nor that one view saw it all, so that a builder may    *)
(* read while writers commit, and two builders of the same entry may land  *)
(* one after the other.                                                    *)
(***************************************************************************)
EXTENDS Ddl, FiniteSetTheorems, TLAPS

\* The time the SMT solver may take for a leaf that names no prover.
USE SMTT(60)

IndexEntry == [id : Nat, st : {"None", "Building", "Ready"}, root : {"leaf", "node"}]

\* An entry with an id, and only such an entry, is Building or Ready; a missing
\* collection has none; ids were given out before.
EntryOK(ns, ix) ==
  /\ ns \in Nat /\ ix \in IndexEntry
  /\ ix.id = 0 <=> ix.st = "None"
  /\ ns = 0 => ix.id = 0
  /\ ix.id = 0 => ix.root = "leaf"
  /\ ix.id < next.ix

Entered == {"opened", "checked", "viewed", "split", "staged", "astray", "built"}

\* What a thread inside create_index remembers.
BuildOK(b) ==
  /\ DOMAIN bld[b] = DOMAIN NoBuild
  /\ bld[b].pc \in {"idle", "reserved", "failed"} \cup Entered
  /\ bld[b].ix \in Nat /\ bld[b].ent \in Nat
  /\ bld[b].ix < next.ix /\ bld[b].ent < next.ix
  /\ bld[b].pc # "idle" => bld[b].ix # 0
  /\ bld[b].pc \in Entered => bld[b].ix <= bld[b].ent
  /\ cat.ix.id # 0 => bld[b].ix <= cat.ix.id /\ bld[b].ent <= cat.ix.id
  /\ bld[b].pc # "idle" /\ bld[b].ix = cat.ix.id => bld[b].ns = cat.ns
  /\ bld[b].pc \in Entered /\ bld[b].ent = cat.ix.id => bld[b].col = cat.ns

\* The inductive invariant.
CatalogInv ==
  /\ DOMAIN cat = {"ns", "ix"} /\ DOMAIN pub = {"ns", "ix", "ts"}
  /\ next \in [ns : Nat \ {0}, ix : Nat \ {0}]
  /\ EntryOK(cat.ns, cat.ix) /\ EntryOK(pub.ns, pub.ix)
  /\ DOMAIN bld = Builders
  /\ \A b \in Builders : BuildOK(b)
  /\ CatalogAgrees
  /\ NoOrphanBuild

\* The empty database satisfies the invariant.
LEMMA CatalogInit == Init => CatalogInv
BY DEF Init, CatalogInv, EntryOK, BuildOK, CatalogAgrees, NoOrphanBuild, IndexEntry,
       NoCollection, NoIndex, NoBuild, Entered

\* CRUD operations leave both catalogs and the builders alone.
LEMMA WriterKeeps ==
  ASSUME CatalogInv, NEW w \in Writers, Writer(w)
  PROVE  CatalogInv'
<1>1. UNCHANGED <<cat, next, bld, torn>>
  BY Zenon DEF Writer, Update, Delete, FindOneAndUpdate, FindOneAndDelete, FindOneAndReplace,
         ReplaceOne, Upsert, SweepScan, SweepDelete, StageUpdate, StageInsert, Install, Publish,
         IsIdle, Refuse, WritesOnly
<1>2. pub' = pub \/ \E t : pub' = [pub EXCEPT !.ts = t]
  BY Zenon DEF Writer, Update, Delete, FindOneAndUpdate, FindOneAndDelete, FindOneAndReplace,
         ReplaceOne, Upsert, SweepScan, SweepDelete, StageUpdate, StageInsert, Install, Publish,
         IsIdle, Refuse, WritesOnly
<1>3. pub'.ns = pub.ns /\ pub'.ix = pub.ix /\ DOMAIN pub' = DOMAIN pub
  BY <1>2, Zenon DEF CatalogInv
<1> QED BY <1>1, <1>3 DEF CatalogInv, EntryOK, BuildOK, CatalogAgrees, NoOrphanBuild

\* A namespace creation, a drop or DDL on another name keeps the invariant,
\* recorded or refused.
LEMMA NamespaceKeeps ==
  ASSUME CatalogInv, CreateNamespace \/ DropNamespace \/ OtherDdl
  PROVE  CatalogInv'
<1> USE DEF CatalogInv, EntryOK, BuildOK, CatalogAgrees, NoOrphanBuild, IndexEntry, NoIndex,
            NoBuild, Entered, CommitCatalog, RefuseCatalog, PublishedCatalog
<1>1. CASE CreateNamespace
  BY <1>1 DEF CreateNamespace, CreateCollection, NoCollection
<1>2. CASE DropNamespace
  BY <1>2 DEF DropNamespace, RestoreDropped, NoCollection
<1>3. CASE OtherDdl
  BY <1>3 DEF OtherDdl
<1> QED BY <1>1, <1>2, <1>3, Zenon

\* drop_index keeps the invariant; a refusal sets torn.
LEMMA DropIndexKeeps ==
  ASSUME CatalogInv, DropIndex
  PROVE  CatalogInv'
BY DEF CatalogInv, EntryOK, BuildOK, CatalogAgrees, NoOrphanBuild, IndexEntry, NoIndex,
       NoBuild, Entered, CommitCatalog, RefuseCatalog, PublishedCatalog, DropIndex, DropIndexEntry

\* After a reopening no index is Building and no builder is left.
LEMMA ReopenKeeps ==
  ASSUME CatalogInv, Reopen
  PROVE  CatalogInv'
<1>1. PICK ix : /\ cat' = [ns |-> pub.ns, ix |-> ix] /\ pub' = [pub EXCEPT !.ix = ix]
                /\ ix = Resumed(pub.ix, KeysAt(pub.ts))
  BY Zenon DEF Reopen
<1>2. EntryOK(pub.ns, ix) /\ ix.st # "Building"
  <2>1. CASE pub.ix.st # "Building"
    BY <1>1, <2>1, Zenon DEF CatalogInv, EntryOK, Resumed
  <2>2. CASE pub.ix.st = "Building" /\ Duplicates(KeysAt(pub.ts))
    BY <1>1, <2>2 DEF CatalogInv, EntryOK, Resumed, IndexEntry, NoIndex
  <2>3. CASE pub.ix.st = "Building" /\ ~Duplicates(KeysAt(pub.ts))
    <3>1. ix = [pub.ix EXCEPT !.st = "Ready", !.root = "leaf"]
      BY <1>1, <2>3, Zenon DEF Resumed
    <3> QED BY <2>3, <3>1, Zenon DEF CatalogInv, EntryOK, IndexEntry
  <2> QED BY <2>1, <2>2, <2>3, Zenon
<1>3. bld' = [b \in Builders |-> NoBuild] /\ UNCHANGED <<torn, next>>
  BY Zenon DEF Reopen
<1>4. /\ DOMAIN cat' = {"ns", "ix"} /\ DOMAIN pub' = {"ns", "ix", "ts"}
      /\ cat'.ns = pub.ns /\ cat'.ix = ix /\ pub'.ns = pub.ns /\ pub'.ix = ix
  BY <1>1, Zenon DEF CatalogInv
<1>5. EntryOK(cat.ns, cat.ix)' /\ EntryOK(pub.ns, pub.ix)' /\ CatalogAgrees' /\ NoOrphanBuild'
  BY <1>2, <1>3, <1>4 DEF EntryOK, CatalogAgrees, NoOrphanBuild
<1>6. \A b \in Builders : BuildOK(b)'
  BY <1>2, <1>3, <1>4 DEF CatalogInv, EntryOK, IndexEntry, BuildOK, NoBuild, Entered
<1> QED BY <1>3, <1>4, <1>5, <1>6, Zenon DEF CatalogInv

\* A step of create_index keeps the invariant.
LEMMA BuilderKeeps ==
  ASSUME CatalogInv, NEW b \in Builders, Builder(b)
  PROVE  CatalogInv'
<1> USE DEF CatalogInv, EntryOK, BuildOK, CatalogAgrees, NoOrphanBuild, IndexEntry, NoIndex,
            NoBuild, Entered, CommitCatalog, RefuseCatalog, PublishedCatalog, SetB, At, BuildOnly
<1>1. CASE CreateIndexReserve(b)
  <2>1. /\ cat'.ix = [id |-> next.ix, st |-> "Building", root |-> "leaf"]
        /\ cat'.ns = IF cat.ns = 0 THEN next.ns ELSE cat.ns
        /\ DOMAIN cat' = {"ns", "ix"}
    BY <1>1 DEF CreateIndexReserve, CreateIndexEntry, CreateCollection
  <2>2. next'.ix = next.ix + 1 /\ next' \in [ns : Nat \ {0}, ix : Nat \ {0}]
    BY <1>1 DEF CreateIndexReserve
  <2>3. \/ /\ pub' = [ns |-> cat'.ns, ix |-> cat'.ix, ts |-> pub.ts]
           /\ bld' = [bld EXCEPT ![b] = [NoBuild EXCEPT !.pc = "reserved", !.ns = cat'.ns, !.ix = next.ix]]
        \/ pub' = pub /\ torn' = TRUE /\ UNCHANGED bld
    BY <1>1, ZenonT(60) DEF CreateIndexReserve, CreateIndexEntry, CreateCollection
  <2>4. EntryOK(cat.ns, cat.ix)'
    BY <2>1, <2>2
  <2>5. CASE pub' = pub /\ torn' = TRUE /\ UNCHANGED bld
    BY <2>1, <2>2, <2>4, <2>5
  <2>6. CASE /\ pub' = [ns |-> cat'.ns, ix |-> cat'.ix, ts |-> pub.ts]
             /\ bld' = [bld EXCEPT ![b] = [NoBuild EXCEPT !.pc = "reserved", !.ns = cat'.ns, !.ix = next.ix]]
    <3>1. BuildOK(b)'
      BY <2>1, <2>2, <2>6
    <3>2. ASSUME NEW a \in Builders \ {b} PROVE BuildOK(a)'
      BY <2>1, <2>2, <2>6
    <3>3. NoOrphanBuild' /\ CatalogAgrees' /\ EntryOK(pub.ns, pub.ix)'
      BY <2>1, <2>4, <2>6
    <3> QED BY <2>1, <2>2, <2>4, <2>6, <3>1, <3>2, <3>3
  <2> QED BY <2>3, <2>5, <2>6, Zenon
<1>2. CASE BuildOpen(b)
  <2>1. CASE cat.ix.id # 0
    <3>1. /\ DOMAIN bld' = Builders /\ DOMAIN bld'[b] = DOMAIN NoBuild
          /\ \A a \in Builders \ {b} : bld'[a] = bld[a]
          /\ bld'[b].pc = "opened" /\ bld'[b].ent = cat.ix.id /\ bld'[b].col = cat.ns
          /\ bld'[b].ix = bld[b].ix /\ bld'[b].ns = bld[b].ns
      <4>1. bld' = [bld EXCEPT ![b] =
                     [bld[b] EXCEPT !.pc = "opened", !.col = cat.ns, !.ent = cat.ix.id, !.root = cat.ix.root]]
        BY <1>2, <2>1, Zenon DEF BuildOpen
      <4>2. bld'[b] = [bld[b] EXCEPT !.pc = "opened", !.col = cat.ns, !.ent = cat.ix.id, !.root = cat.ix.root]
        BY <4>1, Zenon
      <4>3. {"pc", "col", "ent", "ix", "ns", "root"} \subseteq DOMAIN bld[b]
        OBVIOUS
      <4>4. /\ DOMAIN bld'[b] = DOMAIN bld[b] /\ bld'[b].pc = "opened" /\ bld'[b].ent = cat.ix.id
            /\ bld'[b].col = cat.ns /\ bld'[b].ix = bld[b].ix /\ bld'[b].ns = bld[b].ns
        BY ONLY <4>2, <4>3, Zenon
      <4> QED BY <4>1, <4>4, Zenon
    <3>2. bld[b].pc = "reserved" /\ UNCHANGED <<cat, pub, next, torn>>
      BY <1>2, Zenon DEF BuildOpen
    <3>3. \A a \in Builders : BuildOK(a)'
      BY <2>1, <3>1, <3>2
    <3> QED BY <3>1, <3>2, <3>3
  <2>2. CASE cat.ix.id = 0
    BY <1>2, <2>2 DEF BuildOpen
  <2> QED BY <2>1, <2>2, Zenon
<1>3. CASE BuildView(b)
  BY <1>3 DEF BuildView
<1>4. CASE BuildIndexMvcc(b)
  <2>1. /\ DOMAIN bld' = Builders /\ DOMAIN bld'[b] = DOMAIN NoBuild
        /\ \A a \in Builders \ {b} : bld'[a] = bld[a]
        /\ bld'[b].pc \in {"failed", "staged", "astray", "split"}
        /\ bld'[b].ix = bld[b].ix /\ bld'[b].ent = bld[b].ent /\ bld'[b].ns = bld[b].ns
        /\ bld'[b].col = bld[b].col
    <3>1. \/ \E pc \in {"failed", "astray", "split"} : bld' = [bld EXCEPT ![b] = [bld[b] EXCEPT !.pc = pc]]
          \/ \E l, r : bld' = [bld EXCEPT ![b] = [bld[b] EXCEPT !.pc = "staged", !.L = l, !.R = r]]
          \/ \E l, r, sep : bld' = [bld EXCEPT ![b] =
               [bld[b] EXCEPT !.pc = "split", !.L = l, !.R = r, !.sep = sep]]
      <4>1. ASSUME NEW keys, InsertKeys(b, keys) PROVE <3>1!2
        BY ONLY <4>1, Zenon DEF InsertKeys, SetB, At
      <4>2. ASSUME NEW keys, SplitLeaf(b, keys) PROVE <3>1
        BY ONLY <4>2, Zenon DEF SplitLeaf, SetB, At
      <4>3. ASSUME BuildAstray(b) PROVE <3>1!1
        BY ONLY <4>3, Zenon DEF BuildAstray, SetB, At
      <4> QED BY ONLY <1>4, <4>1, <4>2, <4>3, Zenon DEF BuildIndexMvcc, SetB, At
    <3>2. /\ {"pc", "col", "ent", "ix", "ns", "L", "R", "sep"} \subseteq DOMAIN bld[b]
          /\ DOMAIN bld[b] = DOMAIN NoBuild /\ DOMAIN bld = Builders
      OBVIOUS
    <3> HIDE DEF NoBuild
    <3>3. CASE \E pc \in {"failed", "astray", "split"} : bld' = [bld EXCEPT ![b] = [bld[b] EXCEPT !.pc = pc]]
      <4>1. PICK pc \in {"failed", "astray", "split"} : bld' = [bld EXCEPT ![b] = [bld[b] EXCEPT !.pc = pc]]
        BY <3>3, Zenon
      <4> QED BY ONLY <3>2, <4>1, b \in Builders, Zenon
    <3>4. CASE \E l, r : bld' = [bld EXCEPT ![b] = [bld[b] EXCEPT !.pc = "staged", !.L = l, !.R = r]]
      <4>1. PICK l, r : bld' = [bld EXCEPT ![b] = [bld[b] EXCEPT !.pc = "staged", !.L = l, !.R = r]]
        BY <3>4, Zenon
      <4> QED BY ONLY <3>2, <4>1, b \in Builders, Zenon
    <3>5. CASE \E l, r, sep : bld' = [bld EXCEPT ![b] =
          [bld[b] EXCEPT !.pc = "split", !.L = l, !.R = r, !.sep = sep]]
      <4>1. PICK l, r, sep : bld' = [bld EXCEPT ![b] =
          [bld[b] EXCEPT !.pc = "split", !.L = l, !.R = r, !.sep = sep]]
        BY <3>5, Zenon
      <4> QED BY ONLY <3>2, <4>1, b \in Builders, Zenon
    <3> QED BY ONLY <3>1, <3>3, <3>4, <3>5, Zenon
  <2>2. bld[b].pc = "viewed" /\ UNCHANGED <<cat, pub, next>> /\ (torn' = torn \/ torn' = TRUE)
    BY <1>4, Zenon DEF BuildIndexMvcc, BuildAstray
  <2>3. \A a \in Builders : BuildOK(a)'
    BY <2>1, <2>2
  <2>4. CatalogAgrees' /\ NoOrphanBuild'
    BY <2>1, <2>2
  <2> QED BY <2>1, <2>2, <2>3, <2>4
<1>5. CASE BuildCatalogUpdate(b)
  <2>1. bld[b].pc = "split" /\ UNCHANGED <<pub, next, torn>>
    BY <1>5, Zenon DEF BuildCatalogUpdate
  <2>2. CASE SameTarget(b)
    <3>1. cat' = [cat EXCEPT !.ix.root = "node"] /\ bld' = [bld EXCEPT ![b] = [bld[b] EXCEPT !.pc = "staged"]]
      BY <1>5, <2>2, Zenon DEF BuildCatalogUpdate, SetIndexRoot
    <3>2. /\ DOMAIN cat' = {"ns", "ix"} /\ cat'.ns = cat.ns /\ cat'.ix \in IndexEntry
          /\ cat'.ix.id = cat.ix.id /\ cat'.ix.st = cat.ix.st /\ cat'.ix.root = "node"
      BY <3>1
    <3>3. /\ DOMAIN bld' = Builders /\ DOMAIN bld'[b] = DOMAIN NoBuild
          /\ \A a \in Builders \ {b} : bld'[a] = bld[a]
          /\ bld'[b].pc = "staged" /\ bld'[b].ix = bld[b].ix /\ bld'[b].ent = bld[b].ent
          /\ bld'[b].ns = bld[b].ns /\ bld'[b].col = bld[b].col
      BY <3>1
    <3>4. \A a \in Builders : BuildOK(a)'
      BY <2>1, <3>2, <3>3
    <3>5. EntryOK(cat.ns, cat.ix)' /\ EntryOK(pub.ns, pub.ix)' /\ CatalogAgrees' /\ NoOrphanBuild'
      BY <2>1, <2>2, <3>2, <3>3 DEF SameTarget
    <3> QED BY <2>1, <3>2, <3>3, <3>4, <3>5
  <2>3. CASE ~SameTarget(b)
    <3>1. cat' = cat /\ bld' = [bld EXCEPT ![b] = NoBuild]
      BY <1>5, <2>3, Zenon DEF BuildCatalogUpdate
    <3> QED BY <2>1, <2>3, <3>1 DEF SameTarget
  <2> QED BY <2>2, <2>3, Zenon
<1>6. CASE BuildCommitToLog(b)
  <2>1. /\ bld[b].pc \in {"staged", "astray"} /\ UNCHANGED <<cat, pub, next>>
        /\ torn' = torn \/ torn' = TRUE
    BY <1>6, Zenon DEF BuildCommitToLog, ApplyBatch
  <2>2. \E pc \in {"built", "failed"} : bld' = [bld EXCEPT ![b] = [bld[b] EXCEPT !.pc = pc]]
    BY <1>6, Zenon DEF BuildCommitToLog
  <2> QED BY <2>1, <2>2
<1>7. CASE CreateIndexCommit(b)
  BY <1>7 DEF CreateIndexCommit, SetIndexState, StillReserved
<1>8. CASE CreateIndexCleanup(b)
  BY <1>8 DEF CreateIndexCleanup, DropIndexEntry, StillReserved
<1>9. CASE BuildCheck(b)
  BY <1>9 DEF BuildCheck, SameTarget
<1> QED BY <1>1, <1>2, <1>3, <1>4, <1>5, <1>6, <1>7, <1>8, <1>9, Zenon DEF Builder

\* The invariant holds throughout.
LEMMA CatalogInvariance == Spec => []CatalogInv
<1>1. CatalogInv /\ [Next]_vars => CatalogInv'
  <2> SUFFICES ASSUME CatalogInv, [Next]_vars PROVE CatalogInv'
    BY Zenon
  <2>1. CASE UNCHANGED vars
    BY <2>1 DEF vars, CatalogInv, EntryOK, BuildOK, CatalogAgrees, NoOrphanBuild
  <2> QED BY <2>1, WriterKeeps, NamespaceKeeps, DropIndexKeeps, ReopenKeeps, BuilderKeeps, Zenon DEF Next
<1> QED BY <1>1, CatalogInit, PTL DEF Spec

\* The live catalog, from which updates and deletes take their indexes, and
\* the published one, from which inserts and readers do, name the same
\* collection and the same index in the same state, until an index record is
\* refused or a build changes pages that are no longer its index's.
THEOREM CatalogsAgree == Spec => []CatalogAgrees
<1>1. CatalogInv => CatalogAgrees
  BY Zenon DEF CatalogInv
<1> QED BY <1>1, CatalogInvariance, PTL

\* No failed or overtaken create_index leaves a Building entry that nobody
\* will finish or remove, but for a refused index record, a changed root, and
\* a build that changed pages that are no longer its index's.
THEOREM BuildsAreOwned == Spec => []NoOrphanBuild
<1>1. CatalogInv => NoOrphanBuild
  BY Zenon DEF CatalogInv
<1> QED BY <1>1, CatalogInvariance, PTL

(***************************************************************************)
(* What a Ready index rests on                                             *)
(***************************************************************************)
Key == Values \X Docs
Value == Values \cup {0}
Version == [d : Docs, ts : Nat \ {0}, v : Value, c : BOOLEAN, from : Nat]
ChainEntry == [pg : {"L", "R"}, k : Key, ts : Nat, live : BOOLEAN, c : BOOLEAN]
LogRecord == [k : Key, ts : Nat, live : BOOLEAN]
StagedWrite == [k : Key, live : BOOLEAN, root : {"leaf", "node"}]
Thread == [pc : {"idle", "upserting", "swept", "selected", "staged", "installed"},
           d : Docs \cup {0}, v : Value, old : Value, exp : Nat, from : Nat, ts : Nat,
           sec : SUBSET StagedWrite, pages : SUBSET {"L", "R"}]

Installed(w) == wr[w].pc = "installed"

\* The committed versions of a document up to a timestamp, and what a view
\* there reads: Visible, with the versions as an argument.
Upto(P, d, ts) == {x \in P : x.d = d /\ x.c /\ x.ts <= ts}
Seen(P, d, ts) == IF Upto(P, d, ts) = {} THEN 0 ELSE Newest(Upto(P, d, ts)).v
Holds(P, k, ts) == Seen(P, k[2], ts) = k[1]

\* The version and the chain entry an installed write left pending.
VersionOf(t) == [d |-> t.d, ts |-> t.ts, v |-> t.v, c |-> FALSE, from |-> t.from]
EntryOf(s, ts, c) == [pg |-> "L", k |-> s.k, ts |-> ts, live |-> s.live, c |-> c]
RecordOf(x) == [k |-> x.k, ts |-> x.ts, live |-> x.live]

\* What a CRUD thread may rely on.  The head it selected is still there unless
\* its collection is gone; and nothing of its document commits between its
\* installation and its publish.
ThreadOK(w) ==
  LET t == wr[w]
  IN /\ t.from < next.ns
     /\ t.pc # "idle" => t.d \in Docs
     /\ t.pc = "selected" => t.exp # 0
     /\ t.pc \in {"selected", "staged"} /\ t.exp # 0 =>
          /\ t.exp <= pub.ts /\ t.from # 0
          /\ t.from = pub.ns => \E x \in prim : x.d = t.d /\ x.ts = t.exp /\ x.v = t.old
     /\ t.pc = "staged" /\ t.exp = 0 => t.old = 0
     /\ t.pc = "installed" =>
          /\ pub.ts < t.ts /\ t.ts <= Clock
          /\ VersionOf(t) \in prim
          /\ t.from = pub.ns => Seen(prim, t.d, pub.ts) = t.old

\* The versions: a timestamp names one write, the pending ones belong to
\* installed writers of different documents, and a document's committed
\* versions have a newest one.
VersionInv ==
  /\ prim \in SUBSET Version /\ wr \in [Writers -> Thread]
  /\ pub.ts \in Nat /\ cat.ns < next.ns /\ pub.ns < next.ns
  /\ \A w \in Writers : ThreadOK(w)
  /\ \A u, w \in Writers :
       Installed(u) /\ Installed(w) /\ (wr[u].ts = wr[w].ts \/ wr[u].d = wr[w].d) => u = w
  /\ \A x \in prim : x.c <=> x.ts <= pub.ts
  /\ \A x \in prim : ~x.c => \E w \in Writers : Installed(w) /\ x = VersionOf(wr[w])
  /\ \A x, y \in prim : x.ts = y.ts => x = y
  /\ \A d \in Docs : Upto(prim, d, pub.ts) = {}
                     \/ \E x \in Upto(prim, d, pub.ts) : \A y \in Upto(prim, d, pub.ts) : y.ts <= x.ts

\* A builder that has not read the collection has no second leaf.  One of an
\* index that was never split has none either, nor a second level, and it
\* has not gone astray.
BuilderForm(t) ==
  t.ts \in Nat /\ (t.pc \in {"idle", "reserved", "opened", "checked", "viewed"} => t.R = {})
OneLeaf(t) == t.pc \notin {"split", "astray"} /\ t.R = {} /\ t.root = "leaf"

LeafEntry == [id |-> cat.ix.id, st |-> "Building", root |-> "leaf"]

\* The tree of an index that was never split: one leaf, the writes staged
\* against it, their pending entries, and the committed ones the journal has.
LeafTree ==
  /\ cat.ix.root = "leaf" /\ pub.ix.root = "leaf"
  /\ \A w \in Writers :
       /\ wr[w].pc \in {"staged", "installed"} =>
            wr[w].sec = SecWrites(LeafEntry, wr[w].d, wr[w].old, wr[w].v)
       /\ Installed(w) => \A s \in wr[w].sec : "L" \in wr[w].pages /\ EntryOf(s, wr[w].ts, FALSE) \in tree.ch
  /\ \A x \in tree.ch : x.pg = "L" /\ (x.c <=> x.ts <= pub.ts)
  /\ \A x \in tree.ch : ~x.c =>
       \E w \in Writers : Installed(w) /\ \E s \in wr[w].sec : x = EntryOf(s, wr[w].ts, FALSE)
  /\ tree.log = {RecordOf(x) : x \in {y \in tree.ch : y.c}}
  /\ \A b \in Builders : bld[b].ent = cat.ix.id /\ cat.ix.id # 0 => OneLeaf(bld[b])

TreeInv ==
  /\ DOMAIN tree = DOMAIN NoTree
  /\ tree.ch \in SUBSET ChainEntry /\ tree.log \in SUBSET LogRecord
  /\ \A b \in Builders : BuilderForm(bld[b])
  /\ ~torn /\ tree.sep = <<0, 0>> => LeafTree

\* Every key is among the cells as some view at or after timestamp B saw it;
\* or at least, every cell was in such a view.
CellsSince(P, now, B, L) ==
  \A k \in Key : \E T \in Nat : B <= T /\ T <= now /\ (k \in L <=> Holds(P, k, T))
CellsWithin(P, now, B, L) ==
  \A k \in Key : k \in L => \E T \in Nat : B <= T /\ T <= now /\ Holds(P, k, T)

Committed(C, k) == {x \in C : x.k = k /\ x.c}

\* The chains began at timestamp B: a key without a committed entry is held
\* now as at every moment since B, and any other as its newest entry says.
\* Whatever views since B the cells come from, the two add up.
ChainsSince(P, now, C, B) ==
  /\ B \in Nat /\ B <= now
  /\ \A k \in Key : Committed(C, k) = {} =>
       \A T \in Nat : B <= T /\ T <= now => (Holds(P, k, T) <=> Holds(P, k, now))
  /\ \A k \in Key : Committed(C, k) # {} => (Newest(Committed(C, k)).live <=> Holds(P, k, now))

\* What a builder of the index has seen, staged or written comes from such
\* views, and so does what a Ready index has in its leaf.
BuiltSince(P, now, B, t, L) ==
  /\ t.pc = "viewed" => B <= t.ts /\ t.ts <= now
  /\ t.pc = "staged" => CellsSince(P, now, B, t.L)
  /\ t.pc = "built" => CellsSince(P, now, B, L)

CellsOK(B) ==
  /\ \A b \in Builders : bld[b].ent = cat.ix.id => BuiltSince(prim, pub.ts, B, bld[b], tree.L)
  /\ cat.ix.st = "Ready" => CellsSince(prim, pub.ts, B, tree.L)
  /\ CellsWithin(prim, pub.ts, B, tree.L)

\* Every committed version was selected from this incarnation.
NotCarried == \A x \in prim : x.c => x.from = pub.ns

AgreeInv ==
  ~torn /\ tree.sep = <<0, 0>> /\ NotCarried /\ cat.ix.id # 0 =>
    \E B : ChainsSince(prim, pub.ts, tree.ch, B) /\ CellsOK(B)

IndexInv == ~torn => VersionInv /\ TreeInv /\ AgreeInv

\* A view reads the committed versions up to its timestamp.
LEMMA VisibleIsSeen == \A d, ts : Visible(d, ts) = Seen(prim, d, ts)
BY Zenon DEF Visible, Seen, Upto

\* The timestamps given out so far, by the set of installed writers.
LEMMA ClockCounts ==
  ASSUME NEW S \in SUBSET Writers
  PROVE  /\ Cardinality(S) \in Nat
         /\ \A w \in Writers \ S : Cardinality(S \cup {w}) = Cardinality(S) + 1
         /\ \A w \in S : Cardinality(S \ {w}) = Cardinality(S) - 1
<1>1. IsFiniteSet(S)
  BY FS_Subset, DdlAssumption, Zenon
<1>2. Cardinality(S) \in Nat
  BY <1>1, FS_CardinalityType, Zenon
<1>3. \A w \in Writers \ S : Cardinality(S \cup {w}) = Cardinality(S) + 1
  BY <1>1, FS_AddElement, Zenon
<1>4. \A w \in S : Cardinality(S \ {w}) = Cardinality(S) - 1
  BY <1>1, FS_RemoveElement, Zenon
<1> QED BY <1>2, <1>3, <1>4, Zenon

\* What the head of a document's chain says: without one the document has no
\* version; and a committed head is the newest version there is, and what a
\* reader of the published epoch sees.
LEMMA HeadIsNewest ==
  ASSUME VersionInv, NEW d \in Docs
  PROVE  \/ Heads(d) = {} /\ \A x \in prim : x.d # d
         \/ \E h \in prim : /\ Heads(d) = {h} /\ h.d = d
                            /\ h.c => /\ \A x \in prim : x.d = d => x.c
                                      /\ Seen(prim, d, pub.ts) = h.v
<1> DEFINE vs == {x \in prim : x.d = d}
<1>1. CASE vs = {}
  BY <1>1, Zenon DEF Heads
<1>2. CASE vs # {}
  <2>1. \E m \in vs : \A y \in vs : y.ts <= m.ts
    <3>1. CASE \E p \in vs : ~p.c
      <4>1. PICK p \in vs : ~p.c
        BY <3>1
      <4>2. PICK w \in Writers : Installed(w) /\ p = VersionOf(wr[w])
        BY <4>1, Zenon DEF VersionInv
      <4>3. ASSUME NEW y \in vs PROVE y.ts <= p.ts
        <5>1. CASE ~y.c
          <6>1. PICK u \in Writers : Installed(u) /\ y = VersionOf(wr[u])
            BY <5>1, Zenon DEF VersionInv
          <6>2. wr[u].d = wr[w].d
            BY <4>2, <6>1 DEF VersionOf
          <6>3. y = p
            BY <4>2, <6>1, <6>2, Zenon DEF VersionInv
          <6> QED BY <6>3 DEF VersionInv, Version
        <5>2. CASE y.c
          BY <4>1, <5>2 DEF VersionInv, Version
        <5> QED BY <5>1, <5>2, Zenon
      <4> QED BY <4>3
    <3>2. CASE \A p \in vs : p.c
      <4>1. vs = Upto(prim, d, pub.ts)
        BY <3>2 DEF VersionInv, Upto
      <4> QED BY <1>2, <4>1, Zenon DEF VersionInv
    <3> QED BY <3>1, <3>2, Zenon
  <2> DEFINE h == Newest(vs)
  <2>2. h \in vs /\ \A y \in vs : y.ts <= h.ts
    BY <2>1, Zenon DEF Newest
  <2>3. Heads(d) = {h}
    BY <1>2, Zenon DEF Heads
  <2>4. ASSUME h.c PROVE (\A x \in prim : x.d = d => x.c) /\ Seen(prim, d, pub.ts) = h.v
    <3>1. ASSUME NEW x \in vs PROVE x.c
      <4>1. h \in prim /\ h.ts <= pub.ts /\ x.ts <= h.ts
        BY <2>2, <2>4, Zenon DEF VersionInv
      <4> HIDE DEF h
      <4> QED BY <4>1 DEF VersionInv, Version
    <3>2. vs = Upto(prim, d, pub.ts)
      BY <3>1, Zenon DEF VersionInv, Upto
    <3> QED BY <1>2, <3>1, <3>2, Zenon DEF Seen
  <2> QED BY <2>2, <2>3, <2>4, Zenon
<1> QED BY <1>1, <1>2, Zenon

\* A thread's move that installs nothing leaves the others as they were.
LEMMA ThreadMoves ==
  ASSUME VersionInv, NEW w \in Writers, NEW r \in Thread, wr' = [wr EXCEPT ![w] = r],
         ~Installed(w), r.pc # "installed", UNCHANGED <<cat, pub, next, prim>>, ThreadOK(w)'
  PROVE  VersionInv'
<1>1. wr' \in [Writers -> Thread] /\ wr'[w] = r /\ \A u \in Writers \ {w} : wr'[u] = wr[u]
  BY Zenon DEF VersionInv
<1>2. \A u \in Writers : Installed(u)' <=> Installed(u)
  BY <1>1, Zenon DEF Installed
<1>3. Clock' = Clock
  <2>1. {u \in Writers : wr'[u].pc = "installed"} = {u \in Writers : wr[u].pc = "installed"}
    BY <1>2, Zenon DEF Installed
  <2> QED BY <2>1, Zenon DEF Clock
<1>4. \A u \in Writers : ThreadOK(u)'
  <2>1. ASSUME NEW u \in Writers, u # w PROVE ThreadOK(u)'
    <3>1. wr'[u] = wr[u] /\ ThreadOK(u)
      BY <1>1, <2>1, Zenon DEF VersionInv
    <3> QED BY <1>3, <3>1 DEF ThreadOK
  <2> QED BY <2>1, Zenon
<1>5. \A u \in Writers : Installed(u) => wr'[u] = wr[u]
  BY <1>1, Zenon
<1>6. \A u, v \in Writers :
        Installed(u)' /\ Installed(v)' /\ (wr'[u].ts = wr'[v].ts \/ wr'[u].d = wr'[v].d) => u = v
  BY <1>2, <1>5, Zenon DEF VersionInv
<1>7. \A x \in prim : ~x.c => \E u \in Writers : Installed(u)' /\ x = VersionOf(wr'[u])
  <2> SUFFICES ASSUME NEW x \in prim, ~x.c PROVE \E u \in Writers : Installed(u)' /\ x = VersionOf(wr'[u])
    BY Zenon
  <2>1. PICK u \in Writers : Installed(u) /\ x = VersionOf(wr[u])
    BY Zenon DEF VersionInv
  <2>2. wr'[u] = wr[u] /\ Installed(u)'
    BY <1>2, <1>5, <2>1, Zenon
  <2> QED BY <2>1, <2>2, Zenon
<1> QED BY <1>1, <1>4, <1>6, <1>7, Zenon DEF VersionInv

\* The three ways a thread moves without touching a version or a chain: it
\* forgets or remembers a document, stages an update or a delete, or stages an
\* insert; and the two that do.
Calm == UNCHANGED <<cat, pub, next, prim, tree, bld, torn>>

Remembers(w) ==
  \E r \in Thread : /\ r.pc \in {"idle", "upserting", "swept"} /\ (r.pc # "idle" => r.d \in Docs)
                    /\ r.from = 0 /\ SetW(w, r)

StagesUpdate(w) ==
  /\ wr[w].pc = "selected" /\ pub.ns # 0
  /\ SetW(w, [wr[w] EXCEPT !.pc = "staged", !.sec = SecWrites(cat.ix, wr[w].d, wr[w].old, wr[w].v)])

StagesInsert(w) ==
  \E d \in Docs, v \in Values :
    /\ pub.ns # 0 /\ Visible(d, pub.ts) = 0
    /\ SetW(w, [Idle EXCEPT !.pc = "staged", !.d = d, !.v = v, !.from = pub.ns,
                !.sec = SecWrites(pub.ix, d, 0, v)])

Installs(w) ==
  LET t == wr[w]
  IN /\ t.pc = "staged" /\ InstallOk(t)
     /\ t.sec # {} => pub.ix.id # 0
     /\ prim' = prim \cup {[d |-> t.d, ts |-> Clock + 1, v |-> t.v, c |-> FALSE, from |-> t.from]}
     /\ tree' = [tree EXCEPT !.ch = @ \cup
                   {[pg |-> Leaf(s.root, s.k), k |-> s.k, ts |-> Clock + 1,
                     live |-> s.live, c |-> FALSE] : s \in t.sec}]
     /\ wr' = [wr EXCEPT ![w] = [t EXCEPT !.pc = "installed", !.ts = Clock + 1,
                                 !.pages = {Leaf(s.root, s.k) : s \in t.sec}]]
     /\ UNCHANGED <<cat, pub, next, bld, torn>>

\* An idle thread's record.
LEMMA IdleThread == Idle \in Thread /\ Idle.pc = "idle" /\ Idle.old = 0 /\ Idle.exp = 0 /\ Idle.from = 0
BY Zenon DEF Idle, Thread, Value

\* What a write stages for the index has the form of a staged write.
LEMMA SecWritesForm ==
  ASSUME NEW ix \in IndexEntry, NEW d \in Docs, NEW old \in Value, NEW v \in Value
  PROVE  SecWrites(ix, d, old, v) \in SUBSET StagedWrite
<1>1. ASSUME NEW x \in Value \ {0}, NEW b \in BOOLEAN
      PROVE  [k |-> <<x, d>>, live |-> b, root |-> ix.root] \in StagedWrite
  BY DEF StagedWrite, Key, Value, IndexEntry
<1> QED BY <1>1, Zenon DEF SecWrites

\* Every step of a CRUD thread is one of these.
LEMMA WriterCases ==
  ASSUME VersionInv, NEW w \in Writers, Writer(w)
  PROVE  \/ /\ Calm /\ ~Installed(w)
            /\ \/ \E d \in Docs, v \in Value : Select(w, d, v)
               \/ Remembers(w) \/ StagesUpdate(w) \/ StagesInsert(w)
         \/ Installs(w) \/ Publish(w)
<1> DEFINE Goal == \/ /\ Calm /\ ~Installed(w)
                      /\ \/ \E d \in Docs, v \in Value : Select(w, d, v)
                         \/ Remembers(w) \/ StagesUpdate(w) \/ StagesInsert(w)
                   \/ Installs(w) \/ Publish(w)
<1>1. CASE \/ Update(w) \/ Delete(w) \/ FindOneAndUpdate(w) \/ FindOneAndDelete(w)
           \/ FindOneAndReplace(w) \/ ReplaceOne(w)
  <2>1. IsIdle(w) /\ \E d \in Docs, v \in Value : Select(w, d, v)
    BY <1>1, Zenon DEF Update, Delete, FindOneAndUpdate, FindOneAndDelete, FindOneAndReplace, ReplaceOne, Value
  <2>2. Calm /\ ~Installed(w)
    BY <2>1, Zenon DEF IsIdle, WritesOnly, Calm, Installed
  <2> QED BY <2>1, <2>2, Zenon
<1>2. CASE Upsert(w)
  <2>1. PICK d \in Docs, v \in Values : SetW(w, [Idle EXCEPT !.pc = "upserting", !.d = d, !.v = v])
    BY <1>2, Zenon DEF Upsert
  <2>2. v \in Value /\ Calm /\ ~Installed(w)
    BY <1>2, Zenon DEF Upsert, IsIdle, WritesOnly, Calm, Installed, Value
  <2> DEFINE r == [Idle EXCEPT !.pc = "upserting", !.d = d, !.v = v]
  <2>3. r \in Thread /\ r.pc = "upserting" /\ r.d = d /\ r.from = 0
    BY ONLY <2>2, d \in Docs, IdleThread, Zenon DEF Thread
  <2> QED BY <2>1, <2>2, <2>3, Zenon DEF Remembers
<1>3. CASE SweepScan(w)
  <2>1. PICK d \in Docs : SetW(w, [Idle EXCEPT !.pc = "swept", !.d = d])
    BY <1>3, Zenon DEF SweepScan
  <2>2. Calm /\ ~Installed(w)
    BY <1>3, Zenon DEF SweepScan, IsIdle, WritesOnly, Calm, Installed
  <2> DEFINE r == [Idle EXCEPT !.pc = "swept", !.d = d]
  <2>3. r \in Thread /\ r.pc = "swept" /\ r.d = d /\ r.from = 0
    BY ONLY d \in Docs, IdleThread, Zenon DEF Thread
  <2> QED BY <2>1, <2>2, <2>3, Zenon DEF Remembers
<1>4. CASE SweepDelete(w)
  <2>1. Calm /\ ~Installed(w) /\ wr[w].pc = "swept"
    BY <1>4, Zenon DEF SweepDelete, WritesOnly, Calm, Installed
  <2>2. wr[w].d \in Docs
    <3>1. ThreadOK(w)
      BY Zenon DEF VersionInv
    <3> QED BY <2>1, <3>1, Zenon DEF ThreadOK
  <2>3. Select(w, wr[w].d, 0) \/ SetW(w, Idle)
    BY <1>4, Zenon DEF SweepDelete
  <2> QED BY <2>1, <2>2, <2>3, IdleThread, Zenon DEF Remembers, Value
<1>5. ASSUME Refuse(w), ~Installed(w) PROVE Calm /\ Remembers(w)
  BY <1>5, IdleThread, Zenon DEF Refuse, WritesOnly, Calm, Remembers
<1>6. CASE StageUpdate(w)
  <2>1. ~Installed(w)
    BY <1>6, Zenon DEF StageUpdate, Installed
  <2>2. \/ Refuse(w)
        \/ StagesUpdate(w) /\ WritesOnly /\ UNCHANGED <<pub, prim, tree>>
    BY <1>6, Zenon DEF StageUpdate, StagesUpdate
  <2>3. WritesOnly /\ UNCHANGED <<pub, prim, tree>> => Calm
    BY Zenon DEF WritesOnly, Calm
  <2> QED BY <1>5, <2>1, <2>2, <2>3, Zenon
<1>7. CASE StageInsert(w)
  <2>1. ~Installed(w)
    BY <1>7, Zenon DEF StageInsert, Installed
  <2>2. \/ Refuse(w)
        \/ StagesInsert(w) /\ WritesOnly /\ UNCHANGED <<pub, prim, tree>>
    BY <1>7, Zenon DEF StageInsert, StagesInsert
  <2>3. WritesOnly /\ UNCHANGED <<pub, prim, tree>> => Calm
    BY Zenon DEF WritesOnly, Calm
  <2> QED BY <1>5, <2>1, <2>2, <2>3, Zenon
<1>8. CASE Install(w)
  <2>1. ~Installed(w)
    BY <1>8, Zenon DEF Install, Installed
  <2>2. Refuse(w) \/ Installs(w)
    BY <1>8, Zenon DEF Install, Installs, WritesOnly, SetW
  <2> QED BY <1>5, <2>1, <2>2, Zenon
<1>9. CASE Publish(w)
  BY <1>9, Zenon
<1> QED BY <1>1, <1>2, <1>3, <1>4, <1>6, <1>7, <1>8, <1>9, Zenon DEF Writer

\* What a selected write remembers is the newest version of its document.
SelectsHead(w, d, v, h) ==
  /\ h.d = d /\ h.c /\ pub.ns # 0
  /\ wr' = [wr EXCEPT ![w] = [Idle EXCEPT !.pc = "selected", !.d = d, !.v = v, !.old = h.v,
                              !.from = pub.ns, !.exp = h.ts]]

\* What a selecting thread remembers is the committed head of the document.
LEMMA SelectFinds ==
  ASSUME VersionInv, NEW w \in Writers, NEW d \in Docs, NEW v \in Value, Select(w, d, v)
  PROVE  \E h \in prim : SelectsHead(w, d, v, h)
<1>1. /\ Seen(prim, d, pub.ts) # 0 /\ pub.ns # 0
      /\ \A h \in Heads(d) : h.c /\ h.v = Visible(d, pub.ts)
      /\ wr' = [wr EXCEPT ![w] = [Idle EXCEPT !.pc = "selected", !.d = d, !.v = v,
                  !.old = Visible(d, pub.ts), !.from = pub.ns, !.exp = Newest(Heads(d)).ts]]
  BY VisibleIsSeen, Zenon DEF Select, SetW
<1>2. \E x \in prim : x.d = d
  BY <1>1, Zenon DEF Seen, Upto
<1>3. PICK h \in prim : Heads(d) = {h} /\ h.d = d
  BY <1>2, HeadIsNewest, Zenon
<1>4. h.c /\ h.v = Visible(d, pub.ts)
  BY <1>1, <1>3, Zenon
<1>5. Newest({h}) = h
  BY DEF Newest, VersionInv, Version
<1> QED BY <1>1, <1>3, <1>4, <1>5, Zenon DEF SelectsHead

\* A thread's move that installs nothing keeps the invariant of the versions.
LEMMA CalmKeepsVersions ==
  ASSUME CatalogInv, VersionInv, NEW w \in Writers, Calm, ~Installed(w),
         \/ \E d \in Docs, v \in Value : Select(w, d, v)
         \/ Remembers(w) \/ StagesUpdate(w) \/ StagesInsert(w)
  PROVE  VersionInv'
<1>0. /\ UNCHANGED <<cat, pub, next, prim>> /\ pub.ns \in Nat /\ pub.ns < next.ns
      /\ wr \in [Writers -> Thread] /\ wr[w] \in Thread /\ ThreadOK(w) /\ pub.ts \in Nat
      /\ prim \in SUBSET Version /\ next.ns \in Nat \ {0}
  BY Zenon DEF Calm, CatalogInv, EntryOK, VersionInv
<1>1. ASSUME NEW d \in Docs, NEW v \in Value, Select(w, d, v) PROVE VersionInv'
  <2>0. PICK h \in prim : SelectsHead(w, d, v, h)
    BY ONLY VersionInv, w \in Writers, d \in Docs, v \in Value, <1>1, SelectFinds, SMT
  <2>1. /\ h.d = d /\ h.c /\ pub.ns # 0
        /\ wr' = [wr EXCEPT ![w] = [Idle EXCEPT !.pc = "selected", !.d = d, !.v = v, !.old = h.v,
                                    !.from = pub.ns, !.exp = h.ts]]
    BY <2>0, Zenon DEF SelectsHead
  <2> DEFINE r == [Idle EXCEPT !.pc = "selected", !.d = d, !.v = v, !.old = h.v,
                   !.from = pub.ns, !.exp = h.ts]
  <2>2. h.v \in Value /\ h.ts \in Nat \ {0} /\ h.ts <= pub.ts
    BY <1>0, <2>1 DEF VersionInv, Version
  <2>3. /\ r \in Thread /\ r.pc = "selected" /\ r.d = d /\ r.exp = h.ts /\ r.old = h.v /\ r.from = pub.ns
    <3>1. h.ts \in Nat
      BY <2>2
    <3> QED BY ONLY <1>0, <2>2, <3>1, d \in Docs, v \in Value, IdleThread, Zenon DEF Thread
  <2>4. wr'[w] = r
    BY <1>0, <2>1, Zenon
  <2> HIDE DEF r
  <2>5. ThreadOK(w)'
    BY <1>0, <2>1, <2>2, <2>3, <2>4 DEF ThreadOK
  <2>6. wr' = [wr EXCEPT ![w] = r]
    BY <2>1, Zenon DEF r
  <2> QED BY <1>0, <2>3, <2>5, <2>6, ThreadMoves, Zenon
<1>2. CASE Remembers(w)
  <2>1. PICK r \in Thread : /\ r.pc \in {"idle", "upserting", "swept"} /\ (r.pc # "idle" => r.d \in Docs)
                            /\ r.from = 0 /\ wr' = [wr EXCEPT ![w] = r]
    BY <1>2, Zenon DEF Remembers, SetW
  <2>2. wr'[w] = r
    BY <1>0, <2>1, Zenon
  <2>3. ThreadOK(w)'
    BY <1>0, <2>1, <2>2 DEF ThreadOK
  <2>4. r.pc # "installed"
    BY <2>1, Zenon
  <2> QED BY <1>0, <2>1, <2>3, <2>4, ThreadMoves, Zenon
<1>3. CASE StagesUpdate(w)
  <2> DEFINE sec == SecWrites(cat.ix, wr[w].d, wr[w].old, wr[w].v)
              r == [wr[w] EXCEPT !.pc = "staged", !.sec = sec]
  <2>1. wr[w].pc = "selected" /\ wr' = [wr EXCEPT ![w] = r]
    BY <1>3, Zenon DEF StagesUpdate, SetW
  <2>2. wr[w].d \in Docs
    BY <1>0, <2>1, Zenon DEF ThreadOK
  <2>3. sec \in SUBSET StagedWrite
    <3>1. wr[w].old \in Value /\ wr[w].v \in Value /\ cat.ix \in IndexEntry
      BY <1>0, Zenon DEF Thread, CatalogInv, EntryOK
    <3> QED BY <2>2, <3>1, SecWritesForm, Zenon
  <2> HIDE DEF sec
  <2>4. /\ r \in Thread /\ r.pc = "staged" /\ r.d = wr[w].d /\ r.exp = wr[w].exp /\ r.old = wr[w].old
        /\ r.from = wr[w].from
    BY ONLY <1>0, <2>3, Zenon DEF Thread
  <2>5. wr'[w] = r
    BY <1>0, <2>1, Zenon
  <2> HIDE DEF r
  <2>6. ThreadOK(w)'
    BY <1>0, <2>1, <2>4, <2>5 DEF ThreadOK
  <2> QED BY <1>0, <2>1, <2>4, <2>6, ThreadMoves, Zenon
<1>4. CASE StagesInsert(w)
  <2>1. PICK d \in Docs, v \in Values :
          wr' = [wr EXCEPT ![w] = [Idle EXCEPT !.pc = "staged", !.d = d, !.v = v, !.from = pub.ns,
                                   !.sec = SecWrites(pub.ix, d, 0, v)]]
    BY <1>4, Zenon DEF StagesInsert, SetW
  <2> DEFINE sec == SecWrites(pub.ix, d, 0, v)
              r == [Idle EXCEPT !.pc = "staged", !.d = d, !.v = v, !.from = pub.ns, !.sec = sec]
  <2>2. sec \in SUBSET StagedWrite
    BY SecWritesForm, Zenon DEF CatalogInv, EntryOK, Value
  <2>3. wr' = [wr EXCEPT ![w] = r]
    BY <2>1, Zenon
  <2> HIDE DEF sec
  <2>4. /\ r \in Thread /\ r.pc = "staged" /\ r.d = d /\ r.exp = 0 /\ r.old = 0 /\ r.from = pub.ns
    <3>1. v \in Value
      BY Zenon DEF Value
    <3> QED BY ONLY <1>0, <2>2, <3>1, d \in Docs, IdleThread, Zenon DEF Thread
  <2>5. wr'[w] = r
    BY <1>0, <2>3, Zenon
  <2> HIDE DEF r
  <2>6. ThreadOK(w)'
    BY <1>0, <2>4, <2>5 DEF ThreadOK
  <2> QED BY <1>0, <2>3, <2>4, <2>6, ThreadMoves, Zenon
<1> QED BY <1>1, <1>2, <1>3, <1>4, Zenon

\* The clock is past every timestamp in use.
LEMMA ClockIsPast ==
  ASSUME VersionInv
  PROVE  Clock \in Nat /\ pub.ts <= Clock /\ \A x \in prim : x.ts <= Clock
<1>1. Clock \in Nat /\ pub.ts <= Clock
  <2> DEFINE S == {u \in Writers : wr[u].pc = "installed"}
  <2>1. Cardinality(S) \in Nat
    BY ClockCounts, Zenon
  <2> HIDE DEF S
  <2>2. Clock = pub.ts + Cardinality(S) /\ pub.ts \in Nat
    BY Zenon DEF Clock, S, VersionInv
  <2> QED BY <2>1, <2>2
<1>2. ASSUME NEW x \in prim PROVE x.ts <= Clock
  <2>1. CASE x.c
    BY <1>1, <2>1 DEF VersionInv, Version
  <2>2. CASE ~x.c
    <3>1. PICK u \in Writers : Installed(u) /\ x = VersionOf(wr[u])
      BY <2>2, Zenon DEF VersionInv
    <3>2. ThreadOK(u)
      BY Zenon DEF VersionInv
    <3>3. x.ts = wr[u].ts
      BY <3>1 DEF VersionOf
    <3> QED BY <3>1, <3>2, <3>3, Zenon DEF ThreadOK, Installed
  <2> QED BY <2>1, <2>2, Zenon
<1> QED BY <1>1, <1>2, Zenon

\* An installation that is not refused replaces the version it read: nothing
\* of its document is pending, and what it read is what a reader sees.
LEMMA InstallReplaces ==
  ASSUME VersionInv, NEW w \in Writers, wr[w].pc = "staged", InstallOk(wr[w])
  PROVE  /\ wr[w].d \in Docs /\ \A x \in prim : x.d = wr[w].d => x.c
         /\ wr[w].from = pub.ns => Seen(prim, wr[w].d, pub.ts) = wr[w].old
<1> DEFINE t == wr[w]
<1>1. ThreadOK(w) /\ t.d \in Docs
  BY Zenon DEF VersionInv, ThreadOK
<1>2. CASE Heads(t.d) = {} /\ \A x \in prim : x.d # t.d
  <2>1. Seen(prim, t.d, pub.ts) = 0
    BY <1>2, Zenon DEF Seen, Upto
  <2>2. t.from = pub.ns => t.exp = 0 /\ t.old = 0
    BY <1>1, <1>2, Zenon DEF ThreadOK
  <2> QED BY <1>1, <1>2, <2>1, <2>2, Zenon
<1>3. ASSUME NEW h \in prim, Heads(t.d) = {h}, h.d = t.d,
             h.c => (\A x \in prim : x.d = t.d => x.c) /\ Seen(prim, t.d, pub.ts) = h.v
      PROVE  /\ \A x \in prim : x.d = t.d => x.c
             /\ t.from = pub.ns => Seen(prim, t.d, pub.ts) = t.old
  <2>1. IF t.exp # 0 THEN h.c /\ h.ts = t.exp /\ h.v # 0 ELSE h.c /\ h.v = 0
    BY <1>3, Zenon DEF InstallOk
  <2>2. CASE t.exp = 0
    BY <1>1, <1>3, <2>1, <2>2, Zenon DEF ThreadOK
  <2>3. CASE t.exp # 0
    <3>1. h.c /\ h.ts = t.exp
      BY <2>1, <2>3, Zenon
    <3>2. ASSUME t.from = pub.ns PROVE h.v = t.old
      <4>1. PICK x \in prim : x.d = t.d /\ x.ts = t.exp /\ x.v = t.old
        BY <1>1, <2>3, <3>2, Zenon DEF ThreadOK
      <4>2. x = h
        BY <3>1, <4>1, Zenon DEF VersionInv
      <4> QED BY <4>1, <4>2, Zenon
    <3> QED BY <1>3, <3>1, <3>2, Zenon
  <2> QED BY <2>2, <2>3, Zenon
<1> QED BY <1>1, <1>2, <1>3, HeadIsNewest, Zenon

\* Installing leaves every view as it was, and takes a fresh timestamp.
LEMMA InstallKeepsVersions ==
  ASSUME CatalogInv, VersionInv, NEW w \in Writers, Installs(w)
  PROVE  VersionInv' /\ Clock' = Clock + 1 /\ \A d, T : Upto(prim', d, T) = Upto(prim, d, T)
<1> DEFINE t == wr[w]
           ts == Clock + 1
           pages == {Leaf(s.root, s.k) : s \in t.sec}
           r == [t EXCEPT !.pc = "installed", !.ts = ts, !.pages = pages]
           new == [d |-> t.d, ts |-> ts, v |-> t.v, c |-> FALSE, from |-> t.from]
<1>1. /\ t.pc = "staged" /\ InstallOk(t) /\ prim' = prim \cup {new}
      /\ wr' = [wr EXCEPT ![w] = r] /\ UNCHANGED <<cat, pub, next>>
  BY Zenon DEF Installs
<1>2. Clock \in Nat /\ pub.ts <= Clock /\ \A x \in prim : x.ts <= Clock
  BY ClockIsPast, Zenon
<1>3. /\ t.d \in Docs /\ \A x \in prim : x.d = t.d => x.c
      /\ t.from = pub.ns => Seen(prim, t.d, pub.ts) = t.old
  BY <1>1, InstallReplaces, Zenon
<1>4. ts \in Nat \ {0} /\ pub.ts < ts /\ Clock < ts /\ pub.ts \in Nat /\ ts <= Clock + 1
  BY <1>2 DEF VersionInv
<1> HIDE DEF ts
<1>5. wr \in [Writers -> Thread] /\ t \in Thread /\ prim \in SUBSET Version /\ ThreadOK(w)
  BY Zenon DEF VersionInv
<1>6. pages \in SUBSET {"L", "R"}
  BY Zenon DEF Leaf
<1> HIDE DEF pages
<1>7. /\ r \in Thread /\ r.pc = "installed" /\ r.d = t.d /\ r.v = t.v /\ r.old = t.old
      /\ r.from = t.from /\ r.ts = ts
  <2>1. ts \in Nat
    BY <1>4
  <2> HIDE DEF t
  <2> QED BY ONLY <1>5, <1>6, <2>1, Zenon DEF Thread
<1>8. /\ new \in Version /\ new.d = t.d /\ new.ts = ts /\ new.v = t.v /\ new.c = FALSE /\ new.from = t.from
  BY <1>3, <1>4, <1>5, Zenon DEF Version, Thread
<1>9. wr'[w] = r /\ (\A u \in Writers \ {w} : wr'[u] = wr[u]) /\ wr' \in [Writers -> Thread]
  BY <1>1, <1>5, <1>7, Zenon
<1>10. VersionOf(r) = new
  BY <1>7, Zenon DEF VersionOf
<1> HIDE DEF r, new
<1>11. Installed(w)' /\ ~Installed(w) /\ \A u \in Writers \ {w} : Installed(u)' <=> Installed(u)
  BY <1>1, <1>7, <1>9, Zenon DEF Installed
<1>12. Clock' = Clock + 1
  <2> DEFINE S == {u \in Writers : wr[u].pc = "installed"}
  <2>1. {u \in Writers : wr'[u].pc = "installed"} = S \cup {w} /\ w \notin S
    BY <1>11 DEF Installed
  <2>2. Cardinality(S) \in Nat /\ Cardinality(S \cup {w}) = Cardinality(S) + 1
    BY <2>1, ClockCounts, Zenon
  <2>3. Clock = pub.ts + Cardinality(S) /\ Clock' = pub.ts + Cardinality(S \cup {w})
    BY <1>1, <2>1, Zenon DEF Clock
  <2> HIDE DEF S
  <2> QED BY <1>4, <2>2, <2>3
<1>13. \A d, T : Upto(prim', d, T) = Upto(prim, d, T)
  BY <1>1, <1>8, Zenon DEF Upto
<1>14. \A d, T : Seen(prim', d, T) = Seen(prim, d, T)
  BY <1>13, Zenon DEF Seen
<1>15. ThreadOK(w)'
  <2>1. t.from < next.ns
    BY <1>5, Zenon DEF ThreadOK
  <2>2. Seen(prim', t.d, pub.ts) = Seen(prim, t.d, pub.ts)
    BY <1>14, Zenon
  <2> QED BY <1>1, <1>3, <1>4, <1>7, <1>9, <1>10, <1>12, <2>1, <2>2 DEF ThreadOK
<1>16. ASSUME NEW u \in Writers, u # w PROVE ThreadOK(u)'
  <2>1. wr'[u] = wr[u] /\ ThreadOK(u) /\ wr[u] \in Thread
    BY <1>5, <1>9, <1>16, Zenon DEF VersionInv
  <2>2. Seen(prim', wr[u].d, pub.ts) = Seen(prim, wr[u].d, pub.ts)
    BY <1>14, Zenon
  <2>3. wr[u].ts <= Clock => wr[u].ts <= Clock'
    BY <1>2, <1>12, <2>1 DEF Thread
  <2> QED BY <1>1, <2>1, <2>2, <2>3 DEF ThreadOK
<1>17. \A u, v \in Writers :
         Installed(u)' /\ Installed(v)' /\ (wr'[u].ts = wr'[v].ts \/ wr'[u].d = wr'[v].d) => u = v
  <2>1. ASSUME NEW u \in Writers, u # w, Installed(u) PROVE wr[u].ts # ts /\ wr[u].d # t.d
    <3>1. VersionOf(wr[u]) \in prim /\ wr[u].ts <= Clock /\ wr[u].ts \in Nat
      BY <1>5, <2>1, Zenon DEF VersionInv, ThreadOK, Installed, Thread
    <3>2. VersionOf(wr[u]).c = FALSE /\ VersionOf(wr[u]).d = wr[u].d
      BY Zenon DEF VersionOf
    <3>3. wr[u].d # t.d
      BY <1>3, <3>1, <3>2, Zenon
    <3> QED BY <1>2, <1>4, <3>1, <3>3
  <2>2. wr'[w].ts = ts /\ wr'[w].d = t.d
    BY <1>7, <1>9, Zenon
  <2> QED BY <1>9, <1>11, <2>1, <2>2, ZenonT(60) DEF VersionInv
<1>18. \A x \in prim' : x.c <=> x.ts <= pub.ts
  <2>1. ~(new.ts <= pub.ts) /\ ~new.c
    BY <1>4, <1>8
  <2> QED BY <1>1, <2>1, Zenon DEF VersionInv
<1>19. \A x \in prim' : ~x.c => \E u \in Writers : Installed(u)' /\ x = VersionOf(wr'[u])
  <2>1. ASSUME NEW x \in prim, ~x.c PROVE \E u \in Writers : Installed(u)' /\ x = VersionOf(wr'[u])
    <3>1. PICK u \in Writers : Installed(u) /\ x = VersionOf(wr[u])
      BY <2>1, Zenon DEF VersionInv
    <3>2. u # w /\ Installed(u)' /\ wr'[u] = wr[u]
      BY <1>9, <1>11, <3>1, Zenon
    <3> QED BY <3>1, <3>2, Zenon
  <2> QED BY <1>1, <1>9, <1>10, <1>11, <2>1, Zenon
<1>20. \A x, y \in prim' : x.ts = y.ts => x = y
  <2>1. \A x \in prim : x.ts # new.ts
    BY <1>2, <1>4, <1>5, <1>8 DEF Version
  <2> QED BY <1>1, <2>1, Zenon DEF VersionInv
<1>21. pub'.ts \in Nat /\ cat'.ns < next'.ns /\ pub'.ns < next'.ns /\ pub'.ts = pub.ts /\ prim' \in SUBSET Version
  BY <1>1, <1>8, Zenon DEF VersionInv
<1>22. \A d \in Docs : Upto(prim', d, pub.ts) = {}
         \/ \E x \in Upto(prim', d, pub.ts) : \A y \in Upto(prim', d, pub.ts) : y.ts <= x.ts
  BY <1>13, Zenon DEF VersionInv
<1> QED BY <1>9, <1>12, <1>13, <1>15, <1>16, <1>17, <1>18, <1>19, <1>20, <1>21, <1>22, Zenon DEF VersionInv

\* What publishing does to the versions and to the views: the oldest installed
\* write's version is committed, the views before it stay, and the one at its
\* timestamp differs in its document alone.
PublishFacts(w) ==
  LET t == wr[w]
      new == [d |-> t.d, ts |-> t.ts, v |-> t.v, c |-> TRUE, from |-> t.from]
  IN /\ Installed(w) /\ t.d \in Docs /\ t.ts \in Nat \ {0} /\ pub.ts < t.ts
     /\ pub'.ts = t.ts /\ pub'.ns = pub.ns /\ pub'.ix = pub.ix
     /\ wr' = [wr EXCEPT ![w] = Idle] /\ UNCHANGED <<cat, next, bld, torn>>
     /\ \A u \in Writers \ {w} : Installed(u) => t.ts < wr[u].ts
     /\ \A y : y \in prim' <=> (y \in prim /\ y.ts # t.ts) \/ y = new
     /\ \A d : \A T \in Nat : T <= pub.ts => Upto(prim', d, T) = Upto(prim, d, T)
     /\ \A d : \A T \in Nat : pub.ts <= T /\ T < t.ts => Upto(prim', d, T) = Upto(prim, d, pub.ts)
     /\ \A d : d # t.d => Upto(prim', d, t.ts) = Upto(prim, d, pub.ts)
     /\ Upto(prim', t.d, t.ts) = Upto(prim, t.d, pub.ts) \cup {new}
     /\ Seen(prim', t.d, t.ts) = t.v

\* A publish does what PublishFacts lists.
LEMMA PublishMoves ==
  ASSUME CatalogInv, VersionInv, NEW w \in Writers, Publish(w)
  PROVE  PublishFacts(w)
<1> DEFINE t == wr[w]
           new == [d |-> t.d, ts |-> t.ts, v |-> t.v, c |-> TRUE, from |-> t.from]
           flip(x) == IF x.ts = t.ts THEN [x EXCEPT !.c = TRUE] ELSE x
<1>1. /\ Installed(w) /\ prim' = {flip(x) : x \in prim} /\ pub' = [pub EXCEPT !.ts = t.ts]
      /\ wr' = [wr EXCEPT ![w] = Idle] /\ UNCHANGED <<cat, next, bld, torn>>
      /\ \A u \in Inside : wr[u].pc = "installed" => t.ts <= wr[u].ts
  BY Zenon DEF Publish, Installed, SetW, WritesOnly
<1>2. /\ wr \in [Writers -> Thread] /\ t \in Thread /\ prim \in SUBSET Version /\ ThreadOK(w)
      /\ pub.ts \in Nat
  BY Zenon DEF VersionInv
<1>3. t.d \in Docs /\ pub.ts < t.ts /\ VersionOf(t) \in prim /\ t.ts \in Nat
  BY <1>1, <1>2, Zenon DEF ThreadOK, Installed, Thread
<1>4. t.ts # 0
  BY <1>2, <1>3
<1>5. pub'.ts = t.ts /\ pub'.ns = pub.ns /\ pub'.ix = pub.ix
  BY <1>1, Zenon DEF CatalogInv
<1>6. ASSUME NEW u \in Writers \ {w}, Installed(u) PROVE t.ts < wr[u].ts
  <2>1. t.ts <= wr[u].ts
    BY <1>1, <1>6, Zenon DEF Inside, Installed
  <2>2. t.ts # wr[u].ts
    BY <1>1, <1>6, Zenon DEF VersionInv
  <2>3. wr[u].ts \in Nat
    BY <1>2, Zenon DEF Thread
  <2> HIDE DEF t
  <2> QED BY <1>3, <2>1, <2>2, <2>3
<1>7. \A x \in prim : x.ts = t.ts => flip(x) = new
  <2>1. \A x \in prim : x.ts = t.ts => x = VersionOf(t)
    <3>1. VersionOf(t).ts = t.ts
      BY Zenon DEF VersionOf
    <3> QED BY <1>3, <3>1, Zenon DEF VersionInv
  <2>2. [VersionOf(t) EXCEPT !.c = TRUE] = new
    <3>1. ASSUME NEW x \in Version
          PROVE  [x EXCEPT !.c = TRUE] = [d |-> x.d, ts |-> x.ts, v |-> x.v, c |-> TRUE, from |-> x.from]
      <4> DEFINE y == [x EXCEPT !.c = TRUE]
      <4>1. y \in Version /\ y.d = x.d /\ y.ts = x.ts /\ y.v = x.v /\ y.c = TRUE /\ y.from = x.from
        BY Zenon DEF Version
      <4> HIDE DEF y
      <4>2. y = [d |-> y.d, ts |-> y.ts, v |-> y.v, c |-> y.c, from |-> y.from]
        BY <4>1, Zenon DEF Version
      <4> QED BY <4>1, <4>2, Zenon DEF y
    <3>2. VersionOf(t).d = t.d /\ VersionOf(t).ts = t.ts /\ VersionOf(t).v = t.v /\ VersionOf(t).from = t.from
      BY Zenon DEF VersionOf
    <3> QED BY <1>2, <1>3, <3>1, <3>2, Zenon
  <2> QED BY <2>1, <2>2, Zenon
<1>8. VersionOf(t).ts = t.ts
  BY Zenon DEF VersionOf
<1>9. \A y : y \in prim' <=> (y \in prim /\ y.ts # t.ts) \/ y = new
  <2>1. ASSUME NEW y, y \in prim' PROVE (y \in prim /\ y.ts # t.ts) \/ y = new
    BY <1>1, <1>7, <2>1, Zenon
  <2>2. ASSUME NEW y \in prim, y.ts # t.ts PROVE y \in prim'
    BY <1>1, <2>2, Zenon
  <2>3. new \in prim'
    <3>1. flip(VersionOf(t)) = new
      BY <1>3, <1>7, <1>8, Zenon
    <3> HIDE DEF new, flip
    <3> QED BY <1>1, <1>3, <3>1, Zenon
  <2> QED BY <2>1, <2>2, <2>3, Zenon
<1>10. new.d = t.d /\ new.ts = t.ts /\ new.v = t.v /\ new.c = TRUE
  BY Zenon
<1> HIDE DEF new, flip
<1>11. ASSUME NEW d, NEW T \in Nat, T <= pub.ts PROVE Upto(prim', d, T) = Upto(prim, d, T)
  <2>1. ASSUME NEW x \in prim, x.c PROVE x.ts # t.ts
    BY <1>2, <1>3, <2>1 DEF VersionInv, Version
  <2>2. ~(new.ts <= T)
    BY <1>2, <1>3, <1>10, <1>11
  <2> QED BY <1>9, <2>1, <2>2, Zenon DEF Upto
<1>12. ASSUME NEW x \in prim PROVE x.c /\ x.ts <= t.ts /\ x.ts # t.ts <=> x.c /\ x.ts <= pub.ts
  BY <1>2, <1>3 DEF VersionInv, Version
<1>13. ASSUME NEW d, NEW T \in Nat, pub.ts <= T, T < t.ts PROVE Upto(prim', d, T) = Upto(prim, d, pub.ts)
  <2>1. ASSUME NEW x \in prim PROVE x.c /\ x.ts <= T /\ x.ts # t.ts <=> x.c /\ x.ts <= pub.ts
    BY <1>2, <1>3, <1>13 DEF VersionInv, Version
  <2>2. ~(new.ts <= T)
    BY <1>2, <1>3, <1>10, <1>13
  <2> QED BY <1>9, <2>1, <2>2, Zenon DEF Upto
<1>14. ASSUME NEW d, d # t.d PROVE Upto(prim', d, t.ts) = Upto(prim, d, pub.ts)
  BY <1>9, <1>10, <1>12, <1>14, Zenon DEF Upto
<1>15. Upto(prim', t.d, t.ts) = Upto(prim, t.d, pub.ts) \cup {new}
  <2>1. new.ts <= t.ts
    BY <1>3, <1>10
  <2> QED BY <1>9, <1>10, <1>12, <2>1, Zenon DEF Upto
<1>16. Seen(prim', t.d, t.ts) = t.v
  <2> DEFINE us == Upto(prim, t.d, pub.ts) \cup {new}
  <2>1. \A y \in Upto(prim, t.d, pub.ts) : y.ts \in Nat /\ y.ts < t.ts
    BY <1>2, <1>3 DEF Upto, Version
  <2>2. \A y \in us : y.ts <= new.ts
    BY <1>3, <1>10, <2>1
  <2>3. \A x \in us : (\A y \in us : y.ts <= x.ts) => x = new
    BY <1>3, <1>10, <2>1
  <2>4. Newest(us) = new
    <3>1. new \in us
      BY Zenon
    <3> HIDE DEF us
    <3> QED BY <2>2, <2>3, <3>1, Zenon DEF Newest
  <2> QED BY <1>10, <1>15, <2>4, Zenon DEF Seen
<1> QED BY <1>1, <1>3, <1>4, <1>5, <1>6, <1>9, <1>11, <1>14, <1>15, <1>16, <1>13, Zenon DEF PublishFacts, new

\* Publishing keeps the invariant of the versions.
LEMMA PublishKeepsVersions ==
  ASSUME CatalogInv, VersionInv, NEW w \in Writers, PublishFacts(w)
  PROVE  VersionInv'
<1> DEFINE t == wr[w]
           new == [d |-> t.d, ts |-> t.ts, v |-> t.v, c |-> TRUE, from |-> t.from]
<1>1. /\ Installed(w) /\ t.d \in Docs /\ t.ts \in Nat \ {0} /\ pub.ts < t.ts
      /\ pub'.ts = t.ts /\ pub'.ns = pub.ns
      /\ wr' = [wr EXCEPT ![w] = Idle] /\ UNCHANGED <<cat, next>>
      /\ \A u \in Writers \ {w} : Installed(u) => t.ts < wr[u].ts
      /\ \A y : y \in prim' <=> (y \in prim /\ y.ts # t.ts) \/ y = new
  BY Zenon DEF PublishFacts
<1>2. /\ \A d : d # t.d => Upto(prim', d, t.ts) = Upto(prim, d, pub.ts)
      /\ Upto(prim', t.d, t.ts) = Upto(prim, t.d, pub.ts) \cup {new}
  BY Zenon DEF PublishFacts
<1>3. /\ wr \in [Writers -> Thread] /\ t \in Thread /\ prim \in SUBSET Version /\ pub.ts \in Nat
      /\ next.ns \in Nat \ {0} /\ t.ts \in Nat
  BY Zenon DEF VersionInv, CatalogInv, Thread
<1>4. wr'[w] = Idle /\ (\A u \in Writers \ {w} : wr'[u] = wr[u]) /\ wr' \in [Writers -> Thread]
  BY <1>1, <1>3, IdleThread, Zenon
<1>5. /\ new \in Version /\ new.d = t.d /\ new.ts = t.ts /\ new.c = TRUE
  BY <1>1, <1>3, Zenon DEF Version, Thread
<1> HIDE DEF t, new
<1>6. ~Installed(w)' /\ \A u \in Writers \ {w} : Installed(u)' <=> Installed(u)
  BY <1>4, IdleThread, Zenon DEF Installed
<1>7. Clock' = Clock + t.ts - pub.ts - 1 /\ Clock \in Nat
  <2> DEFINE S == {u \in Writers : wr[u].pc = "installed"}
  <2>1. {u \in Writers : wr'[u].pc = "installed"} = S \ {w} /\ w \in S
    BY <1>1, <1>6 DEF Installed
  <2>2. Cardinality(S) \in Nat /\ Cardinality(S \ {w}) = Cardinality(S) - 1
    BY <2>1, ClockCounts, Zenon
  <2>3. Clock = pub.ts + Cardinality(S) /\ Clock' = t.ts + Cardinality(S \ {w})
    BY <1>1, <2>1, Zenon DEF Clock
  <2> HIDE DEF S
  <2> QED BY <1>3, <2>2, <2>3
<1>8. ThreadOK(w)'
  <2>1. 0 < next'.ns
    BY <1>1, <1>3
  <2> QED BY <1>4, <2>1, IdleThread, Zenon DEF ThreadOK
<1>9. ASSUME NEW u \in Writers, u # w PROVE ThreadOK(u)'
  <2>1. wr'[u] = wr[u] /\ ThreadOK(u) /\ wr[u] \in Thread
    BY <1>3, <1>4, <1>9, Zenon DEF VersionInv
  <2>2. wr[u].exp \in Nat /\ wr[u].ts \in Nat
    BY <2>1, Zenon DEF Thread
  <2>3. ASSUME wr[u].exp <= pub.ts
        PROVE  /\ wr[u].exp <= t.ts
               /\ \A x \in prim : x.d = wr[u].d /\ x.ts = wr[u].exp /\ x.v = wr[u].old => x \in prim'
    <3>1. wr[u].exp <= t.ts /\ wr[u].exp # t.ts
      BY <1>1, <1>3, <2>2, <2>3
    <3> QED BY <1>1, <3>1, Zenon
  <2>4. ASSUME Installed(u)
        PROVE  /\ t.ts < wr[u].ts /\ (wr[u].ts <= Clock => wr[u].ts <= Clock')
               /\ VersionOf(wr[u]) \in prim => VersionOf(wr[u]) \in prim'
               /\ Seen(prim', wr[u].d, t.ts) = Seen(prim, wr[u].d, pub.ts)
    <3>1. t.ts < wr[u].ts
      BY <1>1, <1>9, <2>4, Zenon
    <3>2. wr[u].ts <= Clock => wr[u].ts <= Clock'
      BY <1>1, <1>3, <1>7, <2>2
    <3>3. VersionOf(wr[u]).ts # t.ts
      <4>1. VersionOf(wr[u]).ts = wr[u].ts
        BY Zenon DEF VersionOf
      <4> QED BY <1>3, <2>2, <3>1, <4>1
    <3>4. wr[u].d # t.d
      BY <1>1, <1>9, <2>4, Zenon DEF VersionInv, t
    <3> QED BY <1>1, <1>2, <3>1, <3>2, <3>3, <3>4, Zenon DEF Seen
  <2>5. CASE Installed(u)
    BY <1>1, <2>1, <2>4, <2>5, Zenon DEF ThreadOK, Installed
  <2>6. CASE ~Installed(u)
    BY <1>1, <2>1, <2>3, <2>6, Zenon DEF ThreadOK, Installed
  <2> QED BY <2>5, <2>6, Zenon
<1>10. \A u, v \in Writers :
         Installed(u)' /\ Installed(v)' /\ (wr'[u].ts = wr'[v].ts \/ wr'[u].d = wr'[v].d) => u = v
  <2>1. \A u \in Writers : Installed(u)' => Installed(u) /\ wr'[u] = wr[u]
    BY <1>4, <1>6, Zenon
  <2> QED BY <2>1, ZenonT(60) DEF VersionInv
<1>11. ASSUME NEW x \in prim' PROVE x.c <=> x.ts <= t.ts
  <2>1. CASE x = new
    BY <1>1, <1>3, <1>5, <2>1
  <2>2. CASE x \in prim /\ x.ts # t.ts
    <3>1. x.c => x.ts <= t.ts
      BY <1>1, <1>3, <2>2 DEF VersionInv, Version
    <3>2. ASSUME ~x.c PROVE ~(x.ts <= t.ts)
      <4>1. PICK u \in Writers : Installed(u) /\ x = VersionOf(wr[u])
        BY <2>2, <3>2, Zenon DEF VersionInv
      <4>2. x.ts = wr[u].ts
        BY <4>1 DEF VersionOf
      <4>3. u # w /\ wr[u].ts \in Nat
        BY <1>3, <2>2, <4>2, Zenon DEF t, Thread
      <4>4. t.ts < wr[u].ts
        BY <1>1, <4>1, <4>3, Zenon
      <4> QED BY <1>3, <4>2, <4>3, <4>4
    <3>3. x.c \in BOOLEAN
      BY <1>3, <2>2, Zenon DEF Version
    <3> QED BY <3>1, <3>2, <3>3, Zenon
  <2> QED BY <1>1, <2>1, <2>2, Zenon
<1>12. \A x \in prim' : ~x.c => \E u \in Writers : Installed(u)' /\ x = VersionOf(wr'[u])
  <2> SUFFICES ASSUME NEW x \in prim', ~x.c PROVE \E u \in Writers : Installed(u)' /\ x = VersionOf(wr'[u])
    BY Zenon
  <2>1. x \in prim /\ x.ts # t.ts
    BY <1>1, <1>5, Zenon
  <2>2. PICK u \in Writers : Installed(u) /\ x = VersionOf(wr[u])
    BY <2>1, Zenon DEF VersionInv
  <2>3. u # w
    <3>1. VersionOf(wr[u]).ts = wr[u].ts
      BY Zenon DEF VersionOf
    <3> QED BY <2>1, <2>2, <3>1, Zenon DEF t
  <2> QED BY <1>4, <1>6, <2>2, <2>3, Zenon
<1>13. \A x, y \in prim' : x.ts = y.ts => x = y
  BY <1>1, <1>5, Zenon DEF VersionInv
<1>14. pub'.ts \in Nat /\ cat'.ns < next'.ns /\ pub'.ns < next'.ns /\ prim' \in SUBSET Version
  BY <1>1, <1>3, <1>5, Zenon DEF VersionInv
<1>15. ASSUME NEW d \in Docs
       PROVE  Upto(prim', d, t.ts) = {}
              \/ \E x \in Upto(prim', d, t.ts) : \A y \in Upto(prim', d, t.ts) : y.ts <= x.ts
  <2>1. CASE d # t.d
    BY <1>2, <2>1, Zenon DEF VersionInv
  <2>2. CASE d = t.d
    <3>1. \A y \in Upto(prim, t.d, pub.ts) \cup {new} : y.ts <= new.ts
      BY <1>1, <1>3, <1>5 DEF Upto, Version
    <3> QED BY <1>2, <2>2, <3>1, Zenon
  <2> QED BY <2>1, <2>2, Zenon
<1> QED BY <1>1, <1>4, <1>8, <1>9, <1>10, <1>11, <1>12, <1>13, <1>14, <1>15, Zenon DEF VersionInv

\* DDL, with no writer inside, keeps the versions or starts an incarnation
\* that no write selected anything from.
LEMMA DdlKeepsVersions ==
  ASSUME CatalogInv, VersionInv, Inside = {}, wr' = wr, pub'.ts = pub.ts,
         prim' = prim \/ (prim' = {} /\ pub'.ns = 0),
         pub'.ns \in {pub.ns, 0, next.ns}, cat'.ns < next'.ns, pub'.ns < next'.ns,
         next'.ns \in Nat, next.ns <= next'.ns
  PROVE  VersionInv'
<1>1. /\ wr \in [Writers -> Thread] /\ prim \in SUBSET Version /\ pub.ts \in Nat
      /\ next.ns \in Nat \ {0} /\ pub.ns \in Nat
  BY Zenon DEF VersionInv, CatalogInv, EntryOK
<1>2. \A u \in Writers : ~Installed(u) /\ ~Installed(u)'
  BY Zenon DEF Inside, Installed
<1>3. ASSUME NEW u \in Writers PROVE ThreadOK(u)'
  <2>1. ThreadOK(u) /\ wr[u] \in Thread
    BY <1>1, Zenon DEF VersionInv
  <2>2. wr[u].from < next.ns /\ wr[u].from \in Nat
    BY <2>1, Zenon DEF ThreadOK, Thread
  <2>3. wr[u].from < next'.ns
    BY <1>1, <2>2
  <2>4. wr[u].from # 0 /\ wr[u].from = pub'.ns => wr[u].from = pub.ns /\ prim' = prim
    BY <1>1, <2>2
  <2> QED BY <1>2, <2>1, <2>3, <2>4, Zenon DEF ThreadOK, Installed
<1>4. \A x \in prim' : x \in prim /\ x.c
  BY <1>2, Zenon DEF VersionInv
<1>5. \A d \in Docs : Upto(prim', d, pub.ts) = {} \/ Upto(prim', d, pub.ts) = Upto(prim, d, pub.ts)
  BY Zenon DEF Upto
<1> QED BY <1>1, <1>2, <1>3, <1>4, <1>5, Zenon DEF VersionInv

\* Reopening keeps the committed versions and no thread.
LEMMA ReopenKeepsVersions ==
  ASSUME CatalogInv, VersionInv, Reopen
  PROVE  VersionInv' /\ \A d, T : Upto(prim', d, T) = Upto(prim, d, T)
<1>1. /\ prim' = {x \in prim : x.c} /\ wr' = [w \in Writers |-> Idle] /\ next' = next
      /\ \E ix : cat' = [ns |-> pub.ns, ix |-> ix] /\ pub' = [pub EXCEPT !.ix = ix]
  BY Zenon DEF Reopen
<1>2. cat'.ns = pub.ns /\ pub'.ns = pub.ns /\ pub'.ts = pub.ts /\ next.ns \in Nat \ {0}
  <2>1. PICK ix : cat' = [ns |-> pub.ns, ix |-> ix] /\ pub' = [pub EXCEPT !.ix = ix]
    BY <1>1, Zenon
  <2>2. DOMAIN pub = {"ns", "ix", "ts"} /\ next.ns \in Nat \ {0}
    BY Zenon DEF CatalogInv
  <2> QED BY <2>1, <2>2, Zenon
<1>3. 0 < next'.ns
  BY <1>1, <1>2
<1>4. \A w \in Writers : wr'[w] = Idle /\ ~Installed(w)' /\ ThreadOK(w)'
  BY <1>1, <1>3, IdleThread, Zenon DEF ThreadOK, Installed
<1>5. wr' \in [Writers -> Thread]
  BY <1>1, IdleThread, Zenon
<1>6. \A d, T : Upto(prim', d, T) = Upto(prim, d, T)
  BY <1>1, Zenon DEF Upto
<1>7. /\ prim' \in SUBSET Version /\ pub'.ts \in Nat /\ cat'.ns < next'.ns /\ pub'.ns < next'.ns
      /\ \A x \in prim' : x \in prim /\ x.c /\ x.ts <= pub'.ts
  BY <1>1, <1>2, Zenon DEF VersionInv
<1>8. /\ \A x \in prim' : x.c <=> x.ts <= pub'.ts
      /\ \A x, y \in prim' : x.ts = y.ts => x = y
  BY <1>7, Zenon DEF VersionInv
<1>9. \A d \in Docs : Upto(prim', d, pub'.ts) = {}
         \/ \E x \in Upto(prim', d, pub'.ts) : \A y \in Upto(prim', d, pub'.ts) : y.ts <= x.ts
  BY <1>2, <1>6, ZenonT(60) DEF VersionInv
<1> QED BY <1>4, <1>5, <1>6, <1>7, <1>8, <1>9, Zenon DEF VersionInv

\* A CRUD step is one of those whose effect on the versions is known.
LEMMA WriterKeepsVersions ==
  ASSUME CatalogInv, VersionInv, NEW w \in Writers, Writer(w)
  PROVE  VersionInv'
BY WriterCases, CalmKeepsVersions, InstallKeepsVersions, PublishMoves, PublishKeepsVersions, Zenon

\* What a thread's move that installs nothing leaves in its record: a staged
\* write's index writes follow one of the two catalogs' entries.
LEMMA CalmStages ==
  ASSUME VersionInv, NEW w \in Writers, ~Installed(w),
         \/ \E d \in Docs, v \in Value : Select(w, d, v)
         \/ Remembers(w) \/ StagesUpdate(w) \/ StagesInsert(w)
  PROVE  /\ \A u \in Writers \ {w} : wr'[u] = wr[u]
         /\ wr'[w].pc # "installed"
         /\ wr'[w].pc = "staged" => \E ix \in {cat.ix, pub.ix} :
              wr'[w].sec = SecWrites(ix, wr'[w].d, wr'[w].old, wr'[w].v)
<1>0. wr \in [Writers -> Thread] /\ wr[w] \in Thread
  BY Zenon DEF VersionInv
<1>1. ASSUME NEW d \in Docs, NEW v \in Value, Select(w, d, v)
      PROVE  (\A u \in Writers \ {w} : wr'[u] = wr[u]) /\ wr'[w].pc = "selected"
  <2>1. PICK old, from, exp : wr' = [wr EXCEPT ![w] =
          [Idle EXCEPT !.pc = "selected", !.d = d, !.v = v, !.old = old, !.from = from, !.exp = exp]]
    BY <1>1, Zenon DEF Select, SetW
  <2>2. wr'[w] = [Idle EXCEPT !.pc = "selected", !.d = d, !.v = v, !.old = old, !.from = from, !.exp = exp]
    BY <1>0, <2>1, Zenon
  <2> QED BY <1>0, <2>1, <2>2, IdleThread, Zenon DEF Thread
<1>2. CASE Remembers(w)
  BY <1>0, <1>2, Zenon DEF Remembers, SetW
<1>3. CASE StagesUpdate(w)
  <2> DEFINE t == wr[w]
              sec == SecWrites(cat.ix, t.d, t.old, t.v)
              r == [t EXCEPT !.pc = "staged", !.sec = sec]
  <2>1. wr'[w] = r /\ \A u \in Writers \ {w} : wr'[u] = wr[u]
    BY <1>0, <1>3, Zenon DEF StagesUpdate, SetW
  <2>2. r.pc = "staged" /\ r.d = t.d /\ r.old = t.old /\ r.v = t.v /\ r.sec = sec
    BY <1>0, Zenon DEF Thread
  <2> QED BY <2>1, <2>2, Zenon
<1>4. CASE StagesInsert(w)
  <2>1. PICK d \in Docs, v \in Values :
          wr' = [wr EXCEPT ![w] = [Idle EXCEPT !.pc = "staged", !.d = d, !.v = v, !.from = pub.ns,
                                   !.sec = SecWrites(pub.ix, d, 0, v)]]
    BY <1>4, Zenon DEF StagesInsert, SetW
  <2> DEFINE sec == SecWrites(pub.ix, d, 0, v)
              r == [Idle EXCEPT !.pc = "staged", !.d = d, !.v = v, !.from = pub.ns, !.sec = sec]
  <2>2. wr'[w] = r /\ \A u \in Writers \ {w} : wr'[u] = wr[u]
    BY <1>0, <2>1, Zenon
  <2>3. r.pc = "staged" /\ r.d = d /\ r.old = 0 /\ r.v = v /\ r.sec = sec
    BY IdleThread, Zenon DEF Thread
  <2> QED BY <2>2, <2>3, Zenon
<1> QED BY <1>1, <1>2, <1>3, <1>4, Zenon

\* Index writes depend on an entry's id and root only.
LEMMA SecWritesOfLeaf ==
  ASSUME NEW ix, ix.id = cat.ix.id, ix.root = "leaf"
  PROVE  \A d, old, v : SecWrites(ix, d, old, v) = SecWrites(LeafEntry, d, old, v)
<1>1. LeafEntry.id = cat.ix.id /\ LeafEntry.root = "leaf"
  BY Zenon DEF LeafEntry
<1> QED BY <1>1, Zenon DEF SecWrites

\* A thread's move that installs nothing keeps the tree's invariant.
LEMMA CalmKeepsTree ==
  ASSUME CatalogInv, VersionInv, TreeInv, NEW w \in Writers, Calm, ~Installed(w),
         \/ \E d \in Docs, v \in Value : Select(w, d, v)
         \/ Remembers(w) \/ StagesUpdate(w) \/ StagesInsert(w)
  PROVE  TreeInv'
<1>1. UNCHANGED <<cat, pub, prim, tree, bld, torn>>
  BY Zenon DEF Calm
<1>2. /\ \A u \in Writers \ {w} : wr'[u] = wr[u]
      /\ wr'[w].pc # "installed"
      /\ wr'[w].pc = "staged" => \E ix \in {cat.ix, pub.ix} :
           wr'[w].sec = SecWrites(ix, wr'[w].d, wr'[w].old, wr'[w].v)
  BY CalmStages, Zenon
<1>3. \A u \in Writers : Installed(u)' <=> Installed(u)
  BY <1>2, Zenon DEF Installed
<1>4. \A u \in Writers : Installed(u) => wr'[u] = wr[u]
  BY <1>2, Zenon
<1>5. ASSUME ~torn, LeafTree PROVE LeafTree'
  <2>1. LeafEntry' = LeafEntry
    BY <1>1, Zenon DEF LeafEntry
  <2>2. cat.ix.id = pub.ix.id /\ cat.ix.root = "leaf" /\ pub.ix.root = "leaf"
    BY <1>5, Zenon DEF CatalogInv, CatalogAgrees, LeafTree
  <2>3. wr'[w].pc = "staged" => wr'[w].sec = SecWrites(LeafEntry, wr'[w].d, wr'[w].old, wr'[w].v)
    <3>1. \A d, old, v : SecWrites(cat.ix, d, old, v) = SecWrites(LeafEntry, d, old, v)
      BY <2>2, SecWritesOfLeaf, Zenon
    <3>2. \A d, old, v : SecWrites(pub.ix, d, old, v) = SecWrites(LeafEntry, d, old, v)
      BY <2>2, SecWritesOfLeaf, Zenon
    <3>3. CASE wr'[w].pc = "staged"
      <4>1. PICK ix \in {cat.ix, pub.ix} : wr'[w].sec = SecWrites(ix, wr'[w].d, wr'[w].old, wr'[w].v)
        BY <1>2, <3>3, Zenon
      <4>2. ix = cat.ix \/ ix = pub.ix
        BY Zenon
      <4>3. CASE ix = cat.ix
        BY ONLY <3>1, <4>1, <4>3, SMT
      <4>4. CASE ix = pub.ix
        BY ONLY <3>2, <4>1, <4>4, SMT
      <4> QED BY <4>2, <4>3, <4>4, Zenon
    <3> QED BY <3>3, Zenon
  <2>4. \A u \in Writers : wr'[u].pc \in {"staged", "installed"} =>
          wr'[u].sec = SecWrites(LeafEntry, wr'[u].d, wr'[u].old, wr'[u].v)
    BY <1>2, <1>5, <2>3, Zenon DEF LeafTree
  <2>5. \A u \in Writers : Installed(u)' =>
          \A s \in wr'[u].sec : "L" \in wr'[u].pages /\ EntryOf(s, wr'[u].ts, FALSE) \in tree.ch
    BY <1>3, <1>4, <1>5, Zenon DEF LeafTree
  <2>6. ASSUME NEW x \in tree.ch, ~x.c
        PROVE \E u \in Writers : Installed(u)' /\ \E s \in wr'[u].sec : x = EntryOf(s, wr'[u].ts, FALSE)
    <3>1. PICK u \in Writers : Installed(u) /\ \E s \in wr[u].sec : x = EntryOf(s, wr[u].ts, FALSE)
      BY <1>5, <2>6, Zenon DEF LeafTree
    <3> QED BY <1>3, <1>4, <3>1, Zenon
  <2> QED BY <1>1, <1>5, <2>1, <2>4, <2>5, <2>6, Zenon DEF LeafTree
<1> QED BY <1>1, <1>5, Zenon DEF TreeInv

\* An installed write's entries are pending in the leaf.
LEMMA InstallKeepsTree ==
  ASSUME CatalogInv, VersionInv, TreeInv, NEW w \in Writers, Installs(w)
  PROVE  TreeInv' /\ tree'.sep = tree.sep /\ tree'.L = tree.L
         /\ \A k : Committed(tree'.ch, k) = Committed(tree.ch, k)
<1> DEFINE t == wr[w]
           ts == Clock + 1
           pages == {Leaf(s.root, s.k) : s \in t.sec}
           r == [t EXCEPT !.pc = "installed", !.ts = ts, !.pages = pages]
           new == {[pg |-> Leaf(s.root, s.k), k |-> s.k, ts |-> ts, live |-> s.live, c |-> FALSE] : s \in t.sec}
<1>1. /\ t.pc = "staged" /\ tree' = [tree EXCEPT !.ch = @ \cup new]
      /\ wr' = [wr EXCEPT ![w] = r] /\ UNCHANGED <<cat, pub, bld, torn>>
  BY Zenon DEF Installs
<1>2. ts \in Nat /\ pub.ts < ts /\ pub.ts \in Nat
  BY ClockIsPast DEF VersionInv
<1> HIDE DEF ts
<1>3. wr \in [Writers -> Thread] /\ t \in Thread /\ t.sec \in SUBSET StagedWrite
  BY Zenon DEF VersionInv, Thread
<1>4. /\ \A u \in Writers \ {w} : wr'[u] = wr[u]
      /\ wr'[w] = r
  BY <1>1, <1>3, Zenon
<1>5. r.pc = "installed" /\ r.d = t.d /\ r.v = t.v /\ r.old = t.old /\ r.ts = ts /\ r.sec = t.sec /\ r.pages = pages
  <2> HIDE DEF t, pages
  <2> QED BY ONLY <1>3, Zenon DEF Thread
<1>6. /\ tree'.ch = tree.ch \cup new /\ tree'.sep = tree.sep /\ tree'.L = tree.L /\ tree'.log = tree.log
      /\ DOMAIN tree' = DOMAIN tree
  <2>1. DOMAIN tree = DOMAIN NoTree
    BY Zenon DEF TreeInv
  <2>2. {"ch", "sep", "L", "log"} \subseteq DOMAIN tree
    BY <2>1 DEF NoTree
  <2> HIDE DEF new
  <2> QED BY <1>1, <2>2, Zenon
<1>7. new \in SUBSET ChainEntry /\ \A x \in new : x.c = FALSE /\ x.ts = ts
  <2>1. ASSUME NEW s \in t.sec
        PROVE  [pg |-> Leaf(s.root, s.k), k |-> s.k, ts |-> ts, live |-> s.live, c |-> FALSE] \in ChainEntry
    <3>1. s.k \in Key /\ s.live \in BOOLEAN
      BY <1>3, Zenon DEF StagedWrite
    <3>2. Leaf(s.root, s.k) \in {"L", "R"}
      BY Zenon DEF Leaf
    <3> QED BY <1>2, <3>1, <3>2, Zenon DEF ChainEntry
  <2>2. new \in SUBSET ChainEntry
    BY <2>1, Zenon
  <2>3. \A x \in new : x.c = FALSE /\ x.ts = ts
    OBVIOUS
  <2> QED BY <2>2, <2>3, Zenon
<1>8. Installed(w)' /\ ~Installed(w) /\ \A u \in Writers \ {w} : Installed(u)' <=> Installed(u)
  BY <1>1, <1>4, <1>5, Zenon DEF Installed
<1>9. \A k : Committed(tree'.ch, k) = Committed(tree.ch, k)
  BY <1>6, <1>7, Zenon DEF Committed
<1>10. ASSUME ~torn, LeafTree PROVE LeafTree'
  <2>1. LeafEntry' = LeafEntry
    BY <1>1, Zenon DEF LeafEntry
  <2>2. t.sec = SecWrites(LeafEntry, t.d, t.old, t.v)
    BY <1>1, <1>10, Zenon DEF LeafTree
  <2>3. \A s \in t.sec : s.root = "leaf"
    <3>1. LeafEntry.root = "leaf"
      BY Zenon DEF LeafEntry
    <3> HIDE DEF t
    <3> QED BY <2>2, <3>1 DEF SecWrites
  <2>4. \A s \in t.sec : Leaf(s.root, s.k) = "L"
    BY <2>3, Zenon DEF Leaf
  <2>5. new = {EntryOf(s, ts, FALSE) : s \in t.sec}
    BY <2>4, Zenon DEF EntryOf
  <2>6. \A s \in t.sec : "L" \in pages
    BY <2>4, Zenon
  <2>7. \A x \in new : x.pg = "L"
    <3> HIDE DEF new
    <3> QED BY <2>5 DEF EntryOf
  <2> HIDE DEF r, new, pages, t
  <2>8. \A u \in Writers : wr'[u].pc \in {"staged", "installed"} =>
          wr'[u].sec = SecWrites(LeafEntry, wr'[u].d, wr'[u].old, wr'[u].v)
    <3>1. \A u \in Writers \ {w} : wr'[u].pc \in {"staged", "installed"} =>
            wr'[u].sec = SecWrites(LeafEntry, wr'[u].d, wr'[u].old, wr'[u].v)
      BY <1>4, <1>10, Zenon DEF LeafTree
    <3>2. wr'[w].sec = SecWrites(LeafEntry, wr'[w].d, wr'[w].old, wr'[w].v)
      BY <1>4, <1>5, <2>2, Zenon
    <3> QED BY <3>1, <3>2, Zenon
  <2>9. ASSUME NEW u \in Writers, Installed(u)', NEW s \in wr'[u].sec
        PROVE  "L" \in wr'[u].pages /\ EntryOf(s, wr'[u].ts, FALSE) \in tree'.ch
    <3>1. CASE u = w
      BY <1>4, <1>5, <1>6, <2>5, <2>6, <2>9, <3>1, Zenon
    <3>2. CASE u # w
      BY <1>4, <1>6, <1>8, <1>10, <2>9, <3>2, Zenon DEF LeafTree
    <3> QED BY <3>1, <3>2, Zenon
  <2>10. ASSUME NEW x \in tree'.ch PROVE x.pg = "L" /\ (x.c <=> x.ts <= pub.ts)
    <3>1. ~(ts <= pub.ts)
      BY <1>2
    <3> QED BY <1>6, <1>7, <1>10, <2>7, <3>1, Zenon DEF LeafTree
  <2>11. ASSUME NEW x \in tree'.ch, ~x.c
         PROVE  \E u \in Writers : Installed(u)' /\ \E s \in wr'[u].sec : x = EntryOf(s, wr'[u].ts, FALSE)
    <3>1. CASE x \in new
      BY <1>4, <1>5, <1>8, <2>5, <3>1, Zenon
    <3>2. CASE x \in tree.ch
      <4>1. PICK u \in Writers : Installed(u) /\ \E s \in wr[u].sec : x = EntryOf(s, wr[u].ts, FALSE)
        BY <1>10, <2>11, <3>2, Zenon DEF LeafTree
      <4>2. wr'[u] = wr[u] /\ Installed(u)'
        BY <1>4, <1>8, <4>1, Zenon
      <4> QED BY <4>1, <4>2, Zenon
    <3> QED BY <1>6, <3>1, <3>2, Zenon
  <2>12. {y \in tree'.ch : y.c} = {y \in tree.ch : y.c}
    BY <1>6, <1>7, Zenon
  <2>13. \A b \in Builders : bld'[b].ent = cat'.ix.id /\ cat'.ix.id # 0 => OneLeaf(bld'[b])
    BY <1>1, <1>10, Zenon DEF LeafTree
  <2>14. tree'.log = {RecordOf(x) : x \in {y \in tree'.ch : y.c}}
    BY <1>6, <1>10, <2>12, Zenon DEF LeafTree
  <2>15. cat'.ix.root = "leaf" /\ pub'.ix.root = "leaf" /\ pub'.ts = pub.ts
    BY <1>1, <1>10, Zenon DEF LeafTree
  <2> QED BY <2>1, <2>8, <2>9, <2>10, <2>11, <2>13, <2>14, <2>15, Zenon DEF LeafTree
<1>11. tree'.ch \in SUBSET ChainEntry /\ tree'.log \in SUBSET LogRecord
  BY <1>6, <1>7, Zenon DEF TreeInv
<1>12. \A b \in Builders : BuilderForm(bld'[b])
  BY <1>1, Zenon DEF TreeInv
<1> QED BY <1>1, <1>6, <1>9, <1>10, <1>11, <1>12, Zenon DEF TreeInv

\* What publishing does to the chains of an index that was never split: the
\* write's entries, and only they, are committed.
LEMMA PublishCommits ==
  ASSUME CatalogInv, VersionInv, TreeInv, NEW w \in Writers, Publish(w), ~torn, tree.sep = <<0, 0>>
  PROVE  \A y : y \in tree'.ch <=> \/ y \in tree.ch /\ y.ts # wr[w].ts
                                   \/ \E s \in wr[w].sec : y = EntryOf(s, wr[w].ts, TRUE)
<1> DEFINE t == wr[w]
           flip(x) == IF x.ts = t.ts /\ x.pg \in t.pages THEN [x EXCEPT !.c = TRUE] ELSE x
<1>1. Installed(w) /\ tree'.ch = {flip(x) : x \in tree.ch}
  <2>1. PICK log : tree' = [tree EXCEPT !.ch = {flip(x) : x \in tree.ch}, !.log = log]
    BY Zenon DEF Publish
  <2>2. DOMAIN tree = DOMAIN NoTree
    BY Zenon DEF TreeInv
  <2>3. "ch" \in DOMAIN tree
    BY <2>2 DEF NoTree
  <2> QED BY <2>1, <2>3, Zenon DEF Publish, Installed
<1>2. LeafTree /\ pub.ts < t.ts /\ t.ts \in Nat /\ pub.ts \in Nat
  BY <1>1, Zenon DEF TreeInv, VersionInv, ThreadOK, Installed, Thread
<1>3. ASSUME NEW x \in tree.ch, x.ts = t.ts PROVE \E s \in t.sec : x = EntryOf(s, t.ts, FALSE)
  <2>1. ~x.c
    BY <1>2, <1>3 DEF LeafTree
  <2>2. PICK u \in Writers : Installed(u) /\ \E s \in wr[u].sec : x = EntryOf(s, wr[u].ts, FALSE)
    BY <1>2, <2>1, Zenon DEF LeafTree
  <2>3. wr[u].ts = t.ts
    BY <1>3, <2>2 DEF EntryOf
  <2>4. u = w
    BY <1>1, <2>2, <2>3, Zenon DEF VersionInv
  <2> QED BY <2>2, <2>4, Zenon
<1>4. \A s \in t.sec : "L" \in t.pages /\ EntryOf(s, t.ts, FALSE) \in tree.ch
  BY <1>1, <1>2, Zenon DEF LeafTree
<1>5. ASSUME NEW s \in t.sec PROVE flip(EntryOf(s, t.ts, FALSE)) = EntryOf(s, t.ts, TRUE)
  <2> DEFINE x == EntryOf(s, t.ts, FALSE)
             y == [x EXCEPT !.c = TRUE]
  <2>1. x \in ChainEntry
    BY <1>4, Zenon DEF TreeInv
  <2>2. x.pg = "L" /\ x.k = s.k /\ x.ts = t.ts /\ x.live = s.live
    BY Zenon DEF EntryOf
  <2>3. flip(x) = y
    BY <1>4, <2>2, Zenon
  <2> HIDE DEF x
  <2>4. y \in ChainEntry /\ y.pg = x.pg /\ y.k = x.k /\ y.ts = x.ts /\ y.live = x.live /\ y.c = TRUE
    BY ONLY <2>1, Zenon DEF ChainEntry
  <2> HIDE DEF y
  <2>5. y = [pg |-> y.pg, k |-> y.k, ts |-> y.ts, live |-> y.live, c |-> y.c]
    BY ONLY <2>4, Zenon DEF ChainEntry
  <2>6. y = EntryOf(s, t.ts, TRUE)
    BY <2>2, <2>4, <2>5, Zenon DEF EntryOf
  <2> HIDE DEF flip
  <2> QED BY <2>3, <2>6, Zenon DEF x
<1>6. \A x \in tree.ch : x.ts # t.ts => flip(x) = x
  BY Zenon
<1>7. \A s : EntryOf(s, t.ts, FALSE).ts = t.ts
  BY DEF EntryOf
<1> HIDE DEF flip, t
<1>8. ASSUME NEW y, y \in tree'.ch
      PROVE  (y \in tree.ch /\ y.ts # t.ts) \/ \E s \in t.sec : y = EntryOf(s, t.ts, TRUE)
  <2>1. PICK x \in tree.ch : y = flip(x)
    BY <1>1, <1>8, Zenon
  <2>2. CASE x.ts = t.ts
    BY <1>5, <1>3, <1>4, <2>1, <2>2, ZenonT(60)
  <2>3. CASE x.ts # t.ts
    BY <1>6, <2>1, <2>3, Zenon
  <2> QED BY <2>2, <2>3, Zenon
<1>9. ASSUME NEW y \in tree.ch, y.ts # t.ts PROVE y \in tree'.ch
  BY <1>1, <1>6, <1>9, Zenon
<1>10. ASSUME NEW s \in t.sec PROVE EntryOf(s, t.ts, TRUE) \in tree'.ch
  BY <1>1, <1>5, <1>4, Zenon
<1> QED BY <1>8, <1>9, <1>10, Zenon DEF t

\* Publishing moves a write's entries from pending to committed and journaled.
LEMMA PublishKeepsTree ==
  ASSUME CatalogInv, VersionInv, TreeInv, NEW w \in Writers, Publish(w), PublishFacts(w)
  PROVE  TreeInv' /\ tree'.sep = tree.sep /\ tree'.L = tree.L
<1> DEFINE t == wr[w]
           flip(x) == IF x.ts = t.ts /\ x.pg \in t.pages THEN [x EXCEPT !.c = TRUE] ELSE x
           recs == {[k |-> s.k, ts |-> t.ts, live |-> s.live] : s \in t.sec}
<1>1. /\ DOMAIN tree' = DOMAIN tree /\ tree'.sep = tree.sep /\ tree'.L = tree.L
      /\ tree'.ch = {flip(x) : x \in tree.ch} /\ tree'.log = tree.log \cup recs
  <2>1. tree' = [tree EXCEPT !.ch = {flip(x) : x \in tree.ch}, !.log = tree.log \cup recs]
    BY Zenon DEF Publish
  <2>2. DOMAIN tree = DOMAIN NoTree
    BY Zenon DEF TreeInv
  <2>3. {"ch", "sep", "L", "log"} \subseteq DOMAIN tree
    BY <2>2 DEF NoTree
  <2> HIDE DEF flip, recs
  <2> QED BY <2>1, <2>3, Zenon
<1>2. tree'.ch \in SUBSET ChainEntry
  <2>1. ASSUME NEW x \in ChainEntry PROVE [x EXCEPT !.c = TRUE] \in ChainEntry
    BY Zenon DEF ChainEntry
  <2> QED BY <1>1, <2>1, Zenon DEF TreeInv
<1>3. ASSUME t.ts \in Nat PROVE tree'.log \in SUBSET LogRecord
  <2>1. ASSUME NEW s \in t.sec PROVE [k |-> s.k, ts |-> t.ts, live |-> s.live] \in LogRecord
    <3>1. s \in StagedWrite
      BY Zenon DEF VersionInv, Thread
    <3>2. s.k \in Key /\ s.live \in BOOLEAN
      BY <3>1, Zenon DEF StagedWrite
    <3> QED BY <1>3, <3>2, Zenon DEF LogRecord
  <2> QED BY <1>1, <2>1, Zenon DEF TreeInv
<1>4. /\ Installed(w) /\ t.ts \in Nat \ {0} /\ pub.ts < t.ts /\ pub'.ts = t.ts /\ pub'.ix = pub.ix
      /\ wr' = [wr EXCEPT ![w] = Idle] /\ UNCHANGED <<cat, bld, torn>>
      /\ \A u \in Writers \ {w} : Installed(u) => t.ts < wr[u].ts
  BY Zenon DEF PublishFacts
<1>5. wr \in [Writers -> Thread] /\ pub.ts \in Nat
  BY Zenon DEF VersionInv
<1>6. wr'[w].pc = "idle" /\ \A u \in Writers \ {w} : wr'[u] = wr[u]
  BY <1>4, <1>5, IdleThread, Zenon
<1>7. ~Installed(w)' /\ \A u \in Writers \ {w} : Installed(u)' <=> Installed(u)
  BY <1>6, Zenon DEF Installed
<1>8. ASSUME ~torn, tree.sep = <<0, 0>> PROVE LeafTree'
  <2>1. LeafTree
    BY <1>8, Zenon DEF TreeInv
  <2>2. \A y : y \in tree'.ch <=> \/ y \in tree.ch /\ y.ts # t.ts
                                  \/ \E s \in t.sec : y = EntryOf(s, t.ts, TRUE)
    BY <1>8, PublishCommits, Zenon
  <2>3. LeafEntry' = LeafEntry
    BY <1>4, Zenon DEF LeafEntry
  <2>4. \A s : LET e == EntryOf(s, t.ts, TRUE)
               IN /\ e.pg = "L" /\ e.c = TRUE /\ e.ts = t.ts
                  /\ RecordOf(e) = [k |-> s.k, ts |-> t.ts, live |-> s.live]
    BY Zenon DEF EntryOf, RecordOf
  <2> HIDE DEF t, flip, recs
  <2>5. \A u \in Writers : wr'[u].pc \in {"staged", "installed"} =>
          wr'[u].sec = SecWrites(LeafEntry, wr'[u].d, wr'[u].old, wr'[u].v)
    <3>1. \A u \in Writers \ {w} : wr'[u].pc \in {"staged", "installed"} =>
            wr'[u].sec = SecWrites(LeafEntry, wr'[u].d, wr'[u].old, wr'[u].v)
      BY <1>6, <2>1, Zenon DEF LeafTree
    <3>2. wr'[w].pc \notin {"staged", "installed"}
      BY <1>6
    <3> QED BY <3>1, <3>2, Zenon
  <2>6. ASSUME NEW u \in Writers, Installed(u)', NEW s \in wr'[u].sec
        PROVE  "L" \in wr'[u].pages /\ EntryOf(s, wr'[u].ts, FALSE) \in tree'.ch
    <3>1. u # w /\ Installed(u) /\ wr'[u] = wr[u]
      BY <1>6, <1>7, <2>6, Zenon
    <3>2. "L" \in wr[u].pages /\ EntryOf(s, wr[u].ts, FALSE) \in tree.ch
      BY <2>1, <2>6, <3>1, Zenon DEF LeafTree
    <3>3. EntryOf(s, wr[u].ts, FALSE).ts # t.ts
      <4>1. EntryOf(s, wr[u].ts, FALSE).ts = wr[u].ts
        BY Zenon DEF EntryOf
      <4>2. wr[u].ts \in Nat /\ t.ts < wr[u].ts
        BY <1>4, <1>5, <3>1, Zenon DEF Thread
      <4>3. t.ts # wr[u].ts
        BY <1>4, <4>2
      <4> QED BY <4>1, <4>3, Zenon
    <3> QED BY <2>2, <3>1, <3>2, <3>3, Zenon
  <2>7. ASSUME NEW x \in tree.ch, x.ts # t.ts
        PROVE  /\ x.pg = "L" /\ (x.c <=> x.ts <= t.ts)
               /\ ~x.c => \E u \in Writers : Installed(u)' /\ \E s \in wr'[u].sec : x = EntryOf(s, wr'[u].ts, FALSE)
    <3>1. x.pg = "L" /\ (x.c <=> x.ts <= pub.ts) /\ x.ts \in Nat /\ x.c \in BOOLEAN
      BY <2>1, Zenon DEF LeafTree, TreeInv, ChainEntry
    <3>2. x.c => x.ts <= t.ts
      BY <1>4, <1>5, <3>1
    <3>3. ASSUME ~x.c
          PROVE  /\ ~(x.ts <= t.ts)
                 /\ \E u \in Writers : Installed(u)' /\ \E s \in wr'[u].sec : x = EntryOf(s, wr'[u].ts, FALSE)
      <4>1. PICK u \in Writers : Installed(u) /\ \E s \in wr[u].sec : x = EntryOf(s, wr[u].ts, FALSE)
        BY <2>1, <3>3, Zenon DEF LeafTree
      <4>2. x.ts = wr[u].ts
        BY <4>1 DEF EntryOf
      <4>3. u # w
        BY <2>7, <4>2, Zenon DEF t
      <4>4. t.ts < wr[u].ts
        BY <1>4, <4>1, <4>3, Zenon
      <4>5. ~(x.ts <= t.ts)
        BY <1>4, <3>1, <4>2, <4>4
      <4>6. Installed(u)' /\ wr'[u] = wr[u]
        BY <1>6, <1>7, <4>1, <4>3, Zenon
      <4> QED BY <4>1, <4>5, <4>6, Zenon
    <3> QED BY <3>1, <3>2, <3>3, Zenon
  <2>8. t.ts <= t.ts
    BY <1>4
  <2>9. \A x \in tree'.ch : x.pg = "L" /\ (x.c <=> x.ts <= t.ts)
    <3>1. ASSUME NEW s PROVE LET e == EntryOf(s, t.ts, TRUE) IN e.pg = "L" /\ (e.c <=> e.ts <= t.ts)
      BY <2>4, <2>8, Zenon
    <3> QED BY <2>2, <2>7, <3>1, Zenon
  <2>10. \A x \in tree'.ch : ~x.c =>
           \E u \in Writers : Installed(u)' /\ \E s \in wr'[u].sec : x = EntryOf(s, wr'[u].ts, FALSE)
    BY <2>2, <2>4, <2>7, ZenonT(60)
  <2>11. tree'.log = {RecordOf(x) : x \in {y \in tree'.ch : y.c}}
    <3>1. tree.log = {RecordOf(x) : x \in {y \in tree.ch : y.c}}
      BY <2>1, Zenon DEF LeafTree
    <3>2. \A x \in tree.ch : x.c => x.ts # t.ts
      BY <1>4, <1>5, <2>1 DEF LeafTree
    <3>3. \A y : y \in tree'.ch /\ y.c <=> (y \in tree.ch /\ y.c) \/ \E s \in t.sec : y = EntryOf(s, t.ts, TRUE)
      <4>1. ASSUME NEW y, y \in tree'.ch, y.c
            PROVE  (y \in tree.ch /\ y.c) \/ \E s \in t.sec : y = EntryOf(s, t.ts, TRUE)
        BY <2>2, <4>1, Zenon
      <4>2. ASSUME NEW y \in tree.ch, y.c PROVE y \in tree'.ch
        BY <2>2, <3>2, <4>2, Zenon
      <4>3. ASSUME NEW s \in t.sec PROVE EntryOf(s, t.ts, TRUE) \in tree'.ch /\ EntryOf(s, t.ts, TRUE).c
        BY <2>2, <2>4, Zenon
      <4> QED BY <4>1, <4>2, <4>3, Zenon
    <3>4. recs = {RecordOf(EntryOf(s, t.ts, TRUE)) : s \in t.sec}
      BY <2>4, Zenon DEF recs
    <3>5. ASSUME NEW r PROVE r \in tree'.log <=> r \in {RecordOf(x) : x \in {y \in tree'.ch : y.c}}
      BY <1>1, <3>1, <3>3, <3>4, Zenon
    <3> QED BY <3>5, Zenon
  <2>12. \A b \in Builders : bld'[b].ent = cat'.ix.id /\ cat'.ix.id # 0 => OneLeaf(bld'[b])
    BY <1>4, <2>1, Zenon DEF LeafTree
  <2>13. cat'.ix.root = "leaf" /\ pub'.ix.root = "leaf"
    BY <1>4, <2>1, Zenon DEF LeafTree
  <2> QED BY <1>4, <2>3, <2>5, <2>6, <2>9, <2>10, <2>11, <2>12, <2>13, Zenon DEF LeafTree
<1>9. t.ts \in Nat
  BY <1>4
<1> QED BY <1>1, <1>2, <1>4, <1>8, <1>9, <1>3, Zenon DEF TreeInv

\* What the builders and a Ready index have stays a view since B.
LEMMA CellsOKStay ==
  ASSUME NEW B, pub.ts \in Nat, pub'.ts \in Nat, pub.ts <= pub'.ts, CellsOK(B),
         \A k \in Key, T \in Nat : T <= pub.ts => (Holds(prim', k, T) <=> Holds(prim, k, T)),
         UNCHANGED <<cat, bld>>, tree'.L = tree.L, \A b \in Builders : bld[b].ts \in Nat
  PROVE  CellsOK(B)'
<1>0. ASSUME NEW T \in Nat, T <= pub.ts
      PROVE  T <= pub'.ts /\ \A k \in Key : Holds(prim', k, T) <=> Holds(prim, k, T)
  BY <1>0
<1>1. ASSUME NEW L, CellsSince(prim, pub.ts, B, L) PROVE CellsSince(prim', pub'.ts, B, L)
  BY <1>0, <1>1, Zenon DEF CellsSince
<1>2. ASSUME NEW b \in Builders, bld[b].ts <= pub.ts PROVE bld[b].ts <= pub'.ts
  BY <1>2
<1>3. ASSUME NEW b \in Builders, bld'[b].ent = cat'.ix.id
      PROVE  BuiltSince(prim', pub'.ts, B, bld'[b], tree'.L)
  <2>1. BuiltSince(prim, pub.ts, B, bld[b], tree.L) /\ bld'[b] = bld[b]
    BY <1>3, Zenon DEF CellsOK
  <2> QED BY <1>1, <1>2, <2>1, Zenon DEF BuiltSince
<1>4. cat'.ix.st = "Ready" => CellsSince(prim', pub'.ts, B, tree'.L)
  BY <1>1, Zenon DEF CellsOK
<1>5. CellsWithin(prim', pub'.ts, B, tree'.L)
  BY <1>0, Zenon DEF CellsOK, CellsWithin
<1> QED BY <1>3, <1>4, <1>5, Zenon DEF CellsOK

\* An installation is in no view and commits no entry.
LEMMA InstallKeepsAgreement ==
  ASSUME CatalogInv, VersionInv, TreeInv, AgreeInv, NEW w \in Writers, Installs(w)
  PROVE  AgreeInv'
<1>1. /\ UNCHANGED <<cat, pub, bld, torn>> /\ prim \subseteq prim'
      /\ pub.ts \in Nat /\ \A b \in Builders : bld[b].ts \in Nat
  BY Zenon DEF Installs, VersionInv, TreeInv, BuilderForm
<1>2. \A d, T : Upto(prim', d, T) = Upto(prim, d, T)
  BY InstallKeepsVersions, Zenon
<1>3. tree'.sep = tree.sep /\ tree'.L = tree.L /\ \A k : Committed(tree'.ch, k) = Committed(tree.ch, k)
  BY InstallKeepsTree, Zenon
<1>4. \A k, T : Holds(prim', k, T) <=> Holds(prim, k, T)
  BY <1>2, Zenon DEF Holds, Seen
<1>5. NotCarried' => NotCarried
  BY <1>1, Zenon DEF NotCarried
<1>6. ASSUME NEW B, ChainsSince(prim, pub.ts, tree.ch, B), CellsOK(B)
      PROVE  ChainsSince(prim', pub'.ts, tree'.ch, B) /\ CellsOK(B)'
  <2>1. ChainsSince(prim', pub.ts, tree'.ch, B)
    BY <1>3, <1>4, <1>6, Zenon DEF ChainsSince
  <2>2. pub'.ts = pub.ts /\ pub.ts <= pub'.ts
    BY <1>1
  <2>3. CellsOK(B)'
    BY <1>1, <1>3, <1>4, <1>6, <2>2, CellsOKStay, Zenon
  <2> QED BY <2>1, <2>2, <2>3, Zenon
<1> QED BY <1>1, <1>3, <1>5, <1>6, Zenon DEF AgreeInv

\* The keys a write touches, and what its entries say of them.
LEMMA SecWritesSay ==
  ASSUME CatalogInv, cat.ix.id # 0, NEW d \in Docs, NEW old \in Value, NEW v \in Value, NEW k \in Key
  PROVE  /\ \A s \in SecWrites(LeafEntry, d, old, v) :
              s.k = k => k[2] = d /\ (s.live <=> v = k[1])
         /\ (\A s \in SecWrites(LeafEntry, d, old, v) : s.k # k) /\ k[2] = d =>
              (old = k[1] <=> v = k[1])
<1>1. LeafEntry.id # 0 /\ LeafEntry.root = "leaf"
  BY Zenon DEF LeafEntry
<1>2. k = <<k[1], k[2]>> /\ k[1] \in Values /\ k[1] # 0 /\ k[2] \in Docs
  BY DdlAssumption DEF Key
<1>3. ASSUME NEW s \in SecWrites(LeafEntry, d, old, v), s.k = k
      PROVE  k[2] = d /\ (s.live <=> v = k[1])
  <2>1. /\ old # v
        /\ \/ s = [k |-> <<old, d>>, live |-> FALSE, root |-> LeafEntry.root]
           \/ s = [k |-> <<v, d>>, live |-> TRUE, root |-> LeafEntry.root]
    BY <1>1, <1>3, Zenon DEF SecWrites
  <2> QED BY <1>2, <1>3, <2>1
<1>4. ASSUME \A s \in SecWrites(LeafEntry, d, old, v) : s.k # k, k[2] = d
      PROVE  old = k[1] <=> v = k[1]
  <2>1. CASE old = v
    BY <2>1, Zenon
  <2>2. CASE old # v
    <3>1. old = k[1] => [k |-> <<old, d>>, live |-> FALSE, root |-> LeafEntry.root] \in SecWrites(LeafEntry, d, old, v)
      BY <1>1, <1>2, <2>2, Zenon DEF SecWrites
    <3>2. v = k[1] => [k |-> <<v, d>>, live |-> TRUE, root |-> LeafEntry.root] \in SecWrites(LeafEntry, d, old, v)
      BY <1>1, <1>2, <2>2, Zenon DEF SecWrites
    <3>3. old # k[1]
      BY <1>2, <1>4, <3>1
    <3>4. v # k[1]
      BY <1>2, <1>4, <3>2
    <3> QED BY <3>3, <3>4, Zenon
  <2> QED BY <2>1, <2>2, Zenon
<1> QED BY <1>3, <1>4, Zenon

\* Publishing adds the write's keys to the chains and its version to the view
\* at once: on every key the two still agree.
LEMMA PublishKeepsAgreement ==
  ASSUME CatalogInv, VersionInv, TreeInv, AgreeInv, NEW w \in Writers, Publish(w)
  PROVE  AgreeInv'
<1> DEFINE t == wr[w]
           new == [d |-> t.d, ts |-> t.ts, v |-> t.v, c |-> TRUE, from |-> t.from]
<1>1. PublishFacts(w)
  BY PublishMoves, Zenon
<1>2. /\ Installed(w) /\ t.d \in Docs /\ t.ts \in Nat \ {0} /\ pub.ts < t.ts
      /\ pub'.ts = t.ts /\ pub'.ns = pub.ns /\ UNCHANGED <<cat, bld, torn>>
      /\ \A y : y \in prim' <=> (y \in prim /\ y.ts # t.ts) \/ y = new
      /\ \A d : \A T \in Nat : T <= pub.ts => Upto(prim', d, T) = Upto(prim, d, T)
      /\ \A d : \A T \in Nat : pub.ts <= T /\ T < t.ts => Upto(prim', d, T) = Upto(prim, d, pub.ts)
      /\ \A d : d # t.d => Upto(prim', d, t.ts) = Upto(prim, d, pub.ts)
      /\ Seen(prim', t.d, t.ts) = t.v
  BY <1>1, Zenon DEF PublishFacts
<1>3. tree'.sep = tree.sep /\ tree'.L = tree.L
  BY <1>1, PublishKeepsTree, Zenon
<1>4. /\ pub.ts \in Nat /\ t \in Thread /\ prim \in SUBSET Version
      /\ \A b \in Builders : bld[b].ts \in Nat
  BY Zenon DEF VersionInv, TreeInv, BuilderForm
<1> SUFFICES ASSUME ~torn', tree'.sep = <<0, 0>>, NotCarried', cat'.ix.id # 0
             PROVE  \E B : ChainsSince(prim', pub'.ts, tree'.ch, B) /\ CellsOK(B)'
  BY Zenon DEF AgreeInv
<1>5. ~torn /\ tree.sep = <<0, 0>> /\ cat.ix.id # 0
  BY <1>2, <1>3, Zenon
<1>6. NotCarried
  <2>1. \A x \in prim : x.c => x.ts # t.ts
    BY <1>2, <1>4 DEF VersionInv, Version
  <2> QED BY <1>2, <2>1, Zenon DEF NotCarried
<1>7. t.from = pub.ns
  <2>1. new \in prim' /\ new.c = TRUE /\ new.from = t.from
    BY <1>2, Zenon
  <2> QED BY <1>2, <2>1, Zenon DEF NotCarried
<1>8. Seen(prim, t.d, pub.ts) = t.old
  BY <1>2, <1>7, Zenon DEF VersionInv, ThreadOK, Installed
<1>9. LeafTree
  BY <1>5, Zenon DEF TreeInv
<1>10. t.sec = SecWrites(LeafEntry, t.d, t.old, t.v)
  BY <1>2, <1>9, Zenon DEF LeafTree, Installed
<1>11. \A y : y \in tree'.ch <=> \/ y \in tree.ch /\ y.ts # t.ts
                                 \/ \E s \in t.sec : y = EntryOf(s, t.ts, TRUE)
  BY <1>5, PublishCommits, Zenon
<1>12. t.old \in Value /\ t.v \in Value
  BY <1>4, Zenon DEF Thread
<1>13. \A s : LET e == EntryOf(s, t.ts, TRUE) IN e.c = TRUE /\ e.ts = t.ts /\ e.k = s.k /\ e.live = s.live
  BY Zenon DEF EntryOf
<1>14. \A x \in tree.ch : x.ts \in Nat /\ (x.c => x.ts < t.ts /\ x.ts # t.ts)
  BY <1>2, <1>4, <1>9 DEF LeafTree, TreeInv, ChainEntry
<1>15. \A k \in Key : k[2] \in Docs
  BY DEF Key
<1>16. PICK B : ChainsSince(prim, pub.ts, tree.ch, B) /\ CellsOK(B)
  BY <1>5, <1>6, Zenon DEF AgreeInv
<1> HIDE DEF t, new
<1>17. ASSUME NEW k \in Key
      PROVE  /\ \A s \in t.sec : s.k = k => k[2] = t.d /\ (s.live <=> t.v = k[1])
             /\ (\A s \in t.sec : s.k # k) /\ k[2] = t.d => (t.old = k[1] <=> t.v = k[1])
  BY ONLY CatalogInv, <1>2, <1>5, <1>10, <1>12, k \in Key, SecWritesSay, SMT
<1>18. B \in Nat /\ B <= t.ts
  <2>1. B \in Nat /\ B <= pub.ts
    BY <1>16, Zenon DEF ChainsSince
  <2> QED BY <1>2, <1>4, <2>1
<1>19. ASSUME NEW k \in Key, NEW s \in t.sec, s.k = k
       PROVE  /\ Committed(tree'.ch, k) # {}
              /\ Newest(Committed(tree'.ch, k)).live <=> Holds(prim', k, t.ts)
  <2>1. k[2] = t.d /\ \A r \in t.sec : r.k = k => (r.live <=> t.v = k[1])
    BY <1>19, <1>17, Zenon
  <2>2. Holds(prim', k, t.ts) <=> t.v = k[1]
    BY <1>2, <2>1, Zenon DEF Holds
  <2> DEFINE C == Committed(tree'.ch, k)
              e == EntryOf(s, t.ts, TRUE)
  <2>3. e \in C /\ e.ts = t.ts
    BY <1>11, <1>13, <1>19, Zenon DEF Committed
  <2>4. \A x \in C : \/ x \in tree.ch /\ x.ts \in Nat /\ x.ts < t.ts
                     \/ x.ts = t.ts /\ \E r \in t.sec : r.k = k /\ x.live = r.live
    <3>1. ASSUME NEW x \in C
          PROVE  \/ x \in tree.ch /\ x.ts \in Nat /\ x.ts < t.ts
                 \/ x.ts = t.ts /\ \E r \in t.sec : r.k = k /\ x.live = r.live
      <4>1. x \in tree'.ch /\ x.k = k /\ x.c
        BY Zenon DEF Committed
      <4>2. CASE x \in tree.ch /\ x.ts # t.ts
        BY <1>14, <4>1, <4>2, Zenon
      <4>3. CASE \E r \in t.sec : x = EntryOf(r, t.ts, TRUE)
        BY <1>13, <4>1, <4>3, Zenon
      <4> QED BY <1>11, <4>1, <4>2, <4>3, Zenon
    <3> QED BY <3>1, Zenon
  <2> HIDE DEF C, e
  <2>5. \A y \in C : y.ts <= e.ts
    BY <1>2, <2>3, <2>4
  <2>6. Newest(C) \in C /\ \A y \in C : y.ts <= Newest(C).ts
    BY <2>3, <2>5, Zenon DEF Newest
  <2>7. t.ts <= Newest(C).ts
    BY <2>3, <2>6, Zenon
  <2>8. ~(Newest(C).ts \in Nat /\ Newest(C).ts < t.ts)
    BY <1>2, <2>7
  <2>9. \E r \in t.sec : r.k = k /\ Newest(C).live = r.live
    BY <2>4, <2>6, <2>8, Zenon
  <2>10. Newest(C).live <=> t.v = k[1]
    BY <2>1, <2>9, Zenon
  <2>11. C # {}
    BY <2>3, Zenon
  <2> QED BY <2>2, <2>10, <2>11, Zenon DEF C
<1>20. ASSUME NEW k \in Key, \A s \in t.sec : s.k # k
       PROVE  /\ Committed(tree'.ch, k) = Committed(tree.ch, k)
              /\ Holds(prim', k, t.ts) <=> Holds(prim, k, pub.ts)
  <2>1. ASSUME NEW y PROVE y \in Committed(tree'.ch, k) <=> y \in Committed(tree.ch, k)
    <3>1. y \in Committed(tree.ch, k) => y \in Committed(tree'.ch, k)
      BY <1>11, <1>14, Zenon DEF Committed
    <3>2. ASSUME y \in Committed(tree'.ch, k) PROVE y \in Committed(tree.ch, k)
      <4>1. y \in tree'.ch /\ y.k = k /\ y.c
        BY <3>2, Zenon DEF Committed
      <4>2. ~ \E s \in t.sec : y = EntryOf(s, t.ts, TRUE)
        BY <1>13, <1>20, <4>1, Zenon
      <4> QED BY <1>11, <4>1, <4>2, Zenon DEF Committed
    <3> QED BY <3>1, <3>2, Zenon
  <2>2. Committed(tree'.ch, k) = Committed(tree.ch, k)
    BY <2>1, Zenon
  <2>3. CASE k[2] # t.d
    <3>1. Upto(prim', k[2], t.ts) = Upto(prim, k[2], pub.ts)
      BY <1>2, <2>3, Zenon
    <3>2. Holds(prim', k, t.ts) <=> Holds(prim, k, pub.ts)
      BY <3>1, Zenon DEF Holds, Seen
    <3> QED BY <2>2, <3>2, Zenon
  <2>4. CASE k[2] = t.d
    <3>1. t.old = k[1] <=> t.v = k[1]
      BY <1>20, <1>17, <2>4, Zenon
    <3>2. Holds(prim', k, t.ts) <=> t.v = k[1]
      BY <1>2, <2>4, Zenon DEF Holds
    <3>3. Holds(prim, k, pub.ts) <=> t.old = k[1]
      BY <1>8, <2>4, Zenon DEF Holds
    <3> QED BY <2>2, <3>1, <3>2, <3>3, Zenon
  <2> QED BY <2>3, <2>4, Zenon
<1>21. ASSUME NEW k \in Key, Committed(tree'.ch, k) = {}, NEW T \in Nat, B <= T, T <= t.ts
       PROVE  Holds(prim', k, T) <=> Holds(prim', k, t.ts)
  <2>1. \A s \in t.sec : s.k # k
    BY <1>19, <1>21, Zenon
  <2>2. Committed(tree.ch, k) = {} /\ (Holds(prim', k, t.ts) <=> Holds(prim, k, pub.ts))
    BY <1>20, <1>21, <2>1, Zenon
  <2>3. CASE T <= pub.ts
    <3>1. Holds(prim', k, T) <=> Holds(prim, k, T)
      BY <1>2, <2>3, Zenon DEF Holds, Seen
    <3>2. Holds(prim, k, T) <=> Holds(prim, k, pub.ts)
      BY <1>16, <1>21, <2>2, <2>3, Zenon DEF ChainsSince
    <3> QED BY <2>2, <3>1, <3>2, Zenon
  <2>4. CASE pub.ts <= T /\ T < t.ts
    BY <1>2, <2>2, <2>4, Zenon DEF Holds, Seen
  <2>5. T <= pub.ts \/ (pub.ts <= T /\ T < t.ts) \/ T = t.ts
    BY <1>2, <1>4, <1>21
  <2> QED BY <2>3, <2>4, <2>5, Zenon
<1>22. ASSUME NEW k \in Key, Committed(tree'.ch, k) # {}
       PROVE  Newest(Committed(tree'.ch, k)).live <=> Holds(prim', k, t.ts)
  <2>1. CASE \E s \in t.sec : s.k = k
    BY <1>19, <2>1, Zenon
  <2>2. CASE \A s \in t.sec : s.k # k
    BY <1>16, <1>20, <1>22, <2>2, Zenon DEF ChainsSince
  <2> QED BY <2>1, <2>2, Zenon
<1>23. ChainsSince(prim', t.ts, tree'.ch, B)
  BY <1>18, <1>21, <1>22, Zenon DEF ChainsSince
<1>24. CellsOK(B)'
  <2>1. pub'.ts \in Nat /\ pub.ts <= pub'.ts
    BY <1>2, <1>4
  <2>2. \A k \in Key, T \in Nat : T <= pub.ts => (Holds(prim', k, T) <=> Holds(prim, k, T))
    BY <1>2, Zenon DEF Holds, Seen
  <2> QED BY <1>2, <1>3, <1>4, <1>16, <2>1, <2>2, CellsOKStay, Zenon
<1> QED BY <1>2, <1>23, <1>24, Zenon

\* A CRUD step keeps the tree and the agreement.
LEMMA WriterKeepsAgreement ==
  ASSUME CatalogInv, VersionInv, TreeInv, AgreeInv, NEW w \in Writers, Writer(w)
  PROVE  TreeInv' /\ AgreeInv'
<1>1. CASE /\ Calm /\ ~Installed(w)
           /\ \/ \E d \in Docs, v \in Value : Select(w, d, v)
              \/ Remembers(w) \/ StagesUpdate(w) \/ StagesInsert(w)
  <2>1. TreeInv'
    BY <1>1, CalmKeepsTree, Zenon
  <2>2. UNCHANGED <<cat, pub, prim, tree, bld, torn>>
    BY <1>1, Zenon DEF Calm
  <2>3. AgreeInv'
    BY <2>2, Zenon DEF AgreeInv, CellsOK, NotCarried
  <2> QED BY <2>1, <2>3, Zenon
<1>2. CASE Installs(w)
  BY <1>2, InstallKeepsTree, InstallKeepsAgreement, Zenon
<1>3. CASE Publish(w)
  BY <1>3, PublishMoves, PublishKeepsTree, PublishKeepsAgreement, Zenon
<1> QED BY <1>1, <1>2, <1>3, WriterCases, Zenon

(***************************************************************************)
(* The index beside DDL, builders and reopening                            *)
(***************************************************************************)

\* The keys of a view, one by one.
LEMMA KeysHold ==
  ASSUME NEW ts, NEW k \in Key
  PROVE  k \in KeysAt(ts) <=> Holds(prim, k, ts)
<1>1. ASSUME NEW d PROVE Visible(d, ts) = Seen(prim, d, ts)
  BY VisibleIsSeen, Zenon
<1>2. k = <<k[1], k[2]>> /\ k[2] \in Docs /\ k[1] # 0
  BY DdlAssumption DEF Key
<1>3. k \in KeysAt(ts) => Seen(prim, k[2], ts) = k[1]
  BY <1>1, <1>2 DEF KeysAt
<1>4. Seen(prim, k[2], ts) = k[1] => k \in KeysAt(ts)
  BY <1>1, <1>2 DEF KeysAt
<1> QED BY <1>3, <1>4, Zenon DEF Holds

\* The published view has keys of the index only.
LEMMA PublishedKeys ==
  ASSUME VersionInv
  PROVE  KeysAt(pub.ts) \subseteq Key
<1>1. ASSUME NEW d \in Docs, Visible(d, pub.ts) # 0 PROVE <<Visible(d, pub.ts), d>> \in Key
  <2> DEFINE us == Upto(prim, d, pub.ts)
  <2>1. us # {} /\ Visible(d, pub.ts) = Newest(us).v
    BY <1>1, VisibleIsSeen, Zenon DEF Seen
  <2>2. Newest(us) \in us
    BY <2>1, Zenon DEF VersionInv, Newest
  <2>3. Newest(us) \in prim
    BY <2>2, Zenon DEF Upto
  <2>4. Visible(d, pub.ts) \in Values
    <3> HIDE DEF us
    <3>1. Newest(us).v \in Values \cup {0}
      BY <2>3, Zenon DEF VersionInv, Version, Value
    <3> QED BY <1>1, <2>1, <3>1
  <2> QED BY <2>4, Zenon DEF Key
<1> QED BY <1>1, Zenon DEF KeysAt

\* Steps that leave the versions and the threads alone.
LEMMA VersionFrame ==
  ASSUME VersionInv, UNCHANGED <<prim, wr, next>>, pub'.ts = pub.ts, pub'.ns = pub.ns, cat'.ns = cat.ns
  PROVE  VersionInv'
<1>1. Clock' = Clock
  BY Zenon DEF Clock
<1>2. \A w \in Writers : ThreadOK(w)'
  BY <1>1, ZenonT(60) DEF VersionInv, ThreadOK
<1> QED BY <1>2, Zenon DEF VersionInv, Installed

\* Steps that leave the chains and the threads alone.
LEMMA TreeFrame ==
  ASSUME TreeInv, ~torn, wr' = wr, DOMAIN tree' = DOMAIN tree,
         tree'.ch = tree.ch, tree'.log = tree.log, tree'.sep = tree.sep, pub'.ts = pub.ts,
         cat'.ix.id = cat.ix.id, cat'.ix.root \in {"leaf", cat.ix.root},
         pub'.ix.root \in {"leaf", cat.ix.root, pub.ix.root},
         \A b \in Builders : BuilderForm(bld'[b]),
         \A b \in Builders : tree.sep = <<0, 0>> /\ bld'[b].ent = cat.ix.id /\ cat.ix.id # 0 => OneLeaf(bld'[b])
  PROVE  TreeInv'
<1>1. ASSUME LeafTree, tree.sep = <<0, 0>> PROVE LeafTree'
  <2>1. LeafEntry' = LeafEntry
    BY Zenon DEF LeafEntry
  <2>2. cat'.ix.root = "leaf" /\ pub'.ix.root = "leaf"
    BY <1>1 DEF LeafTree
  <2>3. \A b \in Builders : bld'[b].ent = cat'.ix.id /\ cat'.ix.id # 0 => OneLeaf(bld'[b])
    BY <1>1, Zenon
  <2>4. \A w \in Writers : Installed(w)' <=> Installed(w)
    BY Zenon DEF Installed
  <2>5. \A w \in Writers : wr'[w].pc \in {"staged", "installed"} =>
          wr'[w].sec = SecWrites(LeafEntry', wr'[w].d, wr'[w].old, wr'[w].v)
    BY <1>1, <2>1, Zenon DEF LeafTree
  <2>6. \A w \in Writers : Installed(w)' =>
          \A s \in wr'[w].sec : "L" \in wr'[w].pages /\ EntryOf(s, wr'[w].ts, FALSE) \in tree'.ch
    BY <1>1, <2>4, Zenon DEF LeafTree
  <2>7. \A x \in tree'.ch : x.pg = "L" /\ (x.c <=> x.ts <= pub'.ts)
    BY <1>1, Zenon DEF LeafTree
  <2>8. \A x \in tree'.ch : ~x.c =>
          \E w \in Writers : Installed(w)' /\ \E s \in wr'[w].sec : x = EntryOf(s, wr'[w].ts, FALSE)
    <3> SUFFICES ASSUME NEW x \in tree'.ch, ~x.c
                 PROVE  \E w \in Writers : Installed(w)' /\ \E s \in wr'[w].sec : x = EntryOf(s, wr'[w].ts, FALSE)
      BY Zenon
    <3>1. x \in tree.ch
      BY Zenon
    <3>2. PICK w \in Writers : Installed(w) /\ \E s \in wr[w].sec : x = EntryOf(s, wr[w].ts, FALSE)
      BY <1>1, <3>1, Zenon DEF LeafTree
    <3> QED BY <2>4, <3>2, Zenon
  <2>9. tree'.log = {RecordOf(x) : x \in {y \in tree'.ch : y.c}}
    BY <1>1, Zenon DEF LeafTree
  <2> QED BY <2>2, <2>3, <2>5, <2>6, <2>7, <2>8, <2>9, Zenon DEF LeafTree
<1> QED BY <1>1, Zenon DEF TreeInv

\* A tree without chains, with no writer inside.
LEMMA FreshTree ==
  ASSUME \A w \in Writers : wr'[w].pc \notin {"staged", "installed"}, DOMAIN tree' = DOMAIN NoTree,
         tree'.ch = {}, tree'.log = {}, cat'.ix.root = "leaf", pub'.ix.root = "leaf",
         \A b \in Builders : BuilderForm(bld'[b]),
         \A b \in Builders : bld'[b].ent = cat'.ix.id /\ cat'.ix.id # 0 => OneLeaf(bld'[b])
  PROVE  TreeInv'
<1>1. \A w \in Writers : ~Installed(w)' /\ wr'[w].pc \notin {"staged", "installed"}
  BY Zenon DEF Installed
<1>2. tree'.log = {RecordOf(x) : x \in {y \in tree'.ch : y.c}}
  BY Zenon
<1>3. LeafTree'
  BY <1>1, <1>2, Zenon DEF LeafTree
<1> QED BY <1>3, Zenon DEF TreeInv

\* The empty tree has the form FreshTree asks for.
LEMMA NoTreeForm == /\ NoTree.ch = {} /\ NoTree.log = {} /\ NoTree.sep = <<0, 0>>
                    /\ NoTree.L = {} /\ BuilderForm(NoBuild) /\ NoBuild.ent = 0
BY DEF NoTree, NoBuild, BuilderForm

\* Steps that leave the versions and the chains alone keep the agreement when
\* the cells are still such views.
LEMMA AgreeFrame ==
  ASSUME AgreeInv, ~torn, prim' = prim, pub'.ts = pub.ts, pub'.ns = pub.ns,
         tree'.ch = tree.ch, tree'.sep = tree.sep, cat'.ix.id = cat.ix.id,
         \A B : tree.sep = <<0, 0>> /\ cat.ix.id # 0 /\ ChainsSince(prim, pub.ts, tree.ch, B) /\ CellsOK(B)
                => CellsOK(B)'
  PROVE  AgreeInv'
<1>1. NotCarried' => NotCarried
  BY Zenon DEF NotCarried
<1> QED BY <1>1, Zenon DEF AgreeInv

\* A builder's step beside an unchanged tree.
LEMMA BuildFrame ==
  ASSUME CatalogInv, VersionInv, TreeInv, AgreeInv, ~torn, NEW b \in Builders,
         UNCHANGED <<cat, pub, next, prim, tree, wr>>,
         \A a \in Builders \ {b} : bld'[a] = bld[a], BuilderForm(bld'[b]),
         tree.sep = <<0, 0>> /\ bld'[b].ent = cat.ix.id /\ cat.ix.id # 0 => OneLeaf(bld'[b]),
         tree.sep = <<0, 0>> /\ cat.ix.id # 0 /\ bld'[b].ent = cat.ix.id =>
           \A B : ChainsSince(prim, pub.ts, tree.ch, B) /\ CellsOK(B)
                  => BuiltSince(prim, pub.ts, B, bld'[b], tree.L)
  PROVE  VersionInv' /\ TreeInv' /\ AgreeInv'
<1>1. VersionInv'
  BY VersionFrame, Zenon
<1>2. \A a \in Builders : BuilderForm(bld'[a])
  BY Zenon DEF TreeInv
<1>3. \A a \in Builders : tree.sep = <<0, 0>> /\ bld'[a].ent = cat.ix.id /\ cat.ix.id # 0 => OneLeaf(bld'[a])
  BY Zenon DEF TreeInv, LeafTree
<1>4. TreeInv'
  BY <1>2, <1>3, TreeFrame, Zenon
<1>5. ASSUME NEW B, tree.sep = <<0, 0>>, cat.ix.id # 0, ChainsSince(prim, pub.ts, tree.ch, B), CellsOK(B)
      PROVE  CellsOK(B)'
  BY <1>5, Zenon DEF CellsOK
<1>6. pub'.ts = pub.ts /\ pub'.ns = pub.ns /\ tree'.ch = tree.ch /\ tree'.sep = tree.sep /\ cat'.ix.id = cat.ix.id
  BY Zenon
<1>7. AgreeInv'
  BY <1>5, <1>6, AgreeFrame, Zenon
<1> QED BY <1>1, <1>4, <1>7, Zenon

\* Creating or dropping a namespace, or DDL on another name, recorded or
\* refused: the index stays as it was, or there is none.
LEMMA NamespaceKeepsIndex ==
  ASSUME CatalogInv, VersionInv, TreeInv, AgreeInv, ~torn, CreateNamespace \/ DropNamespace \/ OtherDdl
  PROVE  VersionInv' /\ TreeInv' /\ AgreeInv'
<1>1. /\ Inside = {} /\ UNCHANGED <<wr, bld>>
  BY Zenon DEF CreateNamespace, DropNamespace, OtherDdl, Ddl
<1>2. /\ pub.ts \in Nat /\ next.ns \in Nat \ {0} /\ cat.ns = pub.ns /\ cat.ix.id = pub.ix.id
      /\ cat.ns < next.ns /\ pub.ns < next.ns /\ DOMAIN next = {"ns", "ix"}
      /\ cat.ns \in Nat
  BY DEF CatalogInv, EntryOK, CatalogAgrees, VersionInv
<1>3. /\ \A w \in Writers : wr'[w].pc \notin {"staged", "installed"}
      /\ \A b \in Builders : BuilderForm(bld'[b])
  BY <1>1, Zenon DEF Inside, TreeInv
<1>4. \A b \in Builders : tree.sep = <<0, 0>> /\ bld'[b].ent = cat.ix.id /\ cat.ix.id # 0 => OneLeaf(bld'[b])
  BY <1>1, Zenon DEF TreeInv, LeafTree
<1>5. NoIndex.id = 0 /\ NoIndex.root = "leaf"
  BY DEF NoIndex
<1>6. CASE CreateNamespace
  <2>1. /\ cat.ns = 0 /\ next'.ns = next.ns + 1 /\ UNCHANGED <<prim, tree, torn>>
        /\ cat'.ix = NoIndex /\ cat'.ns \in {0, next.ns} /\ pub'.ts = pub.ts
        /\ pub'.ns \in {next.ns, pub.ns} /\ (pub'.ix = NoIndex \/ pub'.ix = pub.ix)
    <3>1. /\ cat.ns = 0 /\ next' = [next EXCEPT !.ns = @ + 1] /\ UNCHANGED <<prim, tree, torn>>
          /\ \/ /\ cat' = [ns |-> next.ns, ix |-> NoIndex]
                /\ pub' = [ns |-> cat'.ns, ix |-> cat'.ix, ts |-> pub.ts]
             \/ cat' = [ns |-> 0, ix |-> NoIndex] /\ pub' = pub
      BY <1>6, Zenon DEF CreateNamespace, CommitCatalog, RefuseCatalog, CreateCollection, NoCollection, PublishedCatalog
    <3>2. next'.ns = next.ns + 1
      BY <1>2, <3>1, Zenon
    <3>3. CASE cat' = [ns |-> next.ns, ix |-> NoIndex] /\ pub' = [ns |-> cat'.ns, ix |-> cat'.ix, ts |-> pub.ts]
      <4>1. cat'.ns = next.ns /\ cat'.ix = NoIndex
        BY <3>3, Zenon
      <4>2. pub'.ns = next.ns /\ pub'.ix = NoIndex /\ pub'.ts = pub.ts
        BY <3>3, <4>1, Zenon
      <4> QED BY <3>1, <3>2, <4>1, <4>2, Zenon
    <3>4. CASE cat' = [ns |-> 0, ix |-> NoIndex] /\ pub' = pub
      BY <3>1, <3>2, <3>4, Zenon
    <3> QED BY <3>1, <3>3, <3>4, Zenon
  <2>2. pub'.ns \in {pub.ns, 0, next.ns} /\ cat'.ns < next'.ns /\ pub'.ns < next'.ns /\ next'.ns \in Nat /\ next.ns <= next'.ns
    BY <1>2, <2>1
  <2>3. VersionInv'
    <3>1. Inside = {} /\ wr' = wr /\ prim' = prim /\ pub'.ts = pub.ts
      BY <1>1, <2>1, Zenon
    <3> QED BY ONLY CatalogInv, VersionInv, <2>2, <3>1, DdlKeepsVersions, SMT
  <2>4. cat.ix.id = 0
    BY <2>1, Zenon DEF CatalogInv, EntryOK
  <2>5. TreeInv'
    <3>1. cat'.ix.root \in {"leaf", cat.ix.root} /\ pub'.ix.root \in {"leaf", cat.ix.root, pub.ix.root}
      BY <1>5, <2>1
    <3>2. cat'.ix.id = cat.ix.id
      BY <1>5, <2>1, <2>4, Zenon
    <3>3. DOMAIN tree' = DOMAIN tree /\ tree'.ch = tree.ch /\ tree'.log = tree.log /\ tree'.sep = tree.sep /\ wr' = wr
      BY <1>1, <2>1, Zenon
    <3> QED BY <1>3, <1>4, <2>1, <3>1, <3>2, <3>3, TreeFrame, Zenon
  <2>6. AgreeInv'
    BY <1>5, <2>1, Zenon DEF AgreeInv
  <2> QED BY <2>3, <2>5, <2>6, Zenon
<1>7. CASE DropNamespace
  <2>1. next' = next /\ (\/ /\ cat' = [ns |-> 0, ix |-> NoIndex] /\ pub' = [ns |-> 0, ix |-> NoIndex, ts |-> pub.ts]
                            /\ prim' = {} /\ tree' = NoTree
                         \/ /\ cat' = [ns |-> cat.ns, ix |-> cat.ix] /\ pub' = pub
                            /\ UNCHANGED <<prim, tree, torn>>)
    BY <1>7, ZenonT(60) DEF DropNamespace, CommitCatalog, RefuseCatalog, RestoreDropped, NoCollection, PublishedCatalog
  <2>2. CASE /\ cat' = [ns |-> 0, ix |-> NoIndex] /\ pub' = [ns |-> 0, ix |-> NoIndex, ts |-> pub.ts]
             /\ prim' = {} /\ tree' = NoTree
    <3>1. cat'.ns = 0 /\ cat'.ix = NoIndex /\ pub'.ns = 0 /\ pub'.ix = NoIndex /\ pub'.ts = pub.ts
      BY <2>2, Zenon
    <3>2. cat'.ns < next'.ns /\ pub'.ns < next'.ns /\ next'.ns \in Nat /\ next.ns <= next'.ns
      BY <1>2, <2>1, <3>1
    <3>3. VersionInv'
      BY <1>1, <2>2, <3>1, <3>2, DdlKeepsVersions, Zenon
    <3>4. TreeInv'
      BY <1>3, <1>5, <2>2, <3>1, NoTreeForm, FreshTree, Zenon
    <3>5. AgreeInv'
      BY <1>5, <3>1, Zenon DEF AgreeInv
    <3> QED BY <3>3, <3>4, <3>5, Zenon
  <2>3. CASE cat' = [ns |-> cat.ns, ix |-> cat.ix] /\ pub' = pub /\ UNCHANGED <<prim, tree, torn>>
    <3>1. cat'.ns = cat.ns /\ cat'.ix = cat.ix
      BY <2>3, Zenon
    <3>2. VersionInv'
      BY <1>1, <2>1, <2>3, <3>1, VersionFrame, Zenon
    <3>3. TreeInv'
      BY <1>1, <2>3, <3>1, Zenon DEF TreeInv, LeafTree, LeafEntry, Installed
    <3>4. AgreeInv'
      BY <1>1, <2>3, <3>1, Zenon DEF AgreeInv, CellsOK, NotCarried
    <3> QED BY <3>2, <3>3, <3>4, Zenon
  <2> QED BY <2>1, <2>2, <2>3, Zenon
<1>8. CASE OtherDdl
  <2>1. cat' = cat /\ pub' = [ns |-> cat.ns, ix |-> cat.ix, ts |-> pub.ts] /\ UNCHANGED <<next, prim, tree, torn>>
    BY <1>8, Zenon DEF OtherDdl, CommitCatalog, PublishedCatalog
  <2>2. pub'.ns = pub.ns /\ pub'.ix = cat.ix /\ pub'.ts = pub.ts
    BY <1>2, <2>1, Zenon
  <2>3. VersionInv'
    BY <1>1, <2>1, <2>2, VersionFrame, Zenon
  <2>4. TreeInv'
    <3>1. cat'.ix.root \in {"leaf", cat.ix.root} /\ pub'.ix.root \in {"leaf", cat.ix.root, pub.ix.root}
      BY <2>1, <2>2
    <3>2. /\ DOMAIN tree' = DOMAIN tree /\ tree'.ch = tree.ch /\ tree'.log = tree.log /\ tree'.sep = tree.sep
          /\ wr' = wr /\ cat'.ix.id = cat.ix.id
      BY <1>1, <2>1, Zenon
    <3> QED BY <1>3, <1>4, <2>2, <3>1, <3>2, TreeFrame, Zenon
  <2>5. AgreeInv'
    BY <1>1, <2>1, <2>2, Zenon DEF AgreeInv, CellsOK, NotCarried
  <2> QED BY <2>3, <2>4, <2>5, Zenon
<1> QED BY <1>6, <1>7, <1>8, Zenon

\* A recorded drop_index leaves no index; a refused one is torn.
LEMMA DropIndexKeepsIndex ==
  ASSUME CatalogInv, VersionInv, TreeInv, AgreeInv, ~torn, DropIndex, ~torn'
  PROVE  VersionInv' /\ TreeInv' /\ AgreeInv'
<1>1. /\ Inside = {} /\ UNCHANGED <<next, prim, wr, bld>> /\ tree' = NoTree
      /\ cat' = [cat EXCEPT !.ix = NoIndex] /\ pub' = [ns |-> cat'.ns, ix |-> cat'.ix, ts |-> pub.ts]
  BY Zenon DEF DropIndex, Ddl, CommitCatalog, DropIndexEntry, PublishedCatalog
<1>2. cat'.ns = cat.ns /\ cat'.ix = NoIndex /\ pub'.ns = cat.ns /\ pub'.ix = NoIndex /\ pub'.ts = pub.ts
  BY <1>1, Zenon DEF CatalogInv
<1>3. cat.ns = pub.ns
  BY Zenon DEF CatalogInv, CatalogAgrees
<1>4. VersionInv'
  BY <1>1, <1>2, <1>3, VersionFrame, Zenon
<1>5. NoIndex.id = 0 /\ NoIndex.root = "leaf"
  BY DEF NoIndex
<1>6. /\ \A w \in Writers : wr'[w].pc \notin {"staged", "installed"}
      /\ \A b \in Builders : BuilderForm(bld'[b])
  BY <1>1, Zenon DEF Inside, TreeInv
<1>7. TreeInv'
  BY <1>1, <1>2, <1>5, <1>6, NoTreeForm, FreshTree, Zenon
<1>8. AgreeInv'
  BY <1>2, <1>5, Zenon DEF AgreeInv
<1> QED BY <1>4, <1>7, <1>8, Zenon

\* Chains that begin now agree with the collection whatever it holds.
LEMMA FreshChains ==
  ASSUME NEW P, NEW now \in Nat
  PROVE  ChainsSince(P, now, {}, now)
<1>1. \A k : Committed({}, k) = {}
  BY Zenon DEF Committed
<1>2. ASSUME NEW k \in Key, NEW T \in Nat, now <= T, T <= now PROVE Holds(P, k, T) <=> Holds(P, k, now)
  <2>1. T = now
    BY <1>2
  <2> QED BY <2>1, Zenon
<1>3. now <= now
  OBVIOUS
<1> QED BY <1>1, <1>2, <1>3, Zenon DEF ChainsSince

\* A builder's record has the fields a step of its own sets.
LEMMA BuildFields ==
  ASSUME CatalogInv, NEW b \in Builders
  PROVE  DOMAIN bld = Builders /\ {"pc", "ns", "ix", "col", "ent", "root", "ts", "L", "R", "sep"} \subseteq DOMAIN bld[b]
BY DEF CatalogInv, BuildOK, NoBuild

\* The reserved index starts with an empty tree, which no earlier builder has
\* read: its id is new.
LEMMA ReserveKeepsIndex ==
  ASSUME CatalogInv, VersionInv, TreeInv, AgreeInv, ~torn, NEW b \in Builders, CreateIndexReserve(b), ~torn'
  PROVE  VersionInv' /\ TreeInv' /\ AgreeInv'
<1>1. Inside = {} /\ tree' = NoTree /\ UNCHANGED <<prim, wr>>
  BY Zenon DEF CreateIndexReserve, Ddl
<1>2. /\ pub.ts \in Nat /\ next.ns \in Nat \ {0} /\ next.ix \in Nat \ {0} /\ cat.ns = pub.ns
      /\ cat.ns < next.ns /\ cat.ns \in Nat /\ DOMAIN cat = {"ns", "ix"}
  BY DEF CatalogInv, EntryOK, CatalogAgrees, VersionInv
<1>3. cat'.ns \in {cat.ns, next.ns} /\ cat'.ix = [id |-> next.ix, st |-> "Building", root |-> "leaf"]
  <2>1. \/ cat' = [cat EXCEPT !.ix = [id |-> next.ix, st |-> "Building", root |-> "leaf"]]
        \/ cat' = [CreateCollection(next.ns) EXCEPT !.ix = [id |-> next.ix, st |-> "Building", root |-> "leaf"]]
    BY Zenon DEF CreateIndexReserve, CreateIndexEntry, CommitCatalog
  <2>2. DOMAIN CreateCollection(next.ns) = {"ns", "ix"} /\ CreateCollection(next.ns).ns = next.ns
    BY DEF CreateCollection
  <2> QED BY <1>2, <2>1, <2>2
<1>4. next'.ns \in Nat /\ next.ns <= next'.ns /\ cat'.ns < next'.ns
  BY <1>2, <1>3 DEF CreateIndexReserve, CommitCatalog, CreateIndexEntry, CreateCollection
<1>5. pub'.ns = cat'.ns /\ pub'.ix = cat'.ix /\ pub'.ts = pub.ts
  <2>1. pub' = [ns |-> cat'.ns, ix |-> cat'.ix, ts |-> pub.ts]
    BY Zenon DEF CreateIndexReserve, CommitCatalog, PublishedCatalog
  <2> QED BY <2>1, Zenon
<1>6. \E n : bld' = [bld EXCEPT ![b] = [NoBuild EXCEPT !.pc = "reserved", !.ns = n, !.ix = next.ix]]
  BY Zenon DEF CreateIndexReserve, SetB
<1>7. /\ \A a \in Builders \ {b} : bld'[a] = bld[a]
      /\ bld'[b].ent = 0 /\ bld'[b].R = {} /\ bld'[b].ts = 0 /\ bld'[b].pc = "reserved"
  <2>1. PICK n : bld' = [bld EXCEPT ![b] = [NoBuild EXCEPT !.pc = "reserved", !.ns = n, !.ix = next.ix]]
    BY <1>6, Zenon
  <2>2. bld'[b] = [NoBuild EXCEPT !.pc = "reserved", !.ns = n, !.ix = next.ix]
    BY <2>1, BuildFields, Zenon
  <2>3. /\ {"pc", "ns", "ix", "ent", "R", "ts"} \subseteq DOMAIN NoBuild
        /\ NoBuild.ent = 0 /\ NoBuild.R = {} /\ NoBuild.ts = 0
    BY DEF NoBuild
  <2>4. bld'[b].ent = 0 /\ bld'[b].R = {} /\ bld'[b].ts = 0 /\ bld'[b].pc = "reserved"
    BY ONLY <2>2, <2>3, Zenon
  <2> QED BY <2>1, <2>4, BuildFields, Zenon
<1>8. VersionInv'
  <2>1. pub'.ns \in {pub.ns, 0, next.ns} /\ pub'.ns < next'.ns
    BY <1>2, <1>3, <1>4, <1>5
  <2> QED BY <1>1, <1>4, <1>5, <2>1, DdlKeepsVersions, Zenon
<1>9. cat'.ix.id = next.ix /\ cat'.ix.root = "leaf" /\ cat'.ix.st = "Building"
  BY <1>3
<1>10. \A a \in Builders : bld'[a].ent # cat'.ix.id
  <2>1. \A a \in Builders : bld[a].ent \in Nat /\ bld[a].ent < next.ix
    BY Zenon DEF CatalogInv, BuildOK
  <2> QED BY <1>2, <1>7, <1>9, <2>1
<1>11. \A a \in Builders : BuilderForm(bld'[a])
  <2>1. BuilderForm(bld'[b])
    BY <1>7 DEF BuilderForm
  <2> QED BY <1>7, <2>1, Zenon DEF TreeInv
<1>12. TreeInv'
  <2>1. \A w \in Writers : wr'[w].pc \notin {"staged", "installed"}
    BY <1>1, Zenon DEF Inside
  <2> QED BY <1>1, <1>5, <1>9, <1>10, <1>11, <2>1, NoTreeForm, FreshTree, Zenon
<1>13. AgreeInv'
  <2>1. ChainsSince(prim', pub'.ts, tree'.ch, pub.ts)
    BY <1>1, <1>2, <1>5, NoTreeForm, FreshChains, ZenonT(60)
  <2>2. CellsOK(pub.ts)'
    BY <1>1, <1>5, <1>9, <1>10, NoTreeForm, Zenon DEF CellsOK, CellsWithin
  <2> QED BY <1>5, <2>1, <2>2, Zenon DEF AgreeInv
<1> QED BY <1>8, <1>12, <1>13, Zenon

\* Opening the build, looking its entries up again and taking its view.
LEMMA OpenKeepsIndex ==
  ASSUME CatalogInv, VersionInv, TreeInv, AgreeInv, ~torn, NEW b \in Builders,
         BuildOpen(b) \/ BuildCheck(b) \/ BuildView(b)
  PROVE  VersionInv' /\ TreeInv' /\ AgreeInv'
<1>1. UNCHANGED <<cat, pub, next, prim, tree, wr>> /\ \A a \in Builders \ {b} : bld'[a] = bld[a]
  BY BuildFields, Zenon DEF BuildOpen, BuildCheck, BuildView, BuildOnly, SetB
<1>2. bld[b].pc \in {"reserved", "opened", "checked"} /\ bld[b].R = {} /\ bld[b].ts \in Nat /\ pub.ts \in Nat
  BY Zenon DEF BuildOpen, BuildCheck, BuildView, TreeInv, BuilderForm, VersionInv
<1>3. CASE bld'[b] = NoBuild
  <2>1. bld'[b].ent = cat.ix.id => cat.ix.id = 0
    BY <1>3, NoTreeForm, Zenon
  <2> QED BY <1>1, <1>3, <2>1, NoTreeForm, BuildFrame, Zenon
<1>4. CASE bld'[b] # NoBuild
  <2>1. /\ bld'[b].R = {} /\ bld'[b].pc \in {"opened", "failed", "checked", "viewed"}
        /\ bld'[b].ts \in {bld[b].ts, pub.ts} /\ (bld'[b].pc = "viewed" => bld'[b].ts = pub.ts)
        /\ \/ bld'[b].root = cat.ix.root
           \/ bld'[b].root = bld[b].root /\ bld'[b].ent = bld[b].ent
    <3>1. CASE BuildOpen(b)
      <4>1. \/ bld'[b] = [bld[b] EXCEPT !.pc = "opened", !.col = cat.ns, !.ent = cat.ix.id, !.root = cat.ix.root]
            \/ bld'[b] = [bld[b] EXCEPT !.pc = "failed"]
        BY <3>1, BuildFields, Zenon DEF BuildOpen, SetB, At
      <4>2. /\ bld'[b].R = bld[b].R /\ bld'[b].pc \in {"opened", "failed"} /\ bld'[b].ts = bld[b].ts
            /\ \/ bld'[b].root = cat.ix.root
               \/ bld'[b].root = bld[b].root /\ bld'[b].ent = bld[b].ent
        BY ONLY <4>1, BuildFields, CatalogInv, b \in Builders, Zenon
      <4> QED BY <1>2, <4>2
    <3>2. CASE BuildCheck(b)
      <4>1. bld'[b] = [bld[b] EXCEPT !.pc = "checked"]
        BY <1>4, <3>2, BuildFields, Zenon DEF BuildCheck, SetB, At
      <4>2. /\ bld'[b].R = bld[b].R /\ bld'[b].pc = "checked" /\ bld'[b].ts = bld[b].ts
            /\ bld'[b].root = bld[b].root /\ bld'[b].ent = bld[b].ent
        BY ONLY <4>1, BuildFields, CatalogInv, b \in Builders, Zenon
      <4> QED BY <1>2, <4>2
    <3>3. CASE BuildView(b)
      <4>1. bld'[b] = [bld[b] EXCEPT !.pc = "viewed", !.ts = pub.ts]
        BY <3>3, BuildFields, Zenon DEF BuildView, SetB, At
      <4>2. /\ bld'[b].R = bld[b].R /\ bld'[b].pc = "viewed" /\ bld'[b].ts = pub.ts
            /\ bld'[b].root = bld[b].root /\ bld'[b].ent = bld[b].ent
        BY ONLY <4>1, BuildFields, CatalogInv, b \in Builders, Zenon
      <4> QED BY <1>2, <4>2
    <3> QED BY <3>1, <3>2, <3>3, Zenon
  <2>2. BuilderForm(bld'[b])
    BY <1>2, <2>1 DEF BuilderForm
  <2>3. ASSUME tree.sep = <<0, 0>>, bld'[b].ent = cat.ix.id, cat.ix.id # 0
        PROVE  OneLeaf(bld'[b])
    <3>1. bld'[b].root = "leaf"
      BY <2>1, <2>3, Zenon DEF TreeInv, LeafTree, OneLeaf
    <3> QED BY <2>1, <3>1 DEF OneLeaf
  <2>4. ASSUME NEW B, ChainsSince(prim, pub.ts, tree.ch, B)
        PROVE  BuiltSince(prim, pub.ts, B, bld'[b], tree.L)
    <3>1. B \in Nat /\ B <= pub.ts
      BY <2>4, Zenon DEF ChainsSince
    <3>2. bld'[b].pc # "staged" /\ bld'[b].pc # "built"
      BY <2>1
    <3>3. bld'[b].pc = "viewed" => B <= bld'[b].ts /\ bld'[b].ts <= pub.ts
      BY <1>2, <2>1, <3>1
    <3> QED BY <3>2, <3>3, Zenon DEF BuiltSince
  <2> QED BY <1>1, <2>2, <2>3, <2>4, BuildFrame, Zenon
<1> QED BY <1>3, <1>4, Zenon

\* A builder that stops, or goes astray, leaves its index to the others.
LEMMA StopKeepsIndex ==
  ASSUME CatalogInv, VersionInv, TreeInv, AgreeInv, ~torn, NEW b \in Builders,
         UNCHANGED <<cat, pub, next, prim, tree, wr>>, bld[b].pc = "viewed",
         NEW pc \in {"failed", "astray", "split"}, SetB(b, At(b, pc)),
         pc = "failed" \/ cat.ix.id # bld[b].ent
  PROVE  VersionInv' /\ TreeInv' /\ AgreeInv'
<1>1. bld'[b] = [bld[b] EXCEPT !.pc = pc] /\ \A a \in Builders \ {b} : bld'[a] = bld[a]
  BY BuildFields, Zenon DEF SetB, At
<1>2. /\ bld'[b].pc = pc /\ bld'[b].R = bld[b].R /\ bld'[b].ts = bld[b].ts
      /\ bld'[b].root = bld[b].root /\ bld'[b].ent = bld[b].ent
  BY ONLY <1>1, BuildFields, CatalogInv, b \in Builders, Zenon
<1>3. bld[b].ts \in Nat /\ bld[b].R = {}
  BY Zenon DEF TreeInv, BuilderForm
<1>4. BuilderForm(bld'[b])
  BY <1>2, <1>3 DEF BuilderForm
<1>5. tree.sep = <<0, 0>> /\ bld'[b].ent = cat.ix.id /\ cat.ix.id # 0 => OneLeaf(bld'[b])
  <2>1. tree.sep = <<0, 0>> /\ bld[b].ent = cat.ix.id /\ cat.ix.id # 0 => bld[b].root = "leaf"
    BY Zenon DEF TreeInv, LeafTree, OneLeaf
  <2> QED BY <1>2, <1>3, <2>1 DEF OneLeaf
<1>6. \A B : BuiltSince(prim, pub.ts, B, bld'[b], tree.L)
  BY <1>2 DEF BuiltSince
<1> QED BY <1>1, <1>4, <1>5, <1>6, BuildFrame, Zenon

\* The cells of a builder that read the collection: those it found come from
\* views since B, and its own from one.
LEMMA ImageSince ==
  ASSUME NEW B, NEW ts \in Nat, B <= ts, ts <= pub.ts, CellsWithin(prim, pub.ts, B, tree.L)
  PROVE  /\ CellsSince(prim, pub.ts, B, Image("leaf", "L", KeysAt(ts)))
         /\ Image("leaf", "R", KeysAt(ts)) = {}
<1>1. \A k : Leaf("leaf", k) = "L"
  BY Zenon DEF Leaf
<1>2. Image("leaf", "L", KeysAt(ts)) = IF KeysAt(ts) = {} THEN {} ELSE tree.L \cup KeysAt(ts)
  <2>1. {k \in KeysAt(ts) : Leaf("leaf", k) = "L"} = KeysAt(ts) /\ CellsOf("L") = tree.L
    BY <1>1, Zenon DEF CellsOf
  <2> QED BY <2>1, Zenon DEF Image
<1>3. Image("leaf", "R", KeysAt(ts)) = {}
  <2>1. {k \in KeysAt(ts) : Leaf("leaf", k) = "R"} = {}
    BY <1>1
  <2> QED BY <2>1, Zenon DEF Image
<1>4. ASSUME NEW k \in Key
      PROVE  \E T \in Nat : B <= T /\ T <= pub.ts /\ (k \in Image("leaf", "L", KeysAt(ts)) <=> Holds(prim, k, T))
  <2>1. k \in KeysAt(ts) <=> Holds(prim, k, ts)
    BY KeysHold, Zenon
  <2>2. CASE k \in tree.L /\ KeysAt(ts) # {}
    BY <1>2, <2>2, Zenon DEF CellsWithin
  <2>3. CASE ~(k \in tree.L /\ KeysAt(ts) # {})
    <3>1. k \in Image("leaf", "L", KeysAt(ts)) <=> k \in KeysAt(ts)
      BY <1>2, <2>3, Zenon
    <3> QED BY <2>1, <3>1, Zenon
  <2> QED BY <2>2, <2>3, Zenon
<1> QED BY <1>3, <1>4, Zenon DEF CellsSince

\* Reading the collection into cells of the one leaf.
LEMMA InsertKeepsIndex ==
  ASSUME CatalogInv, VersionInv, TreeInv, AgreeInv, ~torn, NEW b \in Builders,
         UNCHANGED <<cat, pub, next, prim, tree, wr>>, bld[b].pc = "viewed", cat.ix.id = bld[b].ent,
         InsertKeys(b, KeysAt(bld[b].ts))
  PROVE  VersionInv' /\ TreeInv' /\ AgreeInv'
<1> DEFINE l == Image(bld[b].root, "L", KeysAt(bld[b].ts))
           r == Image(bld[b].root, "R", KeysAt(bld[b].ts))
<1>1. bld'[b] = [bld[b] EXCEPT !.pc = "staged", !.L = l, !.R = r] /\ \A a \in Builders \ {b} : bld'[a] = bld[a]
  BY BuildFields, Zenon DEF InsertKeys, SetB, At
<1> HIDE DEF l, r
<1>2. /\ bld'[b].pc = "staged" /\ bld'[b].L = l /\ bld'[b].R = r /\ bld'[b].ts = bld[b].ts
      /\ bld'[b].root = bld[b].root /\ bld'[b].ent = bld[b].ent
  BY ONLY <1>1, BuildFields, CatalogInv, b \in Builders, Zenon
<1>3. bld[b].ts \in Nat
  BY Zenon DEF TreeInv, BuilderForm
<1>4. BuilderForm(bld'[b])
  BY <1>2, <1>3 DEF BuilderForm
<1>5. tree.sep = <<0, 0>> /\ cat.ix.id # 0 => bld[b].root = "leaf"
  BY Zenon DEF TreeInv, LeafTree, OneLeaf
<1>6. ASSUME tree.sep = <<0, 0>>, cat.ix.id # 0 PROVE OneLeaf(bld'[b])
  <2>1. \A k : Leaf("leaf", k) = "L"
    BY Zenon DEF Leaf
  <2>2. {k \in KeysAt(bld[b].ts) : Leaf("leaf", k) = "R"} = {}
    BY <2>1
  <2>3. r = {}
    BY <1>5, <1>6, <2>2, Zenon DEF r, Image
  <2> QED BY <1>2, <1>5, <1>6, <2>3 DEF OneLeaf
<1>7. ASSUME NEW B, tree.sep = <<0, 0>>, cat.ix.id # 0, CellsOK(B)
      PROVE  BuiltSince(prim, pub.ts, B, bld'[b], tree.L)
  <2>1. B <= bld[b].ts /\ bld[b].ts <= pub.ts /\ CellsWithin(prim, pub.ts, B, tree.L)
    BY <1>7, Zenon DEF CellsOK, BuiltSince
  <2>2. CellsSince(prim, pub.ts, B, bld'[b].L)
    BY <1>2, <1>3, <1>5, <1>7, <2>1, ImageSince, Zenon DEF l
  <2>3. bld'[b].pc # "viewed" /\ bld'[b].pc # "built"
    BY <1>2
  <2> QED BY <2>2, <2>3, Zenon DEF BuiltSince
<1> QED BY <1>1, <1>4, <1>6, <1>7, BuildFrame, Zenon

\* Once the leaf was split the agreement says no more of the index.
LEMMA SplitKeepsIndex ==
  ASSUME CatalogInv, VersionInv, TreeInv, AgreeInv, ~torn, NEW b \in Builders,
         UNCHANGED <<cat, pub, next, prim, wr>>, bld[b].pc = "viewed", SplitLeaf(b, KeysAt(bld[b].ts))
  PROVE  VersionInv' /\ TreeInv' /\ AgreeInv'
<1>1. PICK sep \in Values \X Docs :
        \/ /\ tree' = MigrateChains(sep)
           /\ \E l, r : bld' = [bld EXCEPT ![b] = [bld[b] EXCEPT !.pc = "split", !.L = l, !.R = r, !.sep = sep]]
        \/ tree' = LoseChains(sep) /\ bld' = [bld EXCEPT ![b] = [bld[b] EXCEPT !.pc = "failed"]]
  BY Zenon DEF SplitLeaf, SetB, At
<1>2. DOMAIN tree = DOMAIN NoTree /\ tree.ch \in SUBSET ChainEntry /\ tree.log \in SUBSET LogRecord
  BY Zenon DEF TreeInv
<1>3. {"sep", "ch", "log"} \subseteq DOMAIN tree
  BY <1>2 DEF NoTree
<1>4. sep # <<0, 0>>
  BY DdlAssumption
<1>5. DOMAIN tree' = DOMAIN tree /\ tree'.sep = sep /\ tree'.log = tree.log /\ tree'.ch \in SUBSET ChainEntry
  <2>1. CASE tree' = MigrateChains(sep)
    <3>1. /\ DOMAIN tree' = DOMAIN tree /\ tree'.sep = sep /\ tree'.log = tree.log
          /\ tree'.ch = {IF Less(x.k, sep) THEN x ELSE [x EXCEPT !.pg = "R"] : x \in tree.ch}
      BY <1>3, <2>1, Zenon DEF MigrateChains
    <3>2. ASSUME NEW x \in ChainEntry PROVE [x EXCEPT !.pg = "R"] \in ChainEntry
      BY DEF ChainEntry
    <3> QED BY <1>2, <3>1, <3>2, Zenon
  <2>2. CASE tree' = LoseChains(sep)
    <3>1. /\ DOMAIN tree' = DOMAIN tree /\ tree'.sep = sep /\ tree'.log = tree.log
          /\ tree'.ch = {x \in tree.ch : Less(x.k, sep)}
      BY <1>3, <2>2, Zenon DEF LoseChains
    <3> QED BY <1>2, <3>1, Zenon
  <2> QED BY <1>1, <2>1, <2>2, Zenon
<1>6. VersionInv'
  BY VersionFrame, Zenon
<1>7. \A a \in Builders : BuilderForm(bld'[a])
  <2>1. /\ \A a \in Builders \ {b} : bld'[a] = bld[a]
        /\ bld'[b].pc \in {"split", "failed"} /\ bld'[b].ts = bld[b].ts
    <3>1. CASE bld' = [bld EXCEPT ![b] = [bld[b] EXCEPT !.pc = "failed"]]
      BY ONLY <3>1, BuildFields, CatalogInv, b \in Builders, Zenon
    <3>2. CASE \E l, r : bld' = [bld EXCEPT ![b] = [bld[b] EXCEPT !.pc = "split", !.L = l, !.R = r, !.sep = sep]]
      <4>1. PICK l, r : bld' = [bld EXCEPT ![b] = [bld[b] EXCEPT !.pc = "split", !.L = l, !.R = r, !.sep = sep]]
        BY <3>2, Zenon
      <4> QED BY ONLY <4>1, BuildFields, CatalogInv, b \in Builders, Zenon
    <3> QED BY <1>1, <3>1, <3>2, Zenon
  <2>2. bld[b].ts \in Nat
    BY Zenon DEF TreeInv, BuilderForm
  <2>3. BuilderForm(bld'[b])
    BY <2>1, <2>2 DEF BuilderForm
  <2> QED BY <2>1, <2>3, Zenon DEF TreeInv
<1>8. TreeInv' /\ AgreeInv'
  BY <1>2, <1>4, <1>5, <1>7, Zenon DEF TreeInv, AgreeInv
<1> QED BY <1>6, <1>8, Zenon

\* Reading the collection into cells of the batch, of this index or astray.
LEMMA ReadKeepsIndex ==
  ASSUME CatalogInv, VersionInv, TreeInv, AgreeInv, ~torn, NEW b \in Builders, BuildIndexMvcc(b), ~torn'
  PROVE  VersionInv' /\ TreeInv' /\ AgreeInv'
<1>1. UNCHANGED <<cat, pub, next, prim, wr>> /\ bld[b].pc = "viewed"
  BY Zenon DEF BuildIndexMvcc, BuildOnly
<1>2. CASE SetB(b, At(b, "failed")) /\ UNCHANGED <<tree, torn>>
  BY <1>1, <1>2, StopKeepsIndex, Zenon
<1>3. CASE cat.ix.id = bld[b].ent /\ InsertKeys(b, KeysAt(bld[b].ts))
  <2>1. tree' = tree
    BY <1>3, Zenon DEF InsertKeys
  <2> QED BY <1>1, <1>3, <2>1, InsertKeepsIndex, Zenon
<1>4. CASE SplitLeaf(b, KeysAt(bld[b].ts))
  BY <1>1, <1>4, SplitKeepsIndex, Zenon
<1>5. CASE cat.ix.id # bld[b].ent /\ BuildAstray(b)
  <2>1. tree' = tree /\ \E pc \in {"astray", "split"} : SetB(b, At(b, pc))
    BY <1>5, Zenon DEF BuildAstray
  <2> QED BY <1>1, <1>5, <2>1, StopKeepsIndex, Zenon
<1> QED BY <1>2, <1>3, <1>4, <1>5, Zenon DEF BuildIndexMvcc

\* Only the builder of a split tree changes the root, and no other leaves a
\* batch behind.
LEMMA RootKeepsIndex ==
  ASSUME CatalogInv, VersionInv, TreeInv, AgreeInv, ~torn, NEW b \in Builders, BuildCatalogUpdate(b)
  PROVE  VersionInv' /\ TreeInv' /\ AgreeInv'
<1>1. /\ bld[b].pc = "split" /\ bld[b].ts \in Nat /\ UNCHANGED <<pub, next, prim, wr>>
  BY Zenon DEF BuildCatalogUpdate, BuildOnly, TreeInv, BuilderForm
<1>2. bld[b].ent = cat.ix.id => tree.sep # <<0, 0>>
  <2>1. bld[b].ent # 0
    BY <1>1 DEF CatalogInv, BuildOK, Entered
  <2> QED BY <1>1, <2>1, Zenon DEF TreeInv, LeafTree, OneLeaf
<1>3. CASE SameTarget(b)
  <2>1. /\ cat' = [cat EXCEPT !.ix.root = "node"] /\ tree' = tree
        /\ bld' = [bld EXCEPT ![b] = [bld[b] EXCEPT !.pc = "staged"]]
    BY <1>3, Zenon DEF BuildCatalogUpdate, SetIndexRoot, SetB, At
  <2>2. cat'.ns = cat.ns
    BY <2>1, Zenon DEF CatalogInv
  <2>3. bld'[b] = [bld[b] EXCEPT !.pc = "staged"] /\ \A a \in Builders \ {b} : bld'[a] = bld[a]
    BY <2>1, BuildFields, Zenon
  <2>4. bld'[b].pc = "staged" /\ bld'[b].ts = bld[b].ts
    BY ONLY <2>3, BuildFields, CatalogInv, b \in Builders, Zenon
  <2>5. BuilderForm(bld'[b])
    BY <1>1, <2>4 DEF BuilderForm
  <2>6. tree.sep # <<0, 0>>
    BY <1>2, <1>3, Zenon DEF SameTarget
  <2>7. VersionInv'
    BY <1>1, <2>2, VersionFrame, Zenon
  <2>8. \A a \in Builders : BuilderForm(bld'[a])
    BY <2>3, <2>5, Zenon DEF TreeInv
  <2>9. TreeInv' /\ AgreeInv'
    BY <1>1, <2>1, <2>6, <2>8, Zenon DEF TreeInv, AgreeInv
  <2> QED BY <2>7, <2>9, Zenon
<1>4. CASE ~SameTarget(b)
  <2>1. /\ cat' = cat /\ bld' = [bld EXCEPT ![b] = NoBuild]
        /\ tree' = IF cat.ix.id = bld[b].ent THEN [tree EXCEPT !.ch = {x \in @ : x.pg = "L"}] ELSE tree
    BY <1>4, Zenon DEF BuildCatalogUpdate, SetB
  <2>2. bld'[b] = NoBuild /\ \A a \in Builders \ {b} : bld'[a] = bld[a]
    BY <2>1, BuildFields, Zenon
  <2>3. CASE cat.ix.id # bld[b].ent
    BY <1>1, <2>1, <2>2, <2>3, NoTreeForm, BuildFrame, Zenon
  <2>4. CASE cat.ix.id = bld[b].ent
    <3>1. DOMAIN tree = DOMAIN NoTree /\ {"L", "R", "sep", "node", "ch", "log"} \subseteq DOMAIN tree
      BY DEF TreeInv, NoTree
    <3>2. tree' = [tree EXCEPT !.ch = {x \in @ : x.pg = "L"}]
      BY <2>1, <2>4, Zenon
    <3>3. /\ DOMAIN tree' = DOMAIN tree /\ tree'.log = tree.log /\ tree'.sep = tree.sep
          /\ tree'.ch = {x \in tree.ch : x.pg = "L"}
      BY <3>1, <3>2, Zenon
    <3>4. tree'.sep # <<0, 0>> /\ tree'.ch \in SUBSET ChainEntry
      BY <1>2, <2>4, <3>3, Zenon DEF TreeInv
    <3>5. \A a \in Builders : BuilderForm(bld'[a])
      BY <2>2, NoTreeForm, Zenon DEF TreeInv
    <3>6. VersionInv'
      BY <1>1, <2>1, VersionFrame, Zenon
    <3>7. TreeInv' /\ AgreeInv'
      BY <3>3, <3>4, <3>5, Zenon DEF TreeInv, AgreeInv
    <3> QED BY <3>6, <3>7, Zenon
  <2> QED BY <2>3, <2>4, Zenon
<1> QED BY <1>3, <1>4, Zenon

\* The batch's cells land in the tree, or the log refuses them.
LEMMA BatchKeepsIndex ==
  ASSUME CatalogInv, VersionInv, TreeInv, AgreeInv, ~torn, NEW b \in Builders, BuildCommitToLog(b), ~torn'
  PROVE  VersionInv' /\ TreeInv' /\ AgreeInv'
<1>1. /\ bld[b].pc \in {"staged", "astray"} /\ bld[b].ts \in Nat /\ UNCHANGED <<cat, pub, next, prim, wr>>
      /\ \E pc \in {"built", "failed"} : bld' = [bld EXCEPT ![b] = [bld[b] EXCEPT !.pc = pc]]
  BY Zenon DEF BuildCommitToLog, BuildOnly, TreeInv, BuilderForm, SetB, At
<1>2. PICK pc \in {"built", "failed"} : bld' = [bld EXCEPT ![b] = [bld[b] EXCEPT !.pc = pc]]
  BY <1>1, Zenon
<1>3. bld'[b] = [bld[b] EXCEPT !.pc = pc] /\ \A a \in Builders \ {b} : bld'[a] = bld[a]
  BY <1>2, BuildFields, Zenon
<1>4. /\ bld'[b].pc = pc /\ bld'[b].ts = bld[b].ts /\ bld'[b].ent = bld[b].ent /\ bld'[b].R = bld[b].R
      /\ bld'[b].root = bld[b].root
  BY ONLY <1>3, BuildFields, CatalogInv, b \in Builders, Zenon
<1>5. BuilderForm(bld'[b])
  BY <1>1, <1>4 DEF BuilderForm
<1>6. bld[b].ent # 0
  BY <1>1 DEF CatalogInv, BuildOK, Entered
<1>7. tree.sep = <<0, 0>> /\ cat.ix.id = bld[b].ent => OneLeaf(bld[b])
  BY <1>6, Zenon DEF TreeInv, LeafTree
<1>8. /\ \A a \in Builders : BuilderForm(bld'[a])
      /\ \A a \in Builders : tree.sep = <<0, 0>> /\ bld'[a].ent = cat.ix.id /\ cat.ix.id # 0 => OneLeaf(bld'[a])
  <2>1. tree.sep = <<0, 0>> /\ bld'[b].ent = cat.ix.id => OneLeaf(bld'[b])
    BY <1>4, <1>7 DEF OneLeaf
  <2> QED BY <1>3, <1>5, <2>1, Zenon DEF TreeInv, LeafTree
<1>9. VersionInv'
  BY <1>1, VersionFrame, Zenon
<1>10. DOMAIN tree = DOMAIN NoTree /\ {"L", "R", "sep", "node", "ch", "log"} \subseteq DOMAIN tree
  BY DEF TreeInv, NoTree
<1>11. CASE tree' = tree /\ (pc = "failed" \/ cat.ix.id # bld[b].ent)
  <2>1. bld'[b].ent = cat.ix.id => \A B : BuiltSince(prim, pub.ts, B, bld'[b], tree.L)
    BY <1>4, <1>11 DEF BuiltSince
  <2> QED BY <1>1, <1>3, <1>5, <1>8, <1>11, <2>1, BuildFrame, Zenon
<1>12. CASE cat.ix.id = bld[b].ent /\ tree' = Landed(b)
  <2>1. /\ DOMAIN tree' = DOMAIN tree /\ tree'.ch = tree.ch /\ tree'.log = tree.log
        /\ tree'.sep = tree.sep /\ tree'.L = IF bld[b].L = {} THEN tree.L ELSE bld[b].L
    BY <1>10, <1>12, Zenon DEF Landed
  <2>2. pub'.ts = pub.ts /\ pub'.ns = pub.ns /\ cat'.ix = cat.ix /\ pub'.ix = pub.ix
    BY <1>1, Zenon
  <2>3. TreeInv'
    <3>1. cat'.ix.root \in {"leaf", cat.ix.root} /\ pub'.ix.root \in {"leaf", cat.ix.root, pub.ix.root}
      BY <2>2
    <3> QED BY <1>1, <1>8, <2>1, <2>2, <3>1, TreeFrame, Zenon
  <2>4. ASSUME NEW B, tree.sep = <<0, 0>>, CellsOK(B) PROVE CellsOK(B)'
    <3>1. bld[b].pc = "staged"
      BY <1>1, <1>7, <1>12, <2>4 DEF OneLeaf
    <3>2. CellsSince(prim, pub.ts, B, bld[b].L) /\ CellsWithin(prim, pub.ts, B, tree.L)
      BY <1>12, <2>4, <3>1, Zenon DEF CellsOK, BuiltSince
    <3>3. CellsSince(prim, pub.ts, B, tree'.L) /\ CellsWithin(prim, pub.ts, B, tree'.L)
      <4>1. CASE bld[b].L = {}
        <5>1. tree'.L = tree.L
          BY <2>1, <4>1, Zenon
        <5>2. \A k \in Key : \E T \in Nat : B <= T /\ T <= pub.ts /\ (k \in tree.L <=> Holds(prim, k, T))
          <6> TAKE k \in Key
          <6>1. CASE k \in tree.L
            BY <3>2, <6>1, Zenon DEF CellsWithin
          <6>2. CASE k \notin tree.L
            BY <3>2, <4>1, <6>2, Zenon DEF CellsSince
          <6> QED BY <6>1, <6>2, Zenon
        <5> QED BY <3>2, <5>1, <5>2, Zenon DEF CellsSince
      <4>2. CASE bld[b].L # {}
        <5>1. tree'.L = bld[b].L
          BY <2>1, <4>2, Zenon
        <5>2. CellsWithin(prim, pub.ts, B, bld[b].L)
          BY <3>2, Zenon DEF CellsSince, CellsWithin
        <5> QED BY <3>2, <5>1, <5>2, Zenon
      <4> QED BY <4>1, <4>2, Zenon
    <3>4. bld'[b].pc # "viewed" /\ bld'[b].pc # "staged"
      BY <1>4
    <3>5. \A a \in Builders : bld'[a].ent = cat'.ix.id => BuiltSince(prim', pub'.ts, B, bld'[a], tree'.L)
      <4>1. BuiltSince(prim, pub.ts, B, bld'[b], tree'.L)
        BY <3>3, <3>4, Zenon DEF BuiltSince
      <4>2. ASSUME NEW a \in Builders \ {b}, bld'[a].ent = cat'.ix.id
            PROVE  BuiltSince(prim, pub.ts, B, bld'[a], tree'.L)
        BY <1>3, <2>2, <2>4, <3>3, <4>2, Zenon DEF CellsOK, BuiltSince
      <4> QED BY <1>1, <2>2, <4>1, <4>2, Zenon
    <3> QED BY <1>1, <2>2, <3>3, <3>5, Zenon DEF CellsOK
  <2>5. AgreeInv'
    BY <1>1, <2>1, <2>2, <2>4, AgreeFrame, Zenon
  <2> QED BY <1>9, <2>3, <2>5, Zenon
<1>13. CASE cat.ix.id = bld[b].ent /\ bld[b].R # {} /\ tree' = [tree EXCEPT !.ch = {x \in @ : x.pg = "L"}]
  <2>1. /\ DOMAIN tree' = DOMAIN tree /\ tree'.log = tree.log /\ tree'.sep = tree.sep
        /\ tree'.ch = {x \in tree.ch : x.pg = "L"}
    BY <1>10, <1>13, Zenon
  <2>2. tree'.sep # <<0, 0>> /\ tree'.ch \in SUBSET ChainEntry
    BY <1>7, <1>13, <2>1, Zenon DEF TreeInv, OneLeaf
  <2>3. TreeInv' /\ AgreeInv'
    BY <1>8, <2>1, <2>2, Zenon DEF TreeInv, AgreeInv
  <2> QED BY <1>9, <2>3, Zenon
<1>14. \/ tree' = tree /\ (pc = "failed" \/ cat.ix.id # bld[b].ent)
       \/ cat.ix.id = bld[b].ent /\ tree' = Landed(b)
       \/ cat.ix.id = bld[b].ent /\ bld[b].R # {} /\ tree' = [tree EXCEPT !.ch = {x \in @ : x.pg = "L"}]
  <2>1. ASSUME bld' = [bld EXCEPT ![b] = [bld[b] EXCEPT !.pc = "failed"]] PROVE pc = "failed"
    <3>1. bld'[b] = [bld[b] EXCEPT !.pc = "failed"]
      BY <2>1, BuildFields, Zenon
    <3>2. bld'[b].pc = "failed"
      BY ONLY <3>1, BuildFields, CatalogInv, b \in Builders, Zenon
    <3> QED BY <1>4, <3>2, Zenon
  <2>2. CASE ApplyBatch(b)
    BY <2>2, Zenon DEF ApplyBatch
  <2>3. CASE /\ SetB(b, At(b, "failed"))
             /\ tree' = IF cat.ix.id = bld[b].ent /\ bld[b].root = "leaf" /\ bld[b].R # {}
                        THEN [tree EXCEPT !.ch = {x \in @ : x.pg = "L"}] ELSE tree
    BY <2>1, <2>3, Zenon DEF SetB, At
  <2> QED BY <2>2, <2>3, Zenon DEF BuildCommitToLog
<1> QED BY <1>11, <1>12, <1>13, <1>14, Zenon

\* The commit of the index it reserved makes Ready what it built; a builder
\* that was overtaken changes nothing.
LEMMA CommitKeepsIndex ==
  ASSUME CatalogInv, VersionInv, TreeInv, AgreeInv, ~torn, NEW b \in Builders, CreateIndexCommit(b), ~torn'
  PROVE  VersionInv' /\ TreeInv' /\ AgreeInv'
<1>1. /\ bld[b].pc = "built" /\ bld' = [bld EXCEPT ![b] = NoBuild] /\ UNCHANGED <<next, prim, tree, wr>>
  BY Zenon DEF CreateIndexCommit, SetB
<1>2. bld'[b] = NoBuild /\ \A a \in Builders \ {b} : bld'[a] = bld[a]
  BY <1>1, BuildFields, Zenon
<1>3. CASE ~StillReserved(b)
  <2>1. cat' = cat /\ pub' = pub
    BY <1>3, Zenon DEF CreateIndexCommit
  <2> QED BY <1>1, <1>2, <2>1, NoTreeForm, BuildFrame, Zenon
<1>4. CASE StillReserved(b)
  <2>1. cat' = [cat EXCEPT !.ix.st = "Ready"] /\ pub' = [ns |-> cat'.ns, ix |-> cat'.ix, ts |-> pub.ts]
    BY <1>4, Zenon DEF CreateIndexCommit, CommitCatalog, PublishedCatalog, SetIndexState
  <2>2. /\ DOMAIN cat = {"ns", "ix"} /\ cat.ix \in IndexEntry /\ cat.ns = pub.ns /\ cat.ix.id # 0
        /\ cat.ix.st = "Building" /\ cat.ix.id = bld[b].ix
    BY <1>4 DEF CatalogInv, EntryOK, CatalogAgrees, StillReserved
  <2>3. cat'.ns = cat.ns /\ cat'.ix = [cat.ix EXCEPT !.st = "Ready"]
    BY <2>1, <2>2, Zenon
  <2>4. cat'.ix.id = cat.ix.id /\ cat'.ix.root = cat.ix.root
    BY <2>2, <2>3, Zenon DEF IndexEntry
  <2>5. pub'.ns = pub.ns /\ pub'.ix = cat'.ix /\ pub'.ts = pub.ts
    BY <2>1, <2>2, <2>3, Zenon
  <2>6. bld[b].ent = cat.ix.id
    BY <1>1, <2>2 DEF CatalogInv, BuildOK, Entered, EntryOK, IndexEntry
  <2>7. VersionInv'
    BY <1>1, <2>3, <2>5, VersionFrame, Zenon
  <2>8. TreeInv'
    <3>1. cat'.ix.root \in {"leaf", cat.ix.root} /\ pub'.ix.root \in {"leaf", cat.ix.root, pub.ix.root}
      BY <2>4, <2>5
    <3>2. /\ \A a \in Builders : BuilderForm(bld'[a])
          /\ \A a \in Builders : tree.sep = <<0, 0>> /\ bld'[a].ent = cat.ix.id /\ cat.ix.id # 0 => OneLeaf(bld'[a])
      BY <1>2, NoTreeForm, Zenon DEF TreeInv, LeafTree
    <3>3. DOMAIN tree' = DOMAIN tree /\ tree'.ch = tree.ch /\ tree'.log = tree.log /\ tree'.sep = tree.sep
      BY <1>1, Zenon
    <3> QED BY <1>1, <2>4, <2>5, <3>1, <3>2, <3>3, TreeFrame, Zenon
  <2>9. ASSUME NEW B, CellsOK(B) PROVE CellsOK(B)'
    <3>1. CellsSince(prim, pub.ts, B, tree.L)
      BY <1>1, <2>6, <2>9, Zenon DEF CellsOK, BuiltSince
    <3>2. \A a \in Builders : bld'[a].ent = cat'.ix.id => BuiltSince(prim', pub'.ts, B, bld'[a], tree'.L)
      BY <1>1, <1>2, <2>2, <2>4, <2>5, <2>9, NoTreeForm, Zenon DEF CellsOK
    <3> QED BY <1>1, <2>5, <2>9, <3>1, <3>2, Zenon DEF CellsOK
  <2>10. AgreeInv'
    BY <1>1, <2>4, <2>5, <2>9, AgreeFrame, Zenon
  <2> QED BY <2>7, <2>8, <2>10, Zenon
<1> QED BY <1>3, <1>4, Zenon

\* The cleanup removes its own entry and the tree with it, or nothing.
LEMMA CleanupKeepsIndex ==
  ASSUME CatalogInv, VersionInv, TreeInv, AgreeInv, ~torn, NEW b \in Builders, CreateIndexCleanup(b), ~torn'
  PROVE  VersionInv' /\ TreeInv' /\ AgreeInv'
<1>1. Inside = {} /\ bld' = [bld EXCEPT ![b] = NoBuild] /\ UNCHANGED <<next, prim, wr>>
  BY Zenon DEF CreateIndexCleanup, SetB
<1>2. bld'[b] = NoBuild /\ \A a \in Builders \ {b} : bld'[a] = bld[a]
  BY <1>1, BuildFields, Zenon
<1>3. CASE ~(StillReserved(b) /\ cat.ix.root = "leaf")
  <2>1. cat' = cat /\ pub' = pub /\ tree' = tree
    BY <1>3, Zenon DEF CreateIndexCleanup
  <2> QED BY <1>1, <1>2, <2>1, NoTreeForm, BuildFrame, Zenon
<1>4. CASE StillReserved(b) /\ cat.ix.root = "leaf"
  <2>1. /\ cat' = [cat EXCEPT !.ix = NoIndex] /\ pub' = [ns |-> cat'.ns, ix |-> cat'.ix, ts |-> pub.ts]
        /\ tree' = NoTree
    BY <1>4, Zenon DEF CreateIndexCleanup, CommitCatalog, PublishedCatalog, DropIndexEntry
  <2>2. cat'.ns = cat.ns /\ cat'.ix = NoIndex /\ pub'.ns = cat.ns /\ pub'.ix = NoIndex /\ pub'.ts = pub.ts
    BY <2>1, Zenon DEF CatalogInv
  <2>3. cat.ns = pub.ns
    BY Zenon DEF CatalogInv, CatalogAgrees
  <2>4. VersionInv'
    BY <1>1, <2>2, <2>3, VersionFrame, Zenon
  <2>5. NoIndex.id = 0 /\ NoIndex.root = "leaf"
    BY DEF NoIndex
  <2>6. /\ \A w \in Writers : wr'[w].pc \notin {"staged", "installed"}
        /\ \A a \in Builders : BuilderForm(bld'[a])
    BY <1>1, <1>2, NoTreeForm, Zenon DEF Inside, TreeInv
  <2>7. TreeInv'
    BY <2>1, <2>2, <2>5, <2>6, NoTreeForm, FreshTree, Zenon
  <2>8. AgreeInv'
    BY <2>2, <2>5, Zenon DEF AgreeInv
  <2> QED BY <2>4, <2>7, <2>8, Zenon
<1> QED BY <1>3, <1>4, Zenon

\* Reopening brings the committed entries of a Ready index back, and builds an
\* unfinished one again from what is published.
LEMMA ReopenKeepsIndex ==
  ASSUME CatalogInv, VersionInv, TreeInv, AgreeInv, ~torn, Reopen
  PROVE  VersionInv' /\ TreeInv' /\ AgreeInv'
<1> DEFINE ix == Resumed(pub.ix, KeysAt(pub.ts))
<1>1. VersionInv' /\ \A d, T : Upto(prim', d, T) = Upto(prim, d, T)
  BY ReopenKeepsVersions, Zenon
<1>2. \A k, T : Holds(prim', k, T) <=> Holds(prim, k, T)
  BY <1>1, Zenon DEF Holds, Seen
<1>3. cat'.ix = ix /\ pub'.ix = ix /\ pub'.ns = pub.ns /\ pub'.ts = pub.ts
  <2>1. cat' = [ns |-> pub.ns, ix |-> ix] /\ pub' = [pub EXCEPT !.ix = ix]
    BY Zenon DEF Reopen
  <2> HIDE DEF ix
  <2> QED BY <2>1, Zenon DEF CatalogInv
<1>4. /\ \A w \in Writers : wr'[w].pc = "idle" /\ ~Installed(w)'
      /\ \A b \in Builders : bld'[b] = NoBuild
      /\ prim' = {x \in prim : x.c}
  <2>1. \A w \in Writers : wr'[w] = Idle
    BY Zenon DEF Reopen
  <2> QED BY <2>1, IdleThread, Zenon DEF Reopen, Installed
<1>5. \A w \in Writers : wr'[w].pc \notin {"staged", "installed"}
  BY <1>4
<1>6. /\ \A b \in Builders : BuilderForm(bld'[b])
      /\ \A b \in Builders : bld'[b].ent = 0
  BY <1>4, NoTreeForm, Zenon
<1>7. pub.ts \in Nat /\ pub.ix \in IndexEntry /\ cat.ix.id = pub.ix.id /\ cat.ix.st = pub.ix.st
  BY Zenon DEF CatalogInv, EntryOK, CatalogAgrees, VersionInv
<1>8. NotCarried' => NotCarried
  BY <1>3, <1>4, Zenon DEF NotCarried
<1>9. CASE pub.ix.st = "Ready"
  <2>1. ix = pub.ix
    BY <1>9 DEF Resumed
  <2>2. cat'.ix = pub.ix /\ pub'.ix = pub.ix
    BY <1>3, <2>1, Zenon
  <2>3. /\ DOMAIN tree = DOMAIN NoTree /\ tree.ch \in SUBSET ChainEntry /\ tree.log \in SUBSET LogRecord
        /\ {"L", "R", "sep", "node", "ch", "log"} \subseteq DOMAIN tree
    BY DEF TreeInv, NoTree
  <2>4. tree' = [tree EXCEPT !.ch = {[pg |-> Leaf(pub.ix.root, x.k), k |-> x.k, ts |-> x.ts,
                                      live |-> x.live, c |-> TRUE] : x \in tree.log}]
    BY <1>9, <2>1, Zenon DEF Reopen
  <2>5. /\ DOMAIN tree' = DOMAIN NoTree /\ tree'.sep = tree.sep /\ tree'.log = tree.log /\ tree'.L = tree.L
        /\ tree'.ch = {[pg |-> Leaf(pub.ix.root, x.k), k |-> x.k, ts |-> x.ts,
                        live |-> x.live, c |-> TRUE] : x \in tree.log}
    BY <2>3, <2>4, Zenon
  <2>6. tree'.ch \in SUBSET ChainEntry
    <3>1. ASSUME NEW x \in tree.log
          PROVE  [pg |-> Leaf(pub.ix.root, x.k), k |-> x.k, ts |-> x.ts, live |-> x.live, c |-> TRUE] \in ChainEntry
      <4>1. x \in LogRecord /\ Leaf(pub.ix.root, x.k) \in {"L", "R"}
        BY <2>3, Zenon DEF Leaf
      <4>2. x.k \in Key /\ x.ts \in Nat /\ x.live \in BOOLEAN
        BY <4>1, Zenon DEF LogRecord
      <4> QED BY <4>1, <4>2, Zenon DEF ChainEntry
    <3> QED BY <2>5, <3>1, Zenon
  <2>7. CASE tree.sep # <<0, 0>>
    <3>1. TreeInv' /\ AgreeInv'
      BY <1>6, <2>3, <2>5, <2>6, <2>7, Zenon DEF TreeInv, AgreeInv
    <3> QED BY <1>1, <3>1, Zenon
  <2>8. CASE tree.sep = <<0, 0>>
    <3>1. LeafTree
      BY <2>8, Zenon DEF TreeInv
    <3>2. pub.ix.root = "leaf" /\ \A k : Leaf(pub.ix.root, k) = "L"
      BY <3>1, Zenon DEF LeafTree, Leaf
    <3>3. ASSUME NEW y \in tree.ch, y.c
          PROVE  y = [pg |-> "L", k |-> RecordOf(y).k, ts |-> RecordOf(y).ts, live |-> RecordOf(y).live, c |-> TRUE]
      <4>1. y \in ChainEntry /\ y.pg = "L"
        BY <2>3, <3>1, Zenon DEF LeafTree
      <4>2. y = [pg |-> y.pg, k |-> y.k, ts |-> y.ts, live |-> y.live, c |-> y.c] /\ y.c \in BOOLEAN
        BY <4>1, Zenon DEF ChainEntry
      <4>3. y.c = TRUE
        BY <3>3, <4>2, Zenon
      <4>4. RecordOf(y).k = y.k /\ RecordOf(y).ts = y.ts /\ RecordOf(y).live = y.live
        BY DEF RecordOf
      <4>5. y = [pg |-> "L", k |-> y.k, ts |-> y.ts, live |-> y.live, c |-> TRUE]
        BY ONLY <4>1, <4>2, <4>3, Zenon
      <4> QED BY ONLY <4>4, <4>5, Zenon
    <3>4. tree'.ch = {y \in tree.ch : y.c}
      <4> DEFINE form(x) == [pg |-> "L", k |-> x.k, ts |-> x.ts, live |-> x.live, c |-> TRUE]
      <4>1. tree'.ch = {form(x) : x \in tree.log}
        BY <2>5, <3>2, Zenon
      <4>2. tree.log = {RecordOf(y) : y \in {z \in tree.ch : z.c}}
        BY <3>1, Zenon DEF LeafTree
      <4>3. \A y \in {z \in tree.ch : z.c} : form(RecordOf(y)) = y
        BY <3>3, Zenon
      <4> HIDE DEF form
      <4>4. ASSUME NEW x \in tree'.ch PROVE x \in {y \in tree.ch : y.c}
        <5>1. PICK r \in tree.log : x = form(r)
          BY <4>1, Zenon
        <5>2. PICK y \in {z \in tree.ch : z.c} : r = RecordOf(y)
          BY <4>2, Zenon
        <5>3. form(RecordOf(y)) = y
          BY <4>3, Zenon
        <5> QED BY <5>1, <5>2, <5>3, Zenon
      <4>5. ASSUME NEW y \in {z \in tree.ch : z.c} PROVE y \in tree'.ch
        <5>1. form(RecordOf(y)) = y /\ RecordOf(y) \in tree.log
          BY <4>2, <4>3, Zenon
        <5> QED BY <4>1, <5>1, Zenon
      <4> QED BY <4>4, <4>5, Zenon
    <3>5. \A x \in tree'.ch : x.c /\ x.pg = "L" /\ x.ts <= pub'.ts
      BY <1>3, <3>1, <3>4, Zenon DEF LeafTree
    <3>6. cat'.ix.id = cat.ix.id /\ cat.ix.id # 0
      BY <1>7, <1>9, <2>2 DEF CatalogInv, EntryOK
    <3>7. LeafTree'
      <4>1. tree'.log = {RecordOf(x) : x \in {y \in tree'.ch : y.c}}
        <5>1. {y \in tree'.ch : y.c} = {y \in tree.ch : y.c}
          BY <3>4, Zenon
        <5> QED BY <2>5, <3>1, <5>1, Zenon DEF LeafTree
      <4>2. \A b \in Builders : ~(bld'[b].ent = cat'.ix.id /\ cat'.ix.id # 0)
        BY <1>6, Zenon
      <4> QED BY <1>4, <1>5, <2>2, <3>2, <3>5, <4>1, <4>2, Zenon DEF LeafTree
    <3>8. TreeInv'
      BY <1>6, <2>3, <2>5, <2>6, <3>7, Zenon DEF TreeInv
    <3>9. AgreeInv'
      <4> SUFFICES ASSUME NotCarried PROVE \E B : ChainsSince(prim', pub'.ts, tree'.ch, B) /\ CellsOK(B)'
        BY <1>8, Zenon DEF AgreeInv
      <4>1. PICK B : ChainsSince(prim, pub.ts, tree.ch, B) /\ CellsOK(B)
        BY <2>8, <3>6, Zenon DEF AgreeInv
      <4>2. \A k : Committed(tree'.ch, k) = Committed(tree.ch, k)
        BY <3>4, Zenon DEF Committed
      <4>3. ChainsSince(prim', pub'.ts, tree'.ch, B)
        BY <1>2, <1>3, <4>1, <4>2 DEF ChainsSince
      <4>4. CellsSince(prim', pub'.ts, B, tree'.L)
        <5>1. CellsSince(prim, pub.ts, B, tree.L)
          BY <1>7, <1>9, <4>1, Zenon DEF CellsOK
        <5> QED BY <1>2, <1>3, <2>5, <5>1, Zenon DEF CellsSince
      <4>5. CellsWithin(prim', pub'.ts, B, tree'.L)
        <5>1. CellsWithin(prim, pub.ts, B, tree.L)
          BY <4>1, Zenon DEF CellsOK
        <5> QED BY <1>2, <1>3, <2>5, <5>1, Zenon DEF CellsWithin
      <4>6. CellsOK(B)'
        BY <1>6, <3>6, <4>4, <4>5, Zenon DEF CellsOK
      <4> QED BY <4>3, <4>6, Zenon
    <3> QED BY <1>1, <3>8, <3>9, Zenon
  <2> QED BY <2>7, <2>8, Zenon
<1>10. CASE pub.ix.st # "Ready"
  <2>1. tree' = [NoTree EXCEPT !.L = IF ix.st = "Ready" THEN KeysAt(pub.ts) ELSE {}]
    BY <1>10, Zenon DEF Reopen
  <2>2. ix.root = "leaf" /\ ix.id \in Nat
    <3>1. CASE pub.ix.st # "Building"
      <4>1. pub.ix.id = 0 /\ pub.ix.root = "leaf"
        BY <1>10, <3>1 DEF CatalogInv, EntryOK, IndexEntry
      <4> QED BY <3>1, <4>1 DEF Resumed
    <3>2. CASE pub.ix.st = "Building" /\ Duplicates(KeysAt(pub.ts))
      BY <3>2 DEF Resumed, NoIndex
    <3>3. CASE pub.ix.st = "Building" /\ ~Duplicates(KeysAt(pub.ts))
      <4>1. ix = [pub.ix EXCEPT !.st = "Ready", !.root = "leaf"]
        BY <3>3, Zenon DEF Resumed
      <4> HIDE DEF ix
      <4> QED BY <1>7, <4>1, Zenon DEF IndexEntry
    <3> QED BY <3>1, <3>2, <3>3, Zenon
  <2> HIDE DEF ix
  <2>3. /\ DOMAIN tree' = DOMAIN NoTree /\ tree'.ch = {} /\ tree'.log = {}
        /\ tree'.L = IF ix.st = "Ready" THEN KeysAt(pub.ts) ELSE {}
    <3>1. {"L", "ch", "log"} \subseteq DOMAIN NoTree
      BY DEF NoTree
    <3> QED BY <2>1, <3>1, NoTreeForm, Zenon
  <2>4. TreeInv'
    BY <1>3, <1>5, <1>6, <2>2, <2>3, FreshTree, Zenon
  <2>5. AgreeInv'
    <3> SUFFICES ASSUME cat'.ix.id # 0
                 PROVE  ChainsSince(prim', pub'.ts, tree'.ch, pub'.ts) /\ CellsOK(pub.ts)'
      BY Zenon DEF AgreeInv
    <3>1. ChainsSince(prim', pub'.ts, tree'.ch, pub'.ts)
      BY <1>3, <1>7, <2>3, FreshChains, Zenon
    <3>2. ASSUME ix.st = "Ready" PROVE CellsSince(prim', pub'.ts, pub'.ts, tree'.L)
      <4>1. \A k \in Key : k \in tree'.L <=> Holds(prim', k, pub'.ts)
        BY <1>2, <1>3, <2>3, <3>2, KeysHold, Zenon
      <4>2. pub'.ts \in Nat /\ pub'.ts <= pub'.ts
        BY <1>3, <1>7
      <4> QED BY <4>1, <4>2, Zenon DEF CellsSince
    <3>3. CellsWithin(prim', pub'.ts, pub'.ts, tree'.L)
      <4>1. CASE ix.st = "Ready"
        BY <3>2, <4>1, Zenon DEF CellsSince, CellsWithin
      <4>2. CASE ix.st # "Ready"
        BY <2>3, <4>2, Zenon DEF CellsWithin
      <4> QED BY <4>1, <4>2, Zenon
    <3>4. CellsOK(pub.ts)'
      BY <1>3, <1>6, <3>2, <3>3, Zenon DEF CellsOK
    <3> QED BY <3>1, <3>4, Zenon
  <2> QED BY <1>1, <2>4, <2>5, Zenon
<1> QED BY <1>9, <1>10, Zenon

\* The empty database has no version, no chain and no index.
LEMMA IndexInit == Init => IndexInv
<1> SUFFICES ASSUME Init PROVE VersionInv /\ TreeInv /\ AgreeInv
  BY Zenon DEF IndexInv
<1>1. /\ cat.ns = 0 /\ cat.ix.id = 0 /\ cat.ix.root = "leaf" /\ pub.ns = 0 /\ pub.ix.root = "leaf" /\ pub.ts = 0
      /\ next.ns = 1 /\ prim = {} /\ tree = NoTree
  BY DEF Init, NoCollection, NoIndex
<1>2. wr \in [Writers -> Thread] /\ \A w \in Writers : wr[w] = Idle
  BY IdleThread, Zenon DEF Init
<1>3. \A w \in Writers : ~Installed(w) /\ wr[w].pc = "idle" /\ ThreadOK(w)
  <2>1. \A w \in Writers : wr[w].pc = "idle" /\ wr[w].from = 0
    BY <1>2, IdleThread, Zenon
  <2>2. 0 < next.ns
    BY <1>1
  <2> QED BY <2>1, <2>2, Zenon DEF Installed, ThreadOK
<1>4. \A d, ts : Upto(prim, d, ts) = {}
  BY <1>1, Zenon DEF Upto
<1>5. pub.ts \in Nat /\ cat.ns < next.ns /\ pub.ns < next.ns
  BY <1>1
<1>6. VersionInv
  BY <1>1, <1>2, <1>3, <1>4, <1>5, Zenon DEF VersionInv
<1>7. \A b \in Builders : BuilderForm(bld[b])
  BY NoTreeForm, Zenon DEF Init
<1>8. LeafTree
  <2>1. tree.log = {RecordOf(x) : x \in {y \in tree.ch : y.c}} /\ tree.ch = {}
    BY <1>1, NoTreeForm, Zenon
  <2>2. \A w \in Writers : wr[w].pc \notin {"staged", "installed"}
    BY <1>3
  <2> QED BY <1>1, <1>3, <2>1, <2>2, Zenon DEF LeafTree
<1>9. TreeInv
  BY <1>1, <1>7, <1>8, NoTreeForm, Zenon DEF TreeInv
<1>10. AgreeInv
  BY <1>1, Zenon DEF AgreeInv
<1> QED BY <1>6, <1>9, <1>10, Zenon

\* A step of create_index keeps the invariant until an index record is refused
\* or the build writes over pages that are no longer its index's.
LEMMA BuilderKeepsIndex ==
  ASSUME CatalogInv, VersionInv, TreeInv, AgreeInv, ~torn, NEW b \in Builders, Builder(b), ~torn'
  PROVE  VersionInv' /\ TreeInv' /\ AgreeInv'
BY ReserveKeepsIndex, OpenKeepsIndex, ReadKeepsIndex, RootKeepsIndex, BatchKeepsIndex, CommitKeepsIndex,
   CleanupKeepsIndex, Zenon DEF Builder

\* Nothing mends a catalog whose index record was refused, or pages that a
\* build wrote over.
LEMMA TornStays ==
  ASSUME torn, Next
  PROVE  torn'
<1>1. ASSUME NEW w \in Writers, Writer(w) PROVE torn' = torn
  BY <1>1, Zenon DEF Writer, Update, Delete, FindOneAndUpdate, FindOneAndDelete, FindOneAndReplace,
         ReplaceOne, Upsert, SweepScan, SweepDelete, StageUpdate, StageInsert, Install, Publish,
         IsIdle, Refuse, WritesOnly
<1>2. ASSUME NEW b \in Builders, Builder(b) PROVE torn' = torn \/ torn' = TRUE
  BY <1>2, ZenonT(60) DEF Builder, CreateIndexReserve, BuildOpen, BuildCheck, BuildView, BuildIndexMvcc,
         BuildAstray, BuildCatalogUpdate, BuildCommitToLog, ApplyBatch, CreateIndexCommit, CreateIndexCleanup,
         BuildOnly, CommitCatalog
<1>3. CASE CreateNamespace \/ DropNamespace \/ OtherDdl \/ DropIndex \/ Reopen
  BY <1>3, ZenonT(60) DEF CreateNamespace, DropNamespace, OtherDdl, DropIndex, Reopen, CommitCatalog
<1> QED BY <1>1, <1>2, <1>3, Zenon DEF Next

\* The invariant holds throughout.
LEMMA IndexInvariance == Spec => []IndexInv
<1>1. CatalogInv /\ IndexInv /\ [Next]_vars => IndexInv'
  <2> SUFFICES ASSUME CatalogInv, IndexInv, [Next]_vars, ~torn' PROVE (VersionInv /\ TreeInv /\ AgreeInv)'
    BY Zenon DEF IndexInv
  <2>1. ~torn
    BY TornStays, Zenon DEF vars
  <2>2. VersionInv /\ TreeInv /\ AgreeInv
    BY <2>1, Zenon DEF IndexInv
  <2>3. CASE UNCHANGED vars
    <3>1. UNCHANGED <<cat, pub, next, prim, tree, wr, bld, torn>>
      BY <2>3, Zenon DEF vars
    <3>2. VersionInv'
      BY <2>2, <3>1, VersionFrame, Zenon
    <3>3. TreeInv'
      BY <2>2, <3>1, Zenon DEF TreeInv, LeafTree, LeafEntry, Installed
    <3>4. AgreeInv'
      BY <2>2, <3>1, Zenon DEF AgreeInv, CellsOK, NotCarried
    <3> QED BY <3>2, <3>3, <3>4, Zenon
  <2>4. ASSUME NEW w \in Writers, Writer(w) PROVE (VersionInv /\ TreeInv /\ AgreeInv)'
    BY <2>2, <2>4, WriterKeepsVersions, WriterKeepsAgreement, Zenon
  <2>5. ASSUME NEW b \in Builders, Builder(b) PROVE (VersionInv /\ TreeInv /\ AgreeInv)'
    BY <2>1, <2>2, <2>5, BuilderKeepsIndex, Zenon
  <2> QED BY <2>1, <2>2, <2>3, <2>4, <2>5, NamespaceKeepsIndex, DropIndexKeepsIndex, ReopenKeepsIndex,
             Zenon DEF Next
<1> QED BY <1>1, IndexInit, CatalogInvariance, PTL DEF Spec

\* What the cells and the chains of a Ready index add up to.
LEMMA AgreementIsComplete == CatalogInv /\ IndexInv => ReadyIndexAgrees
<1> SUFFICES ASSUME CatalogInv, IndexInv, tree.sep = <<0, 0>>, NoReattach, pub.ix.st = "Ready", ~torn
             PROVE  Readable(pub.ix.root) /\ IndexKeysAt(pub.ix.root, pub.ts) = KeysAt(pub.ts)
  BY Zenon DEF ReadyIndexAgrees, ReadyIndexComplete
<1>1. VersionInv /\ TreeInv /\ AgreeInv /\ LeafTree /\ NotCarried
  BY Zenon DEF IndexInv, TreeInv, NoReattach, NotCarried
<1>2. cat.ix.id # 0 /\ cat.ix.st = "Ready"
  BY DEF CatalogInv, CatalogAgrees, EntryOK
<1>3. pub.ix.root = "leaf" /\ \A k : Leaf(pub.ix.root, k) = "L"
  BY <1>1, Zenon DEF LeafTree, Leaf
<1>4. PICK B : ChainsSince(prim, pub.ts, tree.ch, B) /\ CellsOK(B)
  BY <1>1, <1>2, Zenon DEF AgreeInv
<1>5. \A k \in Key : \E T \in Nat : B <= T /\ T <= pub.ts /\ (k \in tree.L <=> Holds(prim, k, T))
  BY <1>2, <1>4, Zenon DEF CellsOK, CellsSince
<1> DEFINE at(k) == {x \in tree.ch : x.k = k /\ x.pg = Leaf(pub.ix.root, k) /\ x.c /\ x.ts <= pub.ts}
<1>6. ASSUME NEW k \in Key
      PROVE  (IF at(k) = {} THEN k \in CellsOf(Leaf(pub.ix.root, k)) ELSE Newest(at(k)).live) <=> k \in KeysAt(pub.ts)
  <2>1. at(k) = Committed(tree.ch, k)
    BY <1>1, <1>3, Zenon DEF LeafTree, Committed
  <2>2. CellsOf(Leaf(pub.ix.root, k)) = tree.L
    BY <1>3, Zenon DEF CellsOf
  <2>3. k \in KeysAt(pub.ts) <=> Holds(prim, k, pub.ts)
    BY KeysHold, Zenon
  <2> HIDE DEF at
  <2>4. CASE at(k) = {}
    <3>1. PICK T \in Nat : B <= T /\ T <= pub.ts /\ (k \in tree.L <=> Holds(prim, k, T))
      BY <1>5, Zenon
    <3>2. Holds(prim, k, T) <=> Holds(prim, k, pub.ts)
      BY <1>4, <2>1, <2>4, <3>1, Zenon DEF ChainsSince
    <3> QED BY <2>2, <2>3, <2>4, <3>1, <3>2, Zenon
  <2>5. CASE at(k) # {}
    <3>1. Newest(Committed(tree.ch, k)).live <=> Holds(prim, k, pub.ts)
      BY <1>4, <2>1, <2>5, Zenon DEF ChainsSince
    <3> QED BY <2>1, <2>3, <2>5, <3>1, Zenon
  <2> QED BY <2>4, <2>5, Zenon
<1>7. IndexKeysAt(pub.ix.root, pub.ts) =
        {k \in Key : IF at(k) = {} THEN k \in CellsOf(Leaf(pub.ix.root, k)) ELSE Newest(at(k)).live}
  BY Zenon DEF IndexKeysAt, Key
<1>8. KeysAt(pub.ts) \subseteq Key
  BY <1>1, PublishedKeys, Zenon
<1> HIDE DEF at
<1>9. IndexKeysAt(pub.ix.root, pub.ts) = KeysAt(pub.ts)
  BY <1>6, <1>7, <1>8, Zenon
<1>10. Readable(pub.ix.root)
  BY <1>3, Zenon DEF Readable
<1> QED BY <1>9, <1>10, Zenon

\* A Ready index whose build fitted one leaf holds exactly the keys of the
\* documents the published epoch shows, in a collection to which no write of
\* an older incarnation was carried over: the cells create_index read and the
\* chains its concurrent writers left add up to the collection, across drops,
\* recreations, refused namespace records, reopening, and a second create_index
\* whose build lands in the same index.  Nothing is said once a build that
\* outlived its index has written over pages that are no longer the index's,
\* or once an index record was refused (torn).
THEOREM ReadyIndexesAgree == Spec => []ReadyIndexAgrees
BY CatalogInvariance, IndexInvariance, AgreementIsComplete, PTL
=============================================================================
