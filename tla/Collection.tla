----------------------------- MODULE Collection -----------------------------
(***************************************************************************)
(* One collection and its secondary indexes under the document operations  *)
(* of storage/paged_engine/doc_ops.rs, one client at a time: what each     *)
(* operation stores, what it stages for every index (secondary_index.rs,   *)
(* index_write_maint.rs), and the unique checks at staging and at install  *)
(* (pending_install.rs).  Concurrency, the journal and index builds are    *)
(* the other modules'.                                                      *)
(*                                                                         *)
(* A document is the sequence of its fields; <<>> stands for none.  cells  *)
(* holds every key an index's leaf has a base cell or a version chain for: *)
(* the live entries, and the deleted ones no checkpoint has folded yet.     *)
(***************************************************************************)
EXTENDS Update

CONSTANTS
  IndexSets,      \* the sequences of index definitions a collection may have
  Documents,      \* documents to insert, or to replace others with
  Filters,        \* filters of updates and deletes
  Updates,        \* [pipe |-> FALSE, u, afs] or [pipe |-> TRUE, stages]
  Sorts,          \* sort specifications, sequences of <<path, ascending>>
  Queries,        \* filters of the reads that the properties compare
  MaxDocs,        \* bound on stored documents
  MaxOps          \* bound on operations that store something

VARIABLES
  docs,      \* primary tree: encoded _id to document
  indexes,   \* the index definitions
  entries,   \* index name to its entries [key, id]
  cells,     \* index name to the keys its leaf still holds
  ops        \* operations that stored something; object ids derive from it

vars == <<docs, indexes, entries, cells, ops>>

Names(ixs) == {ixs[i].name : i \in DOMAIN ixs}
IdOf(d) == OrNull(Get(d, "_id"))
Keys(E) == {e.key : e \in E}

(* validate_document, with the limits on nesting and on fields scaled down. *)
MaxNestingDepth == 3
MaxFieldCount == 6
RECURSIVE Depth(_), FieldCount(_)
Depth(v) == CASE IsDoc(v) -> 1 + Max({0} \cup {Depth(v.d[i][2]) : i \in DOMAIN v.d})
              [] IsArr(v) -> 1 + Max({0} \cup {Depth(v.a[i]) : i \in DOMAIN v.a})
              [] OTHER -> 0
FieldCount(v) == CASE IsDoc(v) -> Len(v.d) + SumOf([i \in DOMAIN v.d |-> FieldCount(v.d[i][2])])
                   [] IsArr(v) -> SumOf([i \in DOMAIN v.a |-> FieldCount(v.a[i])])
                   [] OTHER -> 0
ValidateDocument(d) == Depth(Doc(d)) <= MaxNestingDepth + 1 /\ FieldCount(Doc(d)) <= MaxFieldCount

EnsureId(d) == IF HasField(d, "_id") THEN d ELSE Append(d, <<"_id", Oid(ops)>>)

-----------------------------------------------------------------------------
(* Staging.  A transaction collects the document changes and, per index,    *)
(* the keys to delete and the entries to insert.                            *)

EmptyTxn == [err |-> FALSE, docs |-> docs,
             del |-> [n \in Names(indexes) |-> {}], ins |-> [n \in Names(indexes) |-> {}]]

KeysIf(verdict, d, idx) ==
  LET nothing == [err |-> FALSE, keys |-> {}, multikey |-> FALSE]
  IN CASE verdict = "E" -> [nothing EXCEPT !.err = TRUE]
       [] verdict = "F" -> nothing
       [] OTHER -> BuildIndexKeys(d, idx, IdOf(d))
KeysOf(d, idx) ==
  KeysIf(IF d = <<>> THEN "F" ELSE DocMatchesPartialFilter(d, idx), d, idx)

\* check_unique_constraint_mvcc: another entry has the same field values,
\* among those visible and not staged for deletion, and those staged.
UniqueTaken(t, idx, d) ==
  LET fields == IndexFieldValues(d, idx)
      start == UniqueRange(fields)
      live == (Keys(entries[idx.name]) \ t.del[idx.name]) \cup Keys(t.ins[idx.name])
  IN \E k \in live \ {EncodeCompoundKey(Append(fields, <<IdOf(d), TRUE>>))} :
       InRange(k, start, Next1(start))

\* update_index_on_insert, _delete and _update: old or new is <<>> for the
\* first two.  o and n are their keys; an array's are not checked here.
StageKeys(t, idx, new, gone, added) ==
  [t EXCEPT !.del[idx.name] = (@ \cup gone) \ added,
            !.ins[idx.name] = {e \in @ : e.key \notin gone}
                              \cup {[key |-> k, id |-> IdOf(new)] : k \in added}]
StageIndex(t, idx, new, o, n) ==
  LET taken == /\ idx.unique /\ ~n.multikey /\ n.keys \ o.keys # {}
               /\ UniqueTaken(StageKeys(t, idx, new, o.keys \ n.keys, {}), idx, new)
  IN IF t.err \/ o.err \/ n.err \/ taken THEN [t EXCEPT !.err = TRUE]
     ELSE StageKeys(t, idx, new, o.keys \ n.keys, n.keys \ o.keys)

KeysOfEach(D, idx) == [d \in D |-> KeysOf(d, idx)]
StageChange(t, idx, old, new, keys) == StageIndex(t, idx, new, keys[old], keys[new])

\* Faulty variant: an update stages the new keys and leaves the old ones.
UpdateIndexKeepsOld(t, idx, old, new) == StageChange(t, idx, <<>>, new, KeysOfEach({<<>>, new}, idx))

UpdateIndex(t, idx, old, new) == StageChange(t, idx, old, new, KeysOfEach({old, new}, idx))

\* maintain_secondary_on_insert, _delete and _update, then the primary write.
MaintainSecondary(t, old, new) ==
  FoldLeft(LAMBDA s, idx : UpdateIndex(s, idx, old, new), t, indexes)
StageDocument(s, key, new) ==
  IF s.err THEN s
  ELSE [s EXCEPT !.docs = [k \in (DOMAIN @ \cup {key}) \ (IF new = <<>> THEN {key} ELSE {})
                             |-> IF k = key THEN new ELSE @[k]]]
StageWrite(t, key, old, new) == StageDocument(MaintainSecondary(t, old, new), key, new)

\* stage_insert: the view does not see what the transaction staged.
StageInsert(t, d) ==
  LET key == EncodeKey(IdOf(d))
  IN IF t.err \/ ~ValidateDocument(d) \/ key \in DOMAIN docs THEN [t EXCEPT !.err = TRUE]
     ELSE StageWrite(t, key, <<>>, d)

-----------------------------------------------------------------------------
(* Install.                                                                 *)

\* Faulty variant: a unique key is not checked again at install.
UniqueInstallConflictNever(idx, k, held) == FALSE

\* check_unique_prefix_install: another key with the prefix is on the leaf,
\* whether or not a tombstone covers it.
UniqueInstallConflict(idx, k, held) ==
  LET start == PrefixExcludingId(k, [i \in DOMAIN idx.keys |-> idx.keys[i][2]])
  IN idx.unique /\ (start = <<>> \/ \E j \in held : j # k /\ InRange(j, start, Next1(start)))

\* The transaction takes effect when nothing conflicts, and not at all
\* otherwise.
Write(t) ==
  LET held(idx) == cells[idx.name] \cup Keys(t.ins[idx.name])
  IN /\ Cardinality(DOMAIN t.docs) <= MaxDocs
     /\ ~t.err /\ t.docs # docs
     /\ \A i \in DOMAIN indexes : \A e \in t.ins[indexes[i].name] :
          ~UniqueInstallConflict(indexes[i], e.key, held(indexes[i]))
     /\ docs' = t.docs
     /\ entries' = [n \in DOMAIN entries |->
          {e \in entries[n] : e.key \notin t.del[n] \cup Keys(t.ins[n])} \cup t.ins[n]]
     /\ cells' = [n \in DOMAIN cells |-> cells[n] \cup Keys(t.ins[n])]
     /\ ops' = ops + 1 /\ UNCHANGED indexes

-----------------------------------------------------------------------------
(* The operations.                                                          *)

\* Updates and deletes select without the secondary indexes.
SortPairs(r, sort) ==
  IF sort = <<>> THEN r
  ELSE [r EXCEPT !.pairs = SortSeq(@, LAMBDA p, q : DocLess(p[2], q[2], sort))]
Selected(filter, sort) == SortPairs(PrimaryMatches(docs, filter), sort)

ApplyModifications(d, mods, filter, isInsert) ==
  IF mods.pipe THEN ApplyUpdatePipeline(d, mods.stages, 0)
  ELSE ApplyUpdate(d, mods.u, filter, mods.afs, isInsert, 0)

Insert(d) == Write(StageInsert(EmptyTxn, EnsureId(d)))

\* insert_many_batch: all of the documents or none, none at all when two have
\* one _id.  (The second of the two here brings its own.)
InsertMany(d, e) ==
  LET ds == <<EnsureId(d), e>>
  IN HasField(e, "_id") /\ ~BsonEq(IdOf(ds[1]), IdOf(ds[2]))
     /\ Write(FoldLeft(StageInsert, EmptyTxn, ds))

\* What each of the others asks for; Perform is the handler they share.
Request(do, filter, sort, many, upsert, with) ==
  [do |-> do, filter |-> filter, sort |-> sort, many |-> many, upsert |-> upsert, with |-> with]
UpdateDocs(filter, mods, many, upsert) == Request("update", filter, <<>>, many, upsert, mods)
FindOneAndUpdate(filter, mods, sort, upsert) == Request("update", filter, sort, FALSE, upsert, mods)
DeleteDocs(filter, many) == Request("delete", filter, <<>>, many, FALSE, <<>>)
FindOneAndDelete(filter, sort) == Request("delete", filter, sort, FALSE, FALSE, <<>>)
ReplaceOne(filter, new, upsert) == Request("replace", filter, <<>>, FALSE, upsert, new)
FindOneAndReplace(filter, new, sort, upsert) == Request("findreplace", filter, sort, FALSE, upsert, new)

\* The documents it is for: those selected, all or the first; or, when an
\* upsert finds none, the equalities of its filter, under no key yet.
Upsert(filter) == <<<<>>, UpsertBase(filter)>>
Targets(req, r) ==
  CASE r.pairs = <<>> /\ req.upsert -> <<Upsert(req.filter)>>
    [] req.many \/ r.pairs = <<>> -> r.pairs
    [] OTHER -> <<r.pairs[1]>>

\* What becomes of one: its modified form, nothing, or a replacement, which
\* replace_one refuses to change the _id and find_one_and_replace gives the
\* _id it had.  An upsert's replacement has its own _id or, by replace_one,
\* the filter's.
WithId(new, id) == IF HasField(new, "_id") \/ id.t = "missing" THEN new ELSE Put(new, "_id", id)
SameId(new, old) == HasField(new, "_id") => BsonEq(IdOf(new), IdOf(old))
Replacement(new, old) == [err |-> ~SameId(new, old) \/ ~ValidateDocument(new), d |-> new]
NewVersion(req, d, isInsert) ==
  CASE req.do = "update" -> ApplyModifications(d, req.with, req.filter, isInsert)
    [] req.do = "delete" -> [err |-> FALSE, d |-> <<>>]
    [] isInsert -> [err |-> FALSE,
                    d |-> IF req.do = "replace" THEN WithId(req.with, Get(d, "_id")) ELSE req.with]
    [] OTHER -> Replacement(IF req.do = "replace" THEN WithId(req.with, IdOf(d))
                            ELSE Put(req.with, "_id", IdOf(d)), d)

StageModified(t, pair, r) ==
  CASE t.err \/ r.err -> [t EXCEPT !.err = TRUE]
    [] OTHER -> IF pair[1] = <<>> THEN StageInsert(t, EnsureId(r.d))
                ELSE IF r.d = pair[2] THEN t ELSE StageWrite(t, pair[1], pair[2], r.d)
PerformOn(req, r) ==
  /\ ~r.err
  /\ Write(FoldLeft(LAMBDA t, p : StageModified(t, p, NewVersion(req, p[2], p[1] = <<>>)),
                    EmptyTxn, Targets(req, r)))
Perform(req) == PerformOn(req, Selected(req.filter, req.sort))

\* A checkpoint folds every chain into its leaf: deleted keys are gone.
Checkpoint ==
  /\ cells' = [n \in DOMAIN cells |-> Keys(entries[n])]
  /\ UNCHANGED <<docs, indexes, entries, ops>>

-----------------------------------------------------------------------------
Init ==
  /\ indexes \in IndexSets
  /\ docs = <<>> /\ ops = 0
  /\ entries = [n \in Names(indexes) |-> {}] /\ cells = [n \in Names(indexes) |-> {}]

Requests ==
  {UpdateDocs(f, m, many, u) : f \in Filters, m \in Updates, many, u \in BOOLEAN}
  \cup {DeleteDocs(f, many) : f \in Filters, many \in BOOLEAN}
  \cup {ReplaceOne(f, d, u) : f \in Filters, d \in Documents, u \in BOOLEAN}
  \cup {FindOneAndUpdate(f, m, s, u) : f \in Filters, m \in Updates, s \in Sorts, u \in BOOLEAN}
  \cup {FindOneAndDelete(f, s) : f \in Filters, s \in Sorts}
  \cup {FindOneAndReplace(f, d, s, u) : f \in Filters, d \in Documents, s \in Sorts, u \in BOOLEAN}

More == ops < MaxOps

Next ==
  \/ More /\ \E d \in Documents : Insert(d)
  \/ More /\ \E d, e \in Documents : InsertMany(d, e)
  \/ More /\ \E req \in Requests : Perform(req)
  \/ Checkpoint

Spec == Init /\ [][Next]_vars

-----------------------------------------------------------------------------
(* Properties                                                               *)

\* Whatever was inserted, replaced, modified, deleted or refused, a document
\* is stored under the encoding of its own _id, and an index holds exactly
\* the keys of the stored documents that belong in it (its partial filter,
\* sparse, array elements), each leading back to its document.
EntriesMatchDocuments ==
  /\ \A k \in DOMAIN docs : EncodeKey(IdOf(docs[k])) = k
  /\ \A i \in DOMAIN indexes :
       LET E == entries[indexes[i].name]
       IN /\ Keys(E) = UNION {KeysOf(docs[k], indexes[i]).keys : k \in DOMAIN docs}
          /\ \A e \in E : EncodeKey(e.id) \in DOMAIN docs
                          /\ e.key \in KeysOf(docs[EncodeKey(e.id)], indexes[i]).keys

\* The combinations of field values a document has in an index.
FieldValues(d, idx) ==
  IF EvalFilter(d, idx.pfe) = "T" THEN BuildIndexKeys(d, idx, Null).keys ELSE {}

\* Two documents never share a combination of values in a unique index, an
\* array's elements and a compound index's parts included: the check at
\* staging, which passes over arrays, and the one at install, which splits
\* the encoded key, refuse every way to get there.
UniqueHolds ==
  \A i \in DOMAIN indexes : indexes[i].unique =>
    \A j, k \in DOMAIN docs :
      j # k => FieldValues(docs[j], indexes[i]) \cap FieldValues(docs[k], indexes[i]) = {}

\* The documents that match a query and that its plan may pass over.  By _id:
\* a pattern, and an element of an array _id.  By index: a pattern; a document
\* the index leaves out, because it is sparse or the field is an empty array;
\* a path that the query follows through an array and the index does not; and
\* of an array, equality with the whole, and a range with two ends, which two
\* different elements may meet.
PassedOver(plan, d) ==
  LET Pattern(c) == c.k = "eq" /\ c.v.t = "regex"
      Whole1(c) == \/ c.k = "eq" /\ IsArr(c.v)
                   \/ c.k = "in" /\ \E i \in DOMAIN c.vs : IsArr(c.vs[i])
                   \/ c.k = "range" /\ {c.gt, c.gte} # {Missing} /\ {c.lt, c.lte} # {Missing}
      path == plan.idx.keys[1][1]
      v == ExtractFieldValue(d, path)
  IN CASE plan.k = "idhack" -> Pattern(plan.cond) \/ IsArr(IdOf(d))
       [] plan.k = "ixscan" -> \/ Pattern(plan.cond) \/ KeysOf(d, plan.idx).keys = {}
                               \/ v # GetNestedField(d, path)
                               \/ IsArr(v) /\ Whole1(plan.cond)
       [] OTHER -> FALSE

\* An index may lead to a document several times.
SeveralKeys(plan) ==
  plan.k = "ixscan" /\ \/ plan.cond.k = "in"
                       \/ \E k \in DOMAIN docs : KeysOf(docs[k], plan.idx).multikey
SameDocuments(plan, run, scan) ==
  ~scan.err => /\ ~run.err
               /\ Range(run.pairs) \subseteq Range(scan.pairs)
               /\ \A p \in Range(scan.pairs) \ Range(run.pairs) : PassedOver(plan, p[2])
               /\ ~SeveralKeys(plan) => Cardinality(Range(run.pairs)) = Len(run.pairs)
PlanFinds(plan, q) == SameDocuments(plan, ExecutePlan(plan, docs, entries, q, 0),
                                    ExecutePlan(CollScan, docs, entries, q, 0))

\* What a query returns does not depend on its plan: the planned execution,
\* with or without the index, finds the documents the full scan finds, each
\* once, but for the documents PassedOver names and the repetitions of a
\* document with several keys or of a value listed twice.
PlanAgrees == \A q \in Queries : PlanFinds(SelectPlan(q, indexes), q)

NoOptions == [sort |-> <<>>, skip |-> 0, limit |-> 0, proj |-> <<>>, hint |-> "none"]
Page == [NoOptions EXCEPT !.sort = <<<<<<"a">>, FALSE>>>>, !.skip = 1, !.limit = 1,
                          !.proj = <<<<<<"a">>, FALSE>>>>]
PageStages == <<[s |-> "$sort", spec |-> Page.sort], [s |-> "$skip", n |-> Int32(Page.skip)],
                [s |-> "$limit", n |-> Int32(Page.limit)],
                [s |-> "$project", spec |-> <<<<<<"a">>, [flag |-> TRUE, on |-> FALSE]>>>>]>>
CountStages == <<[s |-> "$count", name |-> <<"c">>]>>
GroupStages == <<[s |-> "$group", id |-> Field(<<"a">>),
                  accs |-> <<[out |-> "c", op |-> "$sum", arg |-> Lit(Int32(1)), n |-> 0]>>]>>
ValueStages ==
  <<[s |-> "$unwind", path |-> <<"a">>, index |-> <<>>, preserve |-> FALSE]>> \o GroupStages
\* distinct reads without the indexes, and so does what it is compared with.
IndexesFor(stages) == IF stages = ValueStages THEN <<>> ELSE indexes

\* found: what find returns with each of the options; agg: the documents at
\* the end of each of the pipelines.
SameAnswers(found, agg, distinct) ==
  LET all == found[NoOptions].docs
      groups == agg[GroupStages]
      Ids(ds) == {EncodeKey(Get(ds[i], "_id")) : i \in DOMAIN ds}
  IN ~found[NoOptions].err =>
       /\ agg[PageStages] = found[Page].docs
       /\ agg[CountStages] = <<<<<<"c", Int32(Len(all))>>>>>>
       /\ Cardinality(Ids(groups)) = Len(groups)
       /\ SumOf([i \in DOMAIN groups |-> AsInt(Get(groups[i], "c"))]) = Len(all)
       /\ Ids(agg[ValueStages]) = {EncodeKey(v) : v \in Range(distinct)} \ {EncodeKey(Null)}

\* The pipeline and the query operations agree: $match, $sort, $skip, $limit
\* and $project return what find returns with these options, $count what its
\* cursor holds; $group puts every document in one group, under different
\* keys; and the values that $unwind and $group arrive at are those of
\* distinct.
AggregateAgrees ==
  \A q \in Filters :
    SameAnswers([opts \in {NoOptions, Page} |-> Find(docs, entries, indexes, q, opts)],
                [stages \in {PageStages, CountStages, GroupStages, ValueStages} |->
                  AggregateDocs(docs, entries, IndexesFor(stages),
                                <<[s |-> "$match", filter |-> q]>> \o stages, 0, <<>>).docs],
                Distinct(docs, <<"a">>, q))
=============================================================================
