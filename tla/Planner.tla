------------------------------- MODULE Planner ------------------------------
(***************************************************************************)
(* How a filter is executed: the plan (query/planner.rs), the byte ranges  *)
(* an index is scanned over (index_read_helpers.rs), the execution against *)
(* a snapshot (snapshot_ops/read_exec.rs), the keys an index holds for a   *)
(* document (storage/secondary_index.rs), and the options of find          *)
(* (doc_helpers.rs).                                                        *)
(*                                                                         *)
(* A snapshot is docs, a function from encoded _id to document fields, and *)
(* entries[name], the set of [key, id] of each index.  An index is a       *)
(* record [name, keys, sparse, unique, pfe]: keys is the sequence of       *)
(* <<path, ascending>>, pfe the partial filter (<<>> for none).             *)
(***************************************************************************)
EXTENDS Filter

SortedKeys(S) == SortSeq(SetToSeq(S), ByteLess)

-----------------------------------------------------------------------------
(* The plan.  None is the Option the extraction returns.                    *)

None == [k |-> "none"]
AnyCond == [k |-> "any"]
CollScan == [k |-> "collscan"]

Arg(ops, op) == LET A == OpArg(ops, op)
                IN IF A = {} THEN Missing ELSE CHOOSE v \in A : TRUE
HasOp(ops, S) == \E i \in DOMAIN ops : ops[i][1] \in S
Flag(v, n) == v = Bool(n = 1) \/ v = Int32(n) \/ v = Int64(n)

RangeOrAny(gt, gte, lt, lte, any) ==
  IF {gt, gte, lt, lte} # {Missing}
  THEN [k |-> "range", gt |-> gt, gte |-> gte, lt |-> lt, lte |-> lte]
  ELSE IF any THEN AnyCond ELSE None

ExtractOperatorCondition(ops) ==
  CASE HasOp(ops, {"$ne", "$nin", "$not"}) \/ Flag(Arg(ops, "$exists"), 0) -> None
    [] OTHER ->
       CASE HasOp(ops, {"$eq"}) -> [k |-> "eq", v |-> Arg(ops, "$eq")]
         [] ~HasOp(ops, {"$eq"}) /\ IsArr(Arg(ops, "$in")) ->
              [k |-> "in", vs |-> Arg(ops, "$in").a]
         [] OTHER ->
              RangeOrAny(Arg(ops, "$gt"), Arg(ops, "$gte"), Arg(ops, "$lt"), Arg(ops, "$lte"),
                         \/ Flag(Arg(ops, "$exists"), 1)
                         \/ HasOp(ops, {"$all", "$elemMatch", "$regex"}))

ExtractFieldCondition(filter, path) ==
  LET i == SelectInSeq(filter, LAMBDA cl : cl.k = "field" /\ cl.path = path)
  IN CASE i = 0 -> None
       [] OTHER -> IF filter[i].cond.k = "ops"
                   THEN ExtractOperatorCondition(filter[i].cond.ops)
                   ELSE [k |-> "eq", v |-> filter[i].cond.v]

ExtractPrimaryKeyCondition(filter) ==
  LET c == ExtractFieldCondition(filter, <<"_id">>)
  IN IF c.k \in {"eq", "in"} THEN c ELSE None

(* Every entry of the partial filter is in the filter, word for word.       *)
FilterCoversPfe(filter, pfe) ==
  \A i \in DOMAIN pfe : \E j \in DOMAIN filter :
    filter[j].k = "field" /\ filter[j].path = pfe[i].path /\ filter[j].cond = pfe[i].cond

IndexScan(idx, cond) == [k |-> "ixscan", idx |-> idx, cond |-> cond]

(* By _id when it can, else the first index with a condition to scan it for. *)
FirstPlan(pk, indexes, conds) ==
  LET i == SelectInSeq(conds, LAMBDA c : c # None)
  IN CASE pk # None -> [k |-> "idhack", cond |-> pk]
       [] OTHER -> IF i = 0 THEN CollScan ELSE IndexScan(indexes[i], conds[i])
SelectPlan(filter, indexes) ==
  FirstPlan(ExtractPrimaryKeyCondition(filter), indexes,
            [i \in DOMAIN indexes |->
              IF FilterCoversPfe(filter, indexes[i].pfe)
              THEN ExtractFieldCondition(filter, indexes[i].keys[1][1]) ELSE None])

(* hint: "none", "natural", "_id_", or the name of an index.  A hinted      *)
(* index is scanned whatever its partial filter.                            *)
HintedScan(idx, cond) == IndexScan(idx, IF cond = None THEN AnyCond ELSE cond)
SelectPlanWithHint(filter, indexes, hint) ==
  LET i == SelectInSeq(indexes, LAMBDA idx : idx.name = hint)
  IN CASE hint = "none" -> SelectPlan(filter, indexes)
       [] hint = "natural" -> CollScan
       [] hint = "_id_" -> SelectPlan(filter, <<>>)
       [] OTHER -> IF i = 0 THEN [k |-> "error"]
                   ELSE HintedScan(indexes[i], ExtractFieldCondition(filter, indexes[i].keys[1][1]))

(* ExplainResult::from_plan                                                 *)
Explain(plan, n) == [plan |-> plan.k, fullScan |-> plan.k = "collscan", docsExamined |-> n]

-----------------------------------------------------------------------------
(* The keys of a document in an index.  Only documents are followed on the  *)
(* way to a field.                                                          *)

RECURSIVE ExtractFieldValue(_, _)
ExtractFieldValue(d, path) ==
  LET v == Get(d, Head(path))
  IN CASE Len(path) = 1 -> v
       [] OTHER -> IF IsDoc(v) THEN ExtractFieldValue(v.d, Tail(path)) ELSE Missing

IndexFieldValues(d, idx) ==
  [i \in DOMAIN idx.keys |-> <<OrNull(ExtractFieldValue(d, idx.keys[i][1])), idx.keys[i][2]>>]

(* One key per element of the one array field; two array fields are refused. *)
BuildIndexKeys(d, idx, id) ==
  LET vals == [i \in DOMAIN idx.keys |-> ExtractFieldValue(d, idx.keys[i][1])]
      Arrays == {i \in DOMAIN vals : IsArr(vals[i])}
      Key(fields) == EncodeCompoundKey(Append(fields, <<id, TRUE>>))
      flat == IndexFieldValues(d, idx)
      a == CHOOSE i \in Arrays : TRUE
      Built(keys, multikey) == [err |-> FALSE, keys |-> keys, multikey |-> multikey]
  IN CASE idx.sparse /\ Missing \in Range(vals) -> Built({}, FALSE)
       [] OTHER ->
          CASE Cardinality(Arrays) > 1 -> [Built({}, TRUE) EXCEPT !.err = TRUE]
            [] Arrays = {} -> Built({Key(flat)}, FALSE)
            [] OTHER -> Built({Key([flat EXCEPT ![a] = <<e, @[2]>>]) : e \in Range(vals[a].a)}, TRUE)

DocMatchesPartialFilter(d, idx) == EvalFilter(d, idx.pfe)

UniqueRange(fields) == EncodeCompoundKey(fields) \o <<CompoundSep>>

-----------------------------------------------------------------------------
(* Execution.  The documents of a list of keys, in order, that match, up to *)
(* limit of them (0: no limit); err when the filter fails on one of them.   *)

Matches(ks, docs, vs, limit) ==
  LET Hits(n) == Cardinality({i \in 1 .. n : vs[i] = "T"})
      Full == {n \in DOMAIN ks : limit > 0 /\ Hits(n) = limit}
      stop == IF Full = {} THEN Len(ks) ELSE Min(Full)
  IN [err |-> \E i \in 1 .. stop : vs[i] = "E",
      pairs |-> LET I == SelectSeq([i \in 1 .. stop |-> i], LAMBDA i : vs[i] = "T")
                IN [j \in DOMAIN I |-> <<ks[I[j]], docs[ks[I[j]]]>>]]
FetchPrimaryPairs(keys, docs, filter, limit) ==
  LET ks == SelectSeq(keys, LAMBDA k : k \in DOMAIN docs)
  IN Matches(ks, docs, [i \in DOMAIN ks |-> EvalFilter(docs[ks[i]], filter)], limit)

PrimaryKeys(cond) ==
  IF cond.k = "eq" THEN <<EncodeKey(cond.v)>>
  ELSE SortedKeys({EncodeKey(v) : v \in Range(cond.vs)})

(* index_bounds_free: the bounds, both inclusive; <<>> for no bound.  On a  *)
(* descending field lower bounds become upper ones.                         *)
Prefix(v, asc) == UniqueRange(<<<<v, asc>>>>)
PrefixNext(v, asc) == Next1(Prefix(v, asc))
Bound(incl, excl, asc, start) ==
  CASE incl # Missing -> IF start THEN Prefix(incl, asc) ELSE PrefixNext(incl, asc)
    [] OTHER -> IF excl = Missing THEN <<>>
                ELSE IF start THEN PrefixNext(excl, asc) ELSE Prefix(excl, asc)
(* Faulty variant: the bounds of a descending field are not exchanged.              *)
IndexBoundsUnswapped(c, asc) ==
  CASE c.k = "eq" -> <<Prefix(c.v, asc), PrefixNext(c.v, asc)>>
    [] c.k = "range" -> <<Bound(c.gte, c.gt, asc, TRUE), Bound(c.lte, c.lt, asc, FALSE)>>
    [] OTHER -> <<<<>>, <<>>>>
IndexBounds(c, asc) ==
  CASE c.k = "eq" -> <<Prefix(c.v, asc), PrefixNext(c.v, asc)>>
    [] c.k = "range" -> IF asc
                        THEN <<Bound(c.gte, c.gt, TRUE, TRUE), Bound(c.lte, c.lt, TRUE, FALSE)>>
                        ELSE <<Bound(c.lte, c.lt, FALSE, TRUE), Bound(c.gte, c.gt, FALSE, FALSE)>>
    [] OTHER -> <<<<>>, <<>>>>

RangeScan(E, lo, hi, inclusive) ==
  LET S == {e \in E : /\ lo = <<>> \/ ~ByteLess(e.key, lo)
                      /\ hi = <<>> \/ ByteLess(e.key, hi) \/ (inclusive /\ e.key = hi)}
  IN SortSeq(SetToSeq(S), LAMBDA e, f : ByteLess(e.key, f.key))

(* The entries a condition scans: $in scans once per value of its list.     *)
ScanEntries(E, cond, asc) ==
  IF cond.k = "in"
  THEN FlattenSeq([i \in DOMAIN cond.vs |->
         RangeScan(E, Prefix(cond.vs[i], asc), PrefixNext(cond.vs[i], asc), FALSE)])
  ELSE LET b == IndexBounds(cond, asc) IN RangeScan(E, b[1], b[2], TRUE)

IdKeys(es) == [i \in DOMAIN es |-> EncodeKey(es[i].id)]
PlanKeys(plan, docs, entries) ==
  CASE plan.k = "idhack" -> PrimaryKeys(plan.cond)
    [] plan.k = "ixscan" ->
         IdKeys(ScanEntries(entries[plan.idx.name], plan.cond, plan.idx.keys[1][2]))
    [] OTHER -> SortedKeys(DOMAIN docs)
ExecutePlan(plan, docs, entries, filter, limit) ==
  IF plan.k = "error" THEN [err |-> TRUE, pairs |-> <<>>]
  ELSE FetchPrimaryPairs(PlanKeys(plan, docs, entries), docs, filter, limit)

-----------------------------------------------------------------------------
(* The options of find: sort, skip, limit, projection.                      *)

(* sort: sequence of <<path, ascending>>                                    *)
RECURSIVE DocLess(_, _, _)
DocLess(d, e, sort) ==
  IF sort = <<>> THEN FALSE
  ELSE LET x == OrNull(GetNestedField(d, sort[1][1]))
           y == OrNull(GetNestedField(e, sort[1][1]))
       IN IF BsonEq(x, y) THEN DocLess(d, e, Tail(sort))
          ELSE IF sort[1][2] THEN BsonLess(x, y) ELSE BsonLess(y, x)
SortDocs(ds, sort) == SortSeq(ds, LAMBDA d, e : DocLess(d, e, sort))

(* A projection is a sequence of <<path, BOOLEAN>>.  Specs holds the paths  *)
(* that count: a later path replaces what an earlier one said about the     *)
(* same subtree.                                                            *)
InsertSpec(S, path) == {p \in S : ~IsPrefix(path, p) /\ ~IsPrefix(p, path)} \cup {path}
Specs(paths) == FoldLeft(InsertSpec, {}, paths)
Below(S, k) == {Tail(p) : p \in {q \in S : Head(q) = k}}

RECURSIVE ProjectInclude(_, _), ProjectExclude(_, _)
ProjectInclude(d, S) ==
  LET Value(k, v) ==
        LET B == Below(S, k)
        IN CASE <<>> \in B -> <<<<k, v>>>>
             [] B # {} /\ IsDoc(v) -> <<<<k, Doc(ProjectInclude(v.d, B))>>>>
             [] B # {} /\ IsArr(v) ->
                  LET ds == SelectSeq(v.a, IsDoc)
                  IN <<<<k, Arr([i \in DOMAIN ds |-> Doc(ProjectInclude(ds[i].d, B))])>>>>
             [] OTHER -> <<>>
  IN FlattenSeq([i \in DOMAIN d |-> Value(d[i][1], d[i][2])])

ProjectExclude(d, S) ==
  LET Value(k, v) ==
        LET B == Below(S, k)
            Sub(w) == IF IsDoc(w) THEN Doc(ProjectExclude(w.d, B)) ELSE w
        IN CASE <<>> \in B -> <<>>
             [] B # {} /\ IsArr(v) -> <<<<k, Arr([i \in DOMAIN v.a |-> Sub(v.a[i])])>>>>
             [] OTHER -> <<<<k, IF B = {} THEN v ELSE Sub(v)>>>>
  IN FlattenSeq([i \in DOMAIN d |-> Value(d[i][1], d[i][2])])

ApplyProjection(d, proj) ==
  LET others == SelectSeq(proj, LAMBDA p : p[1] # <<"_id">>)
      included == SelectSeq(others, LAMBDA p : p[2])
      idOut == \E i \in DOMAIN proj : proj[i] = <<<<"_id">>, FALSE>>
      Paths(ps) == [i \in DOMAIN ps |-> ps[i][1]]
      id == IF idOut \/ ~HasField(d, "_id") THEN <<>> ELSE <<<<"_id", Get(d, "_id")>>>>
  IN IF included # <<>> THEN id \o ProjectInclude(Del(d, "_id"), Specs(Paths(included)))
     ELSE ProjectExclude(d, Specs(Paths(proj)))

(* opts: [sort, skip, limit, proj, hint], 0 and <<>> for an option not set. *)
UnsortedLimit(opts) == IF opts.sort # <<>> \/ opts.limit = 0 THEN 0 ELSE opts.skip + opts.limit
(* Faulty variant: the limit cuts before the skip.                                  *)
ApplyFindOptsLimitFirst(ds, opts) ==
  LET sorted == IF opts.sort = <<>> THEN ds ELSE SortDocs(ds, opts.sort)
      cut == IF opts.limit = 0 THEN sorted ELSE SubSeq(sorted, 1, Min({opts.limit, Len(sorted)}))
      rest == SubSeq(cut, opts.skip + 1, Len(cut))
  IN IF opts.proj = <<>> THEN rest
     ELSE [i \in DOMAIN rest |-> ApplyProjection(rest[i], opts.proj)]

ApplyFindOpts(ds, opts) ==
  LET sorted == IF opts.sort = <<>> THEN ds ELSE SortDocs(ds, opts.sort)
      rest == SubSeq(sorted, opts.skip + 1, Len(sorted))
      cut == IF opts.limit = 0 THEN rest ELSE SubSeq(rest, 1, Min({opts.limit, Len(rest)}))
  IN IF opts.proj = <<>> THEN cut
     ELSE [i \in DOMAIN cut |-> ApplyProjection(cut[i], opts.proj)]

Docs(pairs) == [i \in DOMAIN pairs |-> pairs[i][2]]

Found(plan, r, opts) ==
  [err |-> r.err, docs |-> ApplyFindOpts(Docs(r.pairs), opts), explain |-> Explain(plan, Len(r.pairs))]
FindWith(plan, docs, entries, filter, opts) ==
  Found(plan, ExecutePlan(plan, docs, entries, filter, UnsortedLimit(opts)), opts)
Find(docs, entries, indexes, filter, opts) ==
  FindWith(SelectPlanWithHint(filter, indexes, opts.hint), docs, entries, filter, opts)

(* find_first: the plan's first match.                                      *)
FindFirst(docs, entries, indexes, filter) ==
  ExecutePlan(SelectPlan(filter, indexes), docs, entries, filter, 1)

(* count and distinct never use a secondary index.                          *)
PrimaryMatches(docs, filter) == ExecutePlan(SelectPlan(filter, <<>>), docs, <<>>, filter, 0)
CountOf(r) == IF r.err THEN -1 ELSE Len(r.pairs)
Count(docs, filter) == CountOf(PrimaryMatches(docs, filter))

RECURSIVE CollectPathValues(_, _)
CollectPathValues(v, path) ==
  CASE path = <<>> -> IF IsArr(v) THEN v.a ELSE <<v>>
    [] path # <<>> /\ IsDoc(v) -> IF HasField(v.d, Head(path))
                                  THEN CollectPathValues(Get(v.d, Head(path)), Tail(path))
                                  ELSE <<>>
    [] path # <<>> /\ IsArr(v) ->
         IF SegIndex(Head(path)) # 0
         THEN IF SegIndex(Head(path)) \in DOMAIN v.a
              THEN CollectPathValues(v.a[SegIndex(Head(path))], Tail(path)) ELSE <<>>
         ELSE LET ds == SelectSeq(v.a, IsDoc)
              IN FlattenSeq([i \in DOMAIN ds |-> CollectPathValues(ds[i], path)])
    [] OTHER -> <<>>

DistinctValues(ds, path) ==
  LET all == FlattenSeq([i \in DOMAIN ds |-> CollectPathValues(Doc(ds[i]), path)])
      Fresh(out, v) == IF \E i \in DOMAIN out : BsonEq(out[i], v) THEN out ELSE Append(out, v)
  IN FoldLeft(Fresh, <<>>, all)
Distinct(docs, path, filter) == DistinctValues(Docs(PrimaryMatches(docs, filter).pairs), path)
=============================================================================
