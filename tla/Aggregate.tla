------------------------------ MODULE Aggregate -----------------------------
(***************************************************************************)
(* The aggregation pipeline (query/aggregate.rs, aggregate of doc_ops.rs). *)
(* A stage is a record whose field s is its name; the result of a stage,   *)
(* and of a pipeline, is [err, docs].  A group's accumulator is            *)
(* [out, op, arg, n].  What f64::sqrt makes of a variance is F64Fn's.       *)
(***************************************************************************)
EXTENDS Planner

Result(ds) == [err |-> FALSE, docs |-> ds]
Failure == [err |-> TRUE, docs |-> <<>>]

-----------------------------------------------------------------------------
(* Parsing: the stages the code accepts, and the names that stand for other *)
(* stages.                                                                  *)

AccOps == {"$sum", "$avg", "$min", "$max", "$first", "$last", "$push", "$addToSet",
           "$count", "$mergeObjects", "$stdDevPop", "$stdDevSamp",
           "$firstN", "$lastN", "$minN", "$maxN"}
LimitedOps == {"$firstN", "$lastN", "$minN", "$maxN"}
NOk(acc) == IsNum(acc.n) /\ Finite(acc.n) /\ Whole(acc.n.n) /\ acc.n.n > 0
AccOk(acc) == acc.op \in AccOps /\ (acc.op \in LimitedOps => NOk(acc))

(* A path names a field when it is not empty and does not start with $.     *)
Plain(path) == path # <<>> /\ Head(path) # "$"

SortOk(st) == st.spec # <<>>
IntegralArg(v) == IsNum(v) /\ Finite(v) /\ Whole(v.n)
CountOk(st) == Plain(st.name) /\ Len(st.name) = 1
GroupOk(st) == \A i \in DOMAIN st.accs : AccOk(st.accs[i])
AddFieldsOk(st) == st.fields # <<>>
UnsetOk(st) == st.paths # <<>> /\ \A i \in DOMAIN st.paths : Plain(st.paths[i])
UnwindOk(st) == st.path # <<>> /\ \A i \in DOMAIN st.index : Plain(st.index[i])
LookupOk(st) == st.from # "" /\ Plain(st.local) /\ Plain(st.foreign) /\ Plain(st.as)

StageOk(st) ==
  CASE st.s = "$sort" -> SortOk(st)
    [] st.s = "$skip" -> IntegralArg(st.n) /\ st.n.n >= 0
    [] st.s = "$limit" -> IntegralArg(st.n) /\ st.n.n > 0
    [] st.s = "$count" -> CountOk(st)
    [] st.s = "$group" -> GroupOk(st)
    [] st.s \in {"$addFields", "$set"} -> AddFieldsOk(st)
    [] st.s = "$unset" -> UnsetOk(st)
    [] st.s = "$unwind" -> UnwindOk(st)
    [] st.s = "$lookup" -> LookupOk(st)
    [] OTHER -> st.s \in {"$match", "$project", "$sortByCount", "$replaceRoot", "$replaceWith"}

(* A projected field is [flag |-> TRUE, on] or [flag |-> FALSE, e].         *)
(* run_sort_by_count: a group per value with its count, sorted by it.       *)
RunSortByCount(e) ==
  <<[s |-> "$group", id |-> e,
     accs |-> <<[out |-> "count", op |-> "$count", arg |-> Lit(Int32(1)), n |-> Null]>>],
    [s |-> "$sort", spec |-> <<<<<<"count">>, FALSE>>>>]>>
ParseStage(st) ==
  CASE st.s = "$set" -> <<[s |-> "$addFields", fields |-> st.fields]>>
    [] st.s = "$unset" ->
         <<[s |-> "$project",
            spec |-> [i \in DOMAIN st.paths |-> <<st.paths[i], [flag |-> TRUE, on |-> FALSE]>>]]>>
    [] st.s = "$replaceWith" -> <<[s |-> "$replaceRoot", e |-> st.e]>>
    [] st.s = "$sortByCount" -> RunSortByCount(st.e)
    [] OTHER -> <<st>>

-----------------------------------------------------------------------------
RECURSIVE SetNestedOverwrite(_, _, _), RemoveNestedPath(_, _)
SetNestedOverwrite(d, path, v) ==
  LET child == Get(d, Head(path))
  IN IF Len(path) = 1 THEN Put(d, Head(path), v)
     ELSE Put(d, Head(path), Doc(SetNestedOverwrite(IF IsDoc(child) THEN child.d ELSE <<>>,
                                                    Tail(path), v)))
RemoveNestedPath(d, path) ==
  LET child == Get(d, Head(path))
  IN CASE Len(path) = 1 -> Del(d, Head(path))
       [] OTHER -> IF IsDoc(child)
                   THEN Put(d, Head(path), Doc(RemoveNestedPath(child.d, Tail(path)))) ELSE d

(* The computed fields of a document; a missing result sets nothing.        *)
Evaluate(fields, d, now) == [i \in DOMAIN fields |-> EvalExpr(fields[i][2], Context(d, now))]
SetFields(d, fields, vs) ==
  FoldLeft(LAMBDA x, i : IF vs[i].t = "missing" THEN x
                         ELSE SetNestedOverwrite(x, fields[i][1], vs[i]),
           d, [i \in DOMAIN fields |-> i])

-----------------------------------------------------------------------------
(* Accumulators: vs are the argument's values over the documents of the     *)
(* group, in order.                                                         *)

(* An i64 sum; a double, or an overflow, makes it an f64.                   *)
NumericAdd(acc, v) ==
  LET sum == acc.n + v.n
      float == acc.t = "double" \/ v.t = "double" \/ ~InI64(sum \div 2)
  IN IF float THEN Double(sum) ELSE Int64(sum \div 2)
SumBson(nums) == LET s == FoldLeft(NumericAdd, Int64(0), nums)
                 IN IF s.t = "long" THEN NumToBson(AsInt(s)) ELSE s

FoldExtreme(vs, less) ==
  LET Step(cur, v) == CASE IsNull(v) -> cur
                        [] OTHER -> IF cur.t = "missing" THEN v
                                    ELSE IF (IF less THEN BsonLess(v, cur) ELSE BsonLess(cur, v))
                                    THEN v ELSE cur
  IN OrNull(FoldLeft(Step, Missing, vs))

FinishMinMaxN(vs, n, max) ==
  LET sorted == SortSeq(SelectSeq(vs, LAMBDA v : v.t # "null"), BsonLess)
      ranked == IF max THEN Reverse(sorted) ELSE sorted
  IN Arr(SubSeq(ranked, 1, Min({n, Len(ranked)})))

FinishStdDev(nums, sample) ==
  IF Len(nums) < (IF sample THEN 2 ELSE 1) THEN Null
  ELSE Double(F64Fn(IF sample THEN "stdDevSamp" ELSE "stdDevPop", nums))

Accumulated(acc, vs) ==
  LET op == acc.op
      n == AsI64(acc.n.n)
      present == SelectSeq(vs, LAMBDA v : v.t # "missing")
      nums == SelectSeq(vs, IsNum)
      objs == SelectSeq(vs, LAMBDA v : ~IsNull(v))
      AddNew(out, v) == IF \E i \in DOMAIN out : BsonEq(out[i], v) THEN out ELSE Append(out, v)
      Merge(d, v) == FoldLeft(LAMBDA x, f : Put(x, f[1], f[2]), d, v.d)
      size == Min({n, Len(present)})
  IN CASE op \in {"$sum", "$count"} -> SumBson(nums)
       [] op = "$avg" -> IF nums = <<>> THEN Null
                         ELSE Double(RoundHalf(SumOf([i \in DOMAIN nums |-> nums[i].n]), Len(nums)))
       [] op \in {"$min", "$max"} -> FoldExtreme(vs, op = "$min")
       [] op = "$first" -> IF present = <<>> THEN Null ELSE present[1]
       [] op = "$last" -> OrNull(Last(vs))
       [] op = "$push" -> Arr(present)
       [] op = "$addToSet" -> Arr(FoldLeft(AddNew, <<>>, present))
       [] op = "$mergeObjects" -> IF \A i \in DOMAIN objs : IsDoc(objs[i])
                                  THEN Doc(FoldLeft(Merge, <<>>, objs)) ELSE Err
       [] op \in {"$stdDevPop", "$stdDevSamp"} -> FinishStdDev(nums, op = "$stdDevSamp")
       [] op = "$firstN" -> Arr(SubSeq(present, 1, size))
       [] op = "$lastN" -> Arr(SubSeq(present, Len(present) - size + 1, Len(present)))
       [] OTHER -> FinishMinMaxN(present, n, op = "$maxN")

-----------------------------------------------------------------------------
(* Stages.                                                                  *)

KeepMatches(ds, vs) ==
  IF "E" \in Range(vs) THEN Failure
  ELSE Result(FlattenSeq([i \in DOMAIN ds |-> IF vs[i] = "T" THEN <<ds[i]>> ELSE <<>>]))
RunMatch(filter, ds) == KeepMatches(ds, [i \in DOMAIN ds |-> EvalFilter(ds[i], filter)])

RunSkip(n, ds) == SubSeq(ds, n + 1, Len(ds))
RunLimit(n, ds) == SubSeq(ds, 1, Min({n, Len(ds)}))
RunCount(name, ds) == <<<<<<name, NumToBson(Len(ds))>>>>>>

(* One document per key, in the order the keys first appear: ks and vals are *)
(* the keys, and the accumulators' arguments, of the documents.             *)
GroupDoc(key, accs, fins) ==
  FoldLeft(LAMBDA d, j : Put(d, accs[j].out, fins[j]), <<<<"_id", key>>>>, [j \in DOMAIN accs |-> j])
GroupDocs(heads, ks, accs, fins) ==
  IF \E i \in DOMAIN heads : HasErr(fins[i]) THEN Failure
  ELSE Result([i \in DOMAIN heads |-> GroupDoc(ks[heads[i]], accs, fins[i])])
Grouped(ks, accs, vals) ==
  LET Members(i) == SelectSeq([k \in DOMAIN ks |-> k], LAMBDA k : BsonEq(ks[k], ks[i]))
      heads == SelectSeq([i \in DOMAIN ks |-> i], LAMBDA i : Members(i)[1] = i)
      Of(vs, m) == [k \in DOMAIN m |-> vs[m[k]]]
  IN IF HasErr(ks) \/ \E j \in DOMAIN accs : HasErr(vals[j]) THEN Failure
     ELSE GroupDocs(heads, ks, accs,
                    [i \in DOMAIN heads |->
                      [j \in DOMAIN accs |-> Accumulated(accs[j], Of(vals[j], Members(heads[i])))]])
RunGroup(id, accs, ds, now) ==
  Grouped([i \in DOMAIN ds |-> OrNull(EvalExpr(id, Context(ds[i], now)))], accs,
          [j \in DOMAIN accs |-> [i \in DOMAIN ds |-> EvalExpr(accs[j].arg, Context(ds[i], now))]])

(* Fields that are computed make the projection an inclusion; without any   *)
(* included field only _id is kept.                                         *)
Kept(d, proj, idOnly) ==
  CASE ~idOnly -> ApplyProjection(d, proj)
    [] OTHER -> IF <<<<"_id">>, FALSE>> \in Range(proj) \/ ~HasField(d, "_id") THEN <<>>
                ELSE <<<<"_id", Get(d, "_id")>>>>
SetAll(bases, fields, vs) ==
  IF \E i \in DOMAIN bases : HasErr(vs[i]) THEN Failure
  ELSE Result([i \in DOMAIN bases |-> SetFields(bases[i], fields, vs[i])])
RunAddFields(fields, ds, now) ==
  SetAll(ds, fields, [i \in DOMAIN ds |-> Evaluate(fields, ds[i], now)])
ProjectAndCompute(proj, computed, ds, now) ==
  LET idOnly == computed # <<>> /\ \A i \in DOMAIN proj : proj[i][1] = <<"_id">>
  IN SetAll([i \in DOMAIN ds |-> Kept(ds[i], proj, idOnly)], computed,
            [i \in DOMAIN ds |-> Evaluate(computed, ds[i], now)])
RunProject(spec, ds, now) ==
  LET flags == SelectSeq(spec, LAMBDA f : f[2].flag)
      comp == SelectSeq(spec, LAMBDA f : ~f[2].flag)
  IN ProjectAndCompute([i \in DOMAIN flags |-> <<flags[i][1], flags[i][2].on>>],
                       [i \in DOMAIN comp |-> <<comp[i][1], comp[i][2].e>>], ds, now)

Roots(vs) == IF \A i \in DOMAIN vs : IsDoc(vs[i]) THEN Result([i \in DOMAIN vs |-> vs[i].d])
             ELSE Failure
RunReplaceRoot(e, ds, now) == Roots([i \in DOMAIN ds |-> EvalExpr(e, Context(ds[i], now))])

(* st: [path, index (<<>>, or <<a path>>), preserve]                              *)
UnwindOne(st, d) ==
  LET v == GetNestedField(d, st.path)
      Indexed(x, i) == IF st.index = <<>> THEN x ELSE SetNestedOverwrite(x, st.index[1], i)
  IN CASE IsArr(v) /\ v.a # <<>> ->
            [i \in DOMAIN v.a |-> Indexed(SetNestedOverwrite(d, st.path, v.a[i]), Int64(i - 1))]
       [] IsArr(v) /\ v.a = <<>> ->
            IF st.preserve THEN <<Indexed(RemoveNestedPath(d, st.path), Null)>> ELSE <<>>
       [] OTHER -> IF IsNull(v) /\ ~st.preserve THEN <<>> ELSE <<Indexed(d, Null)>>
RunUnwind(st, ds) == FlattenSeq([i \in DOMAIN ds |-> UnwindOne(st, ds[i])])

(* st: [from, local, foreign, as]; foreign: the documents of each           *)
(* collection, read from the same snapshot.                                 *)
MatchKeys(d, path) ==
  LET v == OrNull(GetNestedField(d, path))
  IN IF IsArr(v) /\ v.a # <<>> THEN {EncodeKey(e) : e \in Range(v.a)} ELSE {EncodeKey(v)}
RunLookup(st, ds, foreign) ==
  LET fds == IF st.from \in DOMAIN foreign THEN foreign[st.from] ELSE <<>>
      Matched(d) == SelectSeq(fds, LAMBDA f : MatchKeys(d, st.local)
                                                \cap MatchKeys(f, st.foreign) # {})
      Joined(d) == LET m == Matched(d) IN Arr([i \in DOMAIN m |-> Doc(m[i])])
  IN [i \in DOMAIN ds |-> SetNestedOverwrite(ds[i], st.as, Joined(ds[i]))]

RunStage(st, ds, now, foreign) ==
  CASE st.s = "$match" -> RunMatch(st.filter, ds)
    [] st.s = "$sort" -> Result(SortDocs(ds, st.spec))
    [] st.s = "$skip" -> Result(RunSkip(AsI64(st.n.n), ds))
    [] st.s = "$limit" -> Result(RunLimit(AsI64(st.n.n), ds))
    [] st.s = "$count" -> Result(RunCount(Head(st.name), ds))
    [] st.s = "$project" -> RunProject(st.spec, ds, now)
    [] st.s = "$group" -> RunGroup(st.id, st.accs, ds, now)
    [] st.s = "$addFields" -> RunAddFields(st.fields, ds, now)
    [] st.s = "$replaceRoot" -> RunReplaceRoot(st.e, ds, now)
    [] st.s = "$unwind" -> Result(RunUnwind(st, ds))
    [] OTHER -> Result(RunLookup(st, ds, foreign))

(* Pipeline::execute: the first stage is left out when it is the $match the *)
(* documents were already read with.                                        *)
RunStages(stages, ds, now, foreign) ==
  FoldLeft(LAMBDA r, st : IF r.err THEN r ELSE RunStage(st, r.docs, now, foreign), Result(ds), stages)
Execute(pipeline, ds, skipFirstMatch, now, foreign) ==
  LET from == IF skipFirstMatch /\ pipeline # <<>> /\ pipeline[1].s = "$match" THEN 2 ELSE 1
  IN IF \E i \in DOMAIN pipeline : ~StageOk(pipeline[i]) THEN Failure
     ELSE RunStages(FlattenSeq([i \in 1 .. Len(pipeline) - from + 1 |->
                                 ParseStage(pipeline[i + from - 1])]), ds, now, foreign)

LeadingMatch(pipeline) ==
  IF pipeline # <<>> /\ pipeline[1].s = "$match" THEN pipeline[1].filter ELSE <<>>

ExecuteOn(r, pipeline, now, foreign) ==
  IF r.err THEN Failure ELSE Execute(pipeline, Docs(r.pairs), TRUE, now, foreign)
AggregateDocs(docs, entries, indexes, pipeline, now, foreign) ==
  LET filter == LeadingMatch(pipeline)
  IN ExecuteOn(ExecutePlan(SelectPlan(filter, indexes), docs, entries, filter, 0),
               pipeline, now, foreign)

(* The pipeline of an update runs on one document and must leave one.       *)
OneDocument(r) == IF Len(r.docs) # 1 THEN Failure ELSE r
RunSingleDocPipeline(d, pipeline, now) == OneDocument(Execute(pipeline, <<d>>, FALSE, now, <<>>))
=============================================================================
