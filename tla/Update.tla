------------------------------- MODULE Update -------------------------------
(***************************************************************************)
(* The update language (update/mod.rs, update/pipeline.rs).  An update is  *)
(* a sequence of <<operator, path, argument>>, the operators in order and  *)
(* the paths of each in order; the result of applying it is [err, d, used]:*)
(* the document's fields and the array filters that were needed.            *)
(*                                                                         *)
(* A segment of a path is a field, "$", "$[]", "$[x]" with the identifier  *)
(* of an array filter, or "$[?]" for an identifier that is not valid.       *)
(***************************************************************************)
EXTENDS Aggregate, Bitwise

Done(d) == [err |-> FALSE, d |-> d, used |-> {}]
Fail(d) == [err |-> TRUE, d |-> d, used |-> {}]

-----------------------------------------------------------------------------
(* What an operator makes of the value at its path: Missing removes it.     *)

(* Arithmetic is done in f64; an integer field stays one when the result is *)
(* whole and in range.  i64::MAX as f64 is one more than i64::MAX.          *)
NumericResult(cur, h) ==
  CASE cur.t = "int" -> IF Whole(h) /\ InI32(h \div 2) THEN Int32(h \div 2) ELSE Double(h)
    [] cur.t = "long" -> IF Whole(h) /\ (InI64(h \div 2) \/ h \div 2 = I64Max + 1)
                         THEN Int64(AsI64(h)) ELSE Double(h)
    [] OTHER -> Double(h)
Arithmetic(op, cur, arg) ==
  LET x == IF IsNum(cur) THEN cur.n ELSE 0
  IN NumericResult(cur, IF op = "$inc" THEN x + arg.n ELSE RoundHalf(x * arg.n, 2))

MinMax(cur, v, less) ==
  CASE cur.t = "missing" -> v
    [] OTHER -> IF (IF less THEN BsonLess(v, cur) ELSE BsonLess(cur, v)) THEN v ELSE cur

(* sort: Missing, a number, or a sequence of <<path, ascending>>            *)
SortBsonArray(arr, sort) ==
  LET Fields(v) == IF IsDoc(v) THEN v.d ELSE <<>>
  IN CASE sort.k = "none" -> arr
       [] sort.k = "dir" -> SortSeq(arr, LAMBDA v, w : IF sort.asc THEN BsonLess(v, w)
                                                       ELSE BsonLess(w, v))
       [] OTHER -> SortSeq(arr, LAMBDA v, w : DocLess(Fields(v), Fields(w), sort.spec))
SliceBsonArray(arr, n) ==
  IF n >= 0 THEN SubSeq(arr, 1, Min({n, Len(arr)}))
  ELSE SubSeq(arr, Max({Len(arr) + n, 0}) + 1, Len(arr))

(* arg: [each, position, sort, slice]; NaN stands for a modifier not given. *)
PushModifiers(arr, m) ==
  LET n == Len(arr)
      at == CASE m.position = NaN -> n
              [] m.position < 0 -> Max({n + m.position, 0})
              [] OTHER -> Min({m.position, n})
      all == SubSeq(arr, 1, at) \o m.each \o SubSeq(arr, at + 1, n)
      sorted == SortBsonArray(all, m.sort)
  IN IF m.slice = NaN THEN sorted ELSE SliceBsonArray(sorted, m.slice)

(* A field that is missing starts as the empty array; another type fails.   *)
OnArray(cur, new) == CASE IsArr(cur) \/ cur.t = "missing" -> Arr(new)
                       [] OTHER -> Err

(* cond: [filter |-> TRUE, c |-> a filter] or [filter |-> FALSE, c |-> v];  *)
(* equality is that of the bson crate, by type and value.                   *)
MatchesPull(e, cond) ==
  IF cond.filter THEN IsDoc(e) /\ EvalFilter(e.d, cond.c) = "T" ELSE e = cond.c

(* ops: sequence of <<"and" | "or" | "xor", integer>>                       *)
ApplyBitOps(cur, ops) ==
  LET bits == 2 * I64Max + 2
      Step(acc, o) == LET k == AsInt(o[2]) % bits
                      IN CASE o[1] = "and" -> acc & k
                           [] o[1] = "or" -> acc | k
                           [] OTHER -> acc ^^ k
      start == IF cur.t = "missing" THEN 0 ELSE AsInt(cur) % bits
      k == Wrap64(FoldLeft(Step, start, ops))
      wide == cur.t = "long" \/ \E i \in DOMAIN ops : ops[i][2].t = "long"
  IN IF cur.t # "missing" /\ ~IsInt(cur) THEN Err
     ELSE IF wide THEN Int64(k) ELSE Int32(Wrap32(k))

Push(cur, arg) ==
  OnArray(cur, IF arg.mods THEN PushModifiers(cur.a, arg.m) ELSE Append(cur.a, arg.m))
AddToSet(cur, elems) ==
  OnArray(cur, FoldLeft(LAMBDA a, e : IF Contains(a, e) THEN a ELSE Append(a, e), cur.a, elems))

(* These leave what is no array alone.                                      *)
Pull(cur, cond) == IF ~IsArr(cur) THEN cur ELSE Arr(SelectSeq(cur.a, LAMBDA e : ~MatchesPull(e, cond)))
PullAll(cur, vs) == IF ~IsArr(cur) THEN cur ELSE Arr(SelectSeq(cur.a, LAMBDA e : ~Contains(vs, e)))
Pop(cur, last) == IF ~IsArr(cur) \/ cur.a = <<>> THEN cur
                  ELSE Arr(IF last THEN Front(cur.a) ELSE Tail(cur.a))

LeafOp(op, arg, cur) ==
  CASE op \in {"$set", "$setOnInsert"} -> arg
    [] op = "$unset" -> Missing
    [] op \in {"$inc", "$mul"} -> Arithmetic(op, cur, arg)
    [] op \in {"$min", "$max"} -> MinMax(cur, arg, op = "$min")
    [] op = "$push" -> Push(cur, arg)
    [] op = "$addToSet" -> AddToSet(cur, arg)
    [] op = "$bit" -> ApplyBitOps(cur, arg)
    [] op = "$pull" -> Pull(cur, arg)
    [] op = "$pullAll" -> PullAll(cur, arg.a)
    [] OTHER -> Pop(cur, arg.n >= 2)

BitOpsOk(ops) == ops # <<>> /\ \A i \in DOMAIN ops : ops[i][1] \in {"and", "or", "xor"}
                                                   /\ IsInt(ops[i][2])
ArgOk(op, arg) ==
  CASE op \in {"$inc", "$mul", "$pop"} -> IsNum(arg)
    [] op = "$pullAll" -> IsArr(arg)
    [] op = "$bit" -> BitOpsOk(arg)
    [] OTHER -> op \in {"$set", "$unset", "$min", "$max", "$push", "$pull", "$addToSet",
                        "$setOnInsert", "$rename", "$currentDate"}

-----------------------------------------------------------------------------
(* Following a path.  ctx: [filter, arrayFilters].                          *)

SegKind(s) == CASE s = "$" -> "positional"
                [] s = "$[]" -> "all"
                [] s \in {"$[x]", "$[y]"} -> "filtered"
                [] s = "$[?]" -> "unsupported"
                [] OTHER -> "field"
SegIdent(s) == IF s = "$[x]" THEN "x" ELSE "y"
PathHasPositional(path) == \E i \in DOMAIN path : SegKind(path[i]) # "field"

(* The one identifier of an array filter is the first segment of its keys.  *)
ClauseIdent(cl) == IF cl.k = "field" THEN Head(cl.path) ELSE cl.k
ArrayFiltersOk(afs) ==
  /\ \A i \in DOMAIN afs : afs[i] # <<>> /\ \A j \in DOMAIN afs[i] :
                             ClauseIdent(afs[i][j]) = ClauseIdent(afs[i][1])
  /\ \A i, j \in DOMAIN afs : ClauseIdent(afs[i][1]) = ClauseIdent(afs[j][1]) => i = j
FilterFor(ctx, ident) ==
  SelectInSeq(ctx.arrayFilters, LAMBDA f : ClauseIdent(f[1]) = ident)

(* resolve_positional_index: the first element that meets what the query's  *)
(* filter says of the array at this path; 0 when it says nothing.           *)
RestrictFilter(filter, path) ==
  SelectSeq(filter, LAMBDA cl : cl.k = "field" /\ IsPrefix(path, cl.path))
PositionalValue(e, sub) == IF sub = <<>> THEN Arr(<<e>>) ELSE GetNestedField(e.d, sub)
PositionalVerdict(e, sub, cond) ==
  IF sub # <<>> /\ ~IsDoc(e) THEN "F" ELSE EvalFieldCondition(PositionalValue(e, sub), cond)
PositionalMatches(e, path, restricted) ==
  AllOf([i \in DOMAIN restricted |->
          PositionalVerdict(e, SubSeq(restricted[i].path, Len(path) + 1, Len(restricted[i].path)),
                            restricted[i].cond)])
FirstMatch(vs) ==
  LET i == SelectInSeq(vs, LAMBDA v : v # "F")
  IN IF i = 0 THEN 0 ELSE IF vs[i] = "E" THEN 0 ELSE i
PositionalIndex(arr, path, ctx) ==
  LET restricted == RestrictFilter(ctx.filter, path)
  IN IF restricted = <<>> THEN 0
     ELSE FirstMatch([i \in DOMAIN arr |-> PositionalMatches(arr[i], path, restricted)])

PutLeaf(d, f, v) ==
  CASE v.t = "err" -> Fail(d)
    [] v.t = "missing" -> Done(Del(d, f))
    [] OTHER -> Done(Put(d, f, v))
ApplyLeaf(d, f, op, arg) == PutLeaf(d, f, LeafOp(op, arg, Get(d, f)))

(* A field on the way that is missing or no document becomes a document.    *)
PutInner(d, f, inner) ==
  IF inner.err /\ ~IsDoc(Get(d, f)) /\ HasField(d, f) THEN Fail(d)
  ELSE [inner EXCEPT !.d = Put(d, f, Doc(inner.d))]

(* replace_each_element: the results of visiting an array's elements.       *)
PutElements(d, f, rs, used) ==
  [err |-> \E i \in DOMAIN rs : rs[i].err,
   d |-> Put(d, f, Arr(FlattenSeq([i \in DOMAIN rs |-> rs[i].d]))),
   used |-> used \cup UNION {rs[i].used : i \in DOMAIN rs}]
KeepElement(v) == CASE v.t = "err" -> Fail(<<>>)
                    [] OTHER -> Done(IF v.t = "missing" THEN <<>> ELSE <<v>>)
InElement(r) == [r EXCEPT !.d = <<Doc(@)>>]

(* apply_all_positional, apply_filtered_positional and apply_positional:    *)
(* the elements a segment picks, "E" when it cannot say.                    *)
OnlyAt(index, n) == [i \in 1 .. n |-> Verdict(i = index)]
Picks(arr, seg, at, ctx) ==
  CASE SegKind(seg) = "all" -> [i \in DOMAIN arr |-> "T"]
    [] SegKind(seg) = "filtered" ->
         [i \in DOMAIN arr |-> EvalFilter(<<<<SegIdent(seg), arr[i]>>>>,
                                          ctx.arrayFilters[FilterFor(ctx, SegIdent(seg))])]
    [] OTHER -> OnlyAt(PositionalIndex(arr, at, ctx), Len(arr))
UsedFilters(seg, ctx) ==
  IF SegKind(seg) = "filtered" THEN {FilterFor(ctx, SegIdent(seg))} ELSE {}
SegFails(v, seg, ctx) ==
  \/ SegKind(seg) = "unsupported" \/ ~IsArr(v)
  \/ SegKind(seg) = "filtered" /\ FilterFor(ctx, SegIdent(seg)) = 0
PicksFail(picks, seg) ==
  "E" \in Range(picks) \/ (SegKind(seg) = "positional" /\ "T" \notin Range(picks))

(* The operator on the picked elements, or on a path within those that are  *)
(* documents.                                                               *)
RECURSIVE ModifyInner(_, _, _, _, _, _)
VisitElements(d, f, picks, prefix, path, ctx, op, arg) ==
  LET arr == Get(d, f).a
      Visit(i) ==
        CASE picks[i] = "F" -> Done(<<arr[i]>>)
          [] picks[i] # "F" /\ Len(path) = 1 -> KeepElement(LeafOp(op, arg, arr[i]))
          [] OTHER -> IF ~IsDoc(arr[i]) THEN Done(<<arr[i]>>)
                      ELSE InElement(ModifyInner(arr[i].d, prefix, Tail(path), ctx, op, arg))
  IN IF PicksFail(picks, Head(path)) THEN Fail(d)
     ELSE PutElements(d, f, [i \in DOMAIN arr |-> Visit(i)], UsedFilters(Head(path), ctx))

DescendField(d, at, f, path, ctx, op, arg) ==
  LET v == Get(d, f)
  IN CASE SegKind(Head(path)) = "field" ->
            PutInner(d, f, ModifyInner(IF IsDoc(v) THEN v.d ELSE <<>>, at, path, ctx, op, arg))
       [] OTHER -> IF SegFails(v, Head(path), ctx) THEN Fail(d)
                   ELSE VisitElements(d, f, Picks(v.a, Head(path), at, ctx),
                                      Append(at, Head(path)), path, ctx, op, arg)

ModifyInner(d, prefix, path, ctx, op, arg) ==
  LET f == Head(path)
  IN CASE SegKind(f) # "field" -> Fail(d)
       [] SegKind(f) = "field" /\ Len(path) = 1 ->
            IF prefix = <<>> /\ f = "_id" THEN Done(d)     \* _id is left alone
            ELSE ApplyLeaf(d, f, op, arg)
       [] OTHER -> DescendField(d, Append(prefix, f), f, Tail(path), ctx, op, arg)

ModifyNested(d, path, ctx, op, arg) ==
  IF Cardinality({i \in DOMAIN path : SegKind(path[i]) = "positional"}) > 1 THEN Fail(d)
  ELSE ModifyInner(d, <<>>, path, ctx, op, arg)

-----------------------------------------------------------------------------
(* The changes an operator makes, each <<operator, path, argument>>: $rename *)
(* (arg is the new path) removes and sets, $currentDate (arg says whether a *)
(* timestamp is asked for) sets.                                            *)
Now(timestamp, now) == IF timestamp THEN [Base("timestamp") EXCEPT !.n = now] ELSE Date(now)
ApplyRename(old, new, v) ==
  IF v.t = "missing" THEN <<>> ELSE <<<<"$unset", old, Null>>, <<"$set", new, v>>>>
Changes(d, u, isInsert, now) ==
  CASE u[1] = "$rename" -> ApplyRename(u[2], u[3], GetNestedField(d, u[2]))
    [] u[1] = "$currentDate" -> <<<<"$set", u[2], Now(u[3], now)>>>>
    [] u[1] = "$setOnInsert" /\ ~isInsert -> <<>>
    [] OTHER -> <<u>>
Refused(u) == \/ ~ArgOk(u[1], u[3])
              \/ u[1] = "$rename" /\ (PathHasPositional(u[2]) \/ PathHasPositional(u[3]))

AlsoUsed(r, used) == [r EXCEPT !.used = @ \cup used]
ApplyOperator(d, u, ctx, isInsert, now) ==
  IF Refused(u) THEN Fail(d)
  ELSE FoldLeft(LAMBDA r, c : IF r.err THEN r
                              ELSE AlsoUsed(ModifyNested(r.d, c[2], ctx, c[1], c[3]), r.used),
                Done(d), Changes(d, u, isInsert, now))

(* apply_update: every array filter must have been needed.                  *)
UpdateContext(filter, arrayFilters) == [filter |-> filter, arrayFilters |-> arrayFilters]
AllUsed(d, r, arrayFilters) ==
  IF ~ArrayFiltersOk(arrayFilters) \/ r.err \/ r.used # DOMAIN arrayFilters THEN Fail(d) ELSE r
ApplyOperators(d, update, ctx, isInsert, now) ==
  FoldLeft(LAMBDA r, u : IF r.err THEN r
                         ELSE AlsoUsed(ApplyOperator(r.d, u, ctx, isInsert, now), r.used),
           Done(d), update)
ApplyUpdate(d, update, filter, arrayFilters, isInsert, now) ==
  AllUsed(d, ApplyOperators(d, update, UpdateContext(filter, arrayFilters), isInsert, now),
          arrayFilters)

(* upsert_base_from_filter: the equalities of the filter; a path that       *)
(* cannot be set is passed over.                                            *)
SetEquality(d, cl) ==
  CASE cl.k # "field" -> d
    [] cl.k = "field" /\ cl.cond.k = "ops" -> d
    [] OTHER -> IF cl.path = <<"_id">> THEN Put(d, "_id", cl.cond.v)
                ELSE ModifyNested(d, cl.path, UpdateContext(<<>>, <<>>), "$set", cl.cond.v).d
UpsertBase(filter) == FoldLeft(SetEquality, <<>>, filter)

(* apply_update_pipeline: the _id may not change, and is put back first     *)
(* when a stage dropped it.                                                 *)
AllowedStages == {"$addFields", "$set", "$project", "$unset", "$replaceRoot", "$replaceWith"}
KeepId(d, new) ==
  LET old == Get(d, "_id")
  IN CASE old.t = "missing" -> Done(new)
       [] OTHER -> IF ~HasField(new, "_id") THEN Done(<<<<"_id", old>>>> \o new)
                   ELSE IF BsonEq(old, Get(new, "_id")) THEN Done(new) ELSE Fail(d)
PipelineResult(d, r) == IF r.err THEN Fail(d) ELSE KeepId(d, r.docs[1])
ApplyUpdatePipeline(d, pipeline, now) ==
  IF \E i \in DOMAIN pipeline : pipeline[i].s \notin AllowedStages THEN Fail(d)
  ELSE PipelineResult(d, RunSingleDocPipeline(d, pipeline, now))
=============================================================================
