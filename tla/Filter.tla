------------------------------- MODULE Filter -------------------------------
(***************************************************************************)
(* The filter language (query/filter.rs, query/filter/operators.rs): which *)
(* documents a filter matches.  The verdict is "T", "F" or "E", the last   *)
(* for the errors of the code; the code stops at the first clause that     *)
(* decides, so an error behind it is not seen.                              *)
(*                                                                         *)
(* A filter is a sequence of clauses [k, subs, path, cond]: a logical       *)
(* operator with its sub-filters, "expr" with an expression, or "field"    *)
(* with a path and a condition.  A condition is a literal, or the sequence *)
(* of <<operator, argument>> of an operator document.                       *)
(***************************************************************************)
EXTENDS Expr

Clause(k, subs) == [k |-> k, subs |-> subs]
FieldIs(path, v) == [k |-> "field", path |-> path, cond |-> [k |-> "lit", v |-> v]]
FieldOps(path, ops) == [k |-> "field", path |-> path, cond |-> [k |-> "ops", ops |-> ops]]

Verdict(b) == IF b THEN "T" ELSE "F"
Not3(r) == CASE r = "T" -> "F" [] r = "F" -> "T" [] OTHER -> r
FirstOther(rs, r) == LET i == First({j \in DOMAIN rs : rs[j] # r})
                     IN IF i = 0 THEN r ELSE rs[i]
AllOf(rs) == FirstOther(rs, "T")
AnyOf(rs) == FirstOther(rs, "F")

(* The values an operator looks at: an array's elements, or the value.      *)
Elems(v) == IF IsArr(v) THEN Range(v.a) ELSE {v}

-----------------------------------------------------------------------------
EqAny(v, target) == BsonEq(v, target) \/ \E e \in Elems(v) : BsonEq(e, target)

(* A missing field equals null and nothing else.                            *)
EvalEq(v, target) ==
  IF v.t = "missing" THEN Verdict(target.t = "null") ELSE Verdict(EqAny(v, target))

EvalRangeOp(op, v, c) ==
  Verdict(v.t # "missing" /\ \E e \in Elems(v) :
            CASE op = "$gt" -> BsonLess(c, e)
              [] op = "$gte" -> ~BsonLess(e, c)
              [] op = "$lt" -> BsonLess(e, c)
              [] OTHER -> ~BsonLess(c, e))

EvalInList(v, arg) ==
  CASE ~IsArr(arg) -> "E"
    [] OTHER -> Verdict(\E t \in Range(arg.a) : EvalEq(v, t) = "T")

EvalExists(v, arg) ==
  IF arg.t = "bool" \/ IsNum(arg) THEN Verdict((v.t # "missing") = (arg.n # 0)) ELSE "E"

TypeId(t) == CASE t = "double" -> 1 [] t = "string" -> 2 [] t = "object" -> 3
               [] t = "array" -> 4 [] t = "binData" -> 5 [] t = "objectId" -> 7
               [] t = "bool" -> 8 [] t = "date" -> 9 [] t = "null" -> 10
               [] t = "regex" -> 11 [] t = "int" -> 16 [] t = "timestamp" -> 17
               [] t = "long" -> 18 [] t = "minKey" -> -1 [] OTHER -> 127

(* A $type argument: the sequence of the types asked for; a name the code   *)
(* does not know ("number" is one) is an error when it is reached.          *)
EvalType3(v, types) ==
  IF v.t = "missing" THEN "F"
  ELSE AnyOf([i \in DOMAIN types |-> IF types[i] \in {"number", "unknown"} THEN "E"
                                     ELSE Verdict(TypeId(v.t) = TypeId(types[i]))])

EvalSize3(v, arg) ==
  IF ~IsNum(arg) \/ ~Whole(arg.n) \/ arg.n < 0 THEN "E"
  ELSE Verdict(IsArr(v) /\ 2 * Len(v.a) = arg.n)

EvalModOp(v, arg) ==
  LET Operand(w) == IsNum(w) /\ Finite(w)
      div == AsI64(arg.a[1].n)
  IN IF ~IsArr(arg) THEN "E"
     ELSE IF Len(arg.a) # 2 \/ ~Operand(arg.a[1]) \/ ~Operand(arg.a[2]) THEN "E"
     ELSE IF div = 0 THEN "E"
     ELSE LET elems == IF IsArr(v) THEN v.a ELSE <<v>>
              Test(e) == IF ~Operand(e) THEN "F"
                         ELSE IF RemPanics(AsI64(e.n), div) THEN "E"
                         ELSE Verdict(Rem(AsI64(e.n), div) = AsI64(arg.a[2].n))
          IN AnyOf([i \in DOMAIN elems |-> Test(elems[i])])

(* Bits are numbered from the least significant; past the width an integer  *)
(* repeats its sign and binary data is clear.                               *)
BitSet(k, p) == IF p >= 6 THEN k < 0 ELSE (k \div 2 ^ p) % 2 = 1
ByteBit(cs, p) == (p \div 8) + 1 \in DOMAIN cs /\ (cs[(p \div 8) + 1] \div 2 ^ (p % 8)) % 2 = 1
NonNegInt(v) == IsNum(v) /\ Finite(v) /\ Whole(v.n) /\ v.n >= 0

BitPositions(arg) ==       \* {-1}: the argument is malformed
  CASE IsNum(arg) -> IF NonNegInt(arg) THEN {p \in 0 .. 5 : BitSet(arg.n \div 2, p)} ELSE {-1}
    [] IsArr(arg) -> IF \A e \in Range(arg.a) : NonNegInt(e)
                     THEN {e.n \div 2 : e \in Range(arg.a)} ELSE {-1}
    [] arg.t = "binData" -> {p \in 0 .. 8 * Len(arg.c) - 1 : ByteBit(arg.c, p)}
    [] OTHER -> {-1}

BitsMatch(op, P, v) ==
  LET Set(p) == IF v.t = "binData" THEN ByteBit(v.c, p) ELSE BitSet(v.n \div 2, p)
      Readable == v.t = "binData" \/ (IsNum(v) /\ Finite(v) /\ Whole(v.n) /\ InI64(v.n \div 2))
  IN Readable /\ CASE op = "$bitsAllSet" -> \A p \in P : Set(p)
                   [] op = "$bitsAnySet" -> \E p \in P : Set(p)
                   [] op = "$bitsAllClear" -> \A p \in P : ~Set(p)
                   [] OTHER -> \E p \in P : ~Set(p)

BitOps == {"$bitsAllSet", "$bitsAnySet", "$bitsAllClear", "$bitsAnyClear"}
EvalBits(op, v, arg) ==
  LET P == BitPositions(arg)
  IN IF P = {-1} THEN "E"
     ELSE Verdict(v.t # "missing" /\ \E e \in Elems(v) : BitsMatch(op, P, e))

(* A pattern is a substring to find; the flag i folds capitals, the flags   *)
(* m, s, x, l and u make no difference to one, another flag is an error.    *)
EvalRegex(v, pattern, flags) ==
  LET Fold(cs) == IF "i" \in flags THEN [j \in DOMAIN cs |-> cs[j] % 10] ELSE cs
      Match(e) == e.t = "string" /\ \E i \in 1 .. Len(e.c) + 1 : At(Fold(e.c), Fold(pattern), i)
  IN IF ~(flags \subseteq {"i", "m", "s", "x", "l", "u"}) THEN "E"
     ELSE Verdict(\E e \in Elems(v) : Match(e))

-----------------------------------------------------------------------------
(* rs: the verdicts of the filters under $and, $or or $nor.                 *)
EvalLogical(k, rs) ==
  CASE k = "and" -> AllOf(rs)
    [] k = "or" -> IF rs = <<>> THEN "E" ELSE AnyOf(rs)
    [] OTHER -> IF rs = <<>> THEN "E" ELSE Not3(AnyOf(rs))

OpArg(ops, op) == {ops[i][2] : i \in {j \in DOMAIN ops : ops[j][1] = op}}

RECURSIVE EvalFilter(_, _), EvalOperatorDocument(_, _)

(* arg: [ops |-> TRUE, cond |-> operators] or [ops |-> FALSE, cond |-> filter] *)
EvalElemMatch(v, arg) ==
  IF ~IsArr(v) THEN "F"
  ELSE AnyOf([i \in DOMAIN v.a |->
               CASE arg.ops -> EvalOperatorDocument(v.a[i], arg.cond)
                 [] ~arg.ops /\ IsDoc(v.a[i]) -> EvalFilter(v.a[i].d, arg.cond)
                 [] OTHER -> "F"])

(* arg: sequence of values and of [em |-> an $elemMatch argument].          *)
EvalAllOp(v, arg) ==
  LET Item(i) == IF "em" \in DOMAIN arg[i]
                 THEN EvalOperatorDocument(v, <<<<"$elemMatch", arg[i].em>>>>)
                 ELSE Verdict(\E e \in Elems(v) : BsonEq(e, arg[i]))
  IN IF arg = <<>> \/ v.t = "missing" THEN "F"
     ELSE AllOf([i \in DOMAIN arg |-> Item(i)])

EvalNotOp(v, arg) == IF arg = <<>> THEN "E" ELSE Not3(EvalOperatorDocument(v, arg))

EvalSingleOp(v, op, arg) ==
  CASE op = "$eq" -> EvalEq(v, arg)
    [] op = "$ne" -> Not3(EvalEq(v, arg))
    [] op \in {"$gt", "$gte", "$lt", "$lte"} -> EvalRangeOp(op, v, arg)
    [] op = "$in" -> EvalInList(v, arg)
    [] op = "$nin" -> Not3(EvalInList(v, arg))
    [] op = "$not" -> EvalNotOp(v, arg)
    [] op = "$exists" -> EvalExists(v, arg)
    [] op = "$type" -> EvalType3(v, arg)
    [] op = "$elemMatch" -> EvalElemMatch(v, arg)
    [] op = "$all" -> EvalAllOp(v, arg)
    [] op = "$size" -> EvalSize3(v, arg)
    [] op = "$mod" -> EvalModOp(v, arg)
    [] op \in BitOps -> EvalBits(op, v, arg)
    [] OTHER -> "E"

(* $regex with its $options is evaluated before the other operators.        *)
EvalOperatorDocument(v, ops) ==
  LET flags == OpArg(ops, "$options")
      rx == {EvalRegex(v, p.c, UNION flags) : p \in OpArg(ops, "$regex")}
      rest == SelectSeq(ops, LAMBDA o : o[1] \notin {"$regex", "$options"})
  IN CASE rx = {} /\ flags # {} -> "E"
       [] rx \in {{"F"}, {"E"}} -> CHOOSE r \in rx : TRUE
       [] OTHER -> AllOf([i \in DOMAIN rest |-> EvalSingleOp(v, rest[i][1], rest[i][2])])

EvalFieldCondition(v, cond) ==
  CASE cond.k = "ops" -> EvalOperatorDocument(v, cond.ops)
    [] cond.k = "lit" -> IF cond.v.t = "regex" THEN EvalRegex(v, cond.v.c, {})
                         ELSE EvalEq(v, cond.v)

ExprVerdict(v) == IF v.t = "err" THEN "E" ELSE Verdict(IsTruthy(v))

EvalTopLevel(doc, cl) ==
  CASE cl.k \in {"and", "or", "nor"} ->
         EvalLogical(cl.k, [i \in DOMAIN cl.subs |-> EvalFilter(doc, cl.subs[i])])
    [] cl.k = "comment" -> "T"
    [] cl.k = "expr" -> ExprVerdict(EvalExpr(cl.subs, Context(doc, 0)))
    [] cl.k = "field" -> EvalFieldCondition(GetNestedField(doc, cl.path), cl.cond)
    [] OTHER -> "E"           \* $not, and any other $ key

EvalFilter(doc, filter) ==
  IF \E i \in DOMAIN filter : filter[i].k = "collation" THEN "E"
  ELSE AllOf([i \in DOMAIN filter |-> EvalTopLevel(doc, filter[i])])
=============================================================================
