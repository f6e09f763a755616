-------------------------------- MODULE Expr --------------------------------
(***************************************************************************)
(* The aggregation expression language (query/expr.rs): what an expression *)
(* evaluates to over a document.  A result is a value, Missing (the code's *)
(* None) or Err.  An expression is a tree: a literal, a field path, a      *)
(* variable with a path, an array, a computed document, or an operator     *)
(* with the list of its arguments; named arguments are given in order      *)
(* ($cond: if, then, else; $filter: input, cond; $map: input, in; $trim:   *)
(* input, chars; $switch: case, then, case, then, ..., default).            *)
(*                                                                         *)
(* What f64::powf, sqrt, exp, ln and log10 return, the one number $rand    *)
(* draws, how a value is written as text and what text parses to are       *)
(* parameters.                                                              *)
(***************************************************************************)
EXTENDS Bson

CONSTANTS F64Fn(_, _),   \* F64Fn(name, arguments in halves): halves
          Text(_),       \* to_string of a scalar, the name of a type: characters
          ParseF64(_)    \* str::parse::<f64>: halves, or NaN for an error

Lit(v) == [x |-> "lit", v |-> v]
Field(path) == [x |-> "field", path |-> path]
Var(name, path) == [x |-> "var", name |-> name, path |-> path]
ArrayOf(items) == [x |-> "array", items |-> items]
DocOf(fields) == [x |-> "doc", fields |-> fields]    \* <<name, expression>>s
Op(op, args) == [x |-> "op", op |-> op, args |-> args]

(* ExprContext: the document, the time of the evaluation, the bindings.     *)
Context(doc, now) == [root |-> doc, now |-> now, vars |-> <<>>]
WithVar(ctx, name, v) == [ctx EXCEPT !.vars = Append(@, <<name, v>>)]
LookupVar(ctx, name) ==
  LET I == {i \in DOMAIN ctx.vars : ctx.vars[i][1] = name}
  IN IF I = {} THEN Err ELSE ctx.vars[Max(I)][2]

IsTruthy(v) == CASE IsNull(v) -> FALSE
                 [] v.t = "bool" \/ IsNum(v) -> v.n # 0
                 [] OTHER -> TRUE

HasErr(vs) == \E i \in DOMAIN vs : vs[i].t = "err"
HasNull(vs) == \E i \in DOMAIN vs : IsNull(vs[i])

(* num_to_bson: an integer result is narrowed to an i32 when it fits.       *)
NumToBson(k) == IF InI32(k) THEN Int32(k) ELSE Int64(k)
AsInt(v) == v.n \div 2
SumOf(s) == LET sum[n \in 0 .. Len(s)] == IF n = 0 THEN 0 ELSE sum[n - 1] + s[n]
            IN sum[Len(s)]
First(I) == IF I = {} THEN 0 ELSE Min(I)

-----------------------------------------------------------------------------
(* Comparison and arithmetic.                                               *)

CmpOp(op, a, b) ==
  LET x == OrNull(a)  y == OrNull(b)
  IN CASE op = "$eq" -> Bool(BsonEq(x, y))
       [] op = "$ne" -> Bool(~BsonEq(x, y))
       [] op = "$gt" -> Bool(BsonLess(y, x))
       [] op = "$gte" -> Bool(~BsonLess(x, y))
       [] op = "$lt" -> Bool(BsonLess(x, y))
       [] op = "$lte" -> Bool(~BsonLess(y, x))

EvalCmp(a, b) == LET x == OrNull(a)  y == OrNull(b)
                 IN Int32(IF BsonLess(x, y) THEN -1 ELSE IF BsonLess(y, x) THEN 1 ELSE 0)

(* $add stops at the first null or unusable argument.  The integers are     *)
(* added in an i64 that wraps, apart from the doubles.                      *)
HasDouble(vs) == \E i \in DOMAIN vs : vs[i].t = "double"
AddResult(date, float, k, h) ==
  CASE date.t = "date" -> Date(date.n + IF float THEN AsI64(h + 2 * k) ELSE k)
    [] OTHER -> IF float THEN Double(h + 2 * k) ELSE NumToBson(k)
EvalAdd(vs) ==
  LET Dates == {i \in DOMAIN vs : vs[i].t = "date"}
      Stops == {i \in DOMAIN vs : \/ ~IsNum(vs[i]) /\ i \notin Dates
                                  \/ i \in Dates /\ \E j \in Dates : j < i}
  IN  CASE Stops # {} -> IF IsNull(vs[Min(Stops)]) THEN Null ELSE Err
        [] OTHER ->
           AddResult(IF Dates = {} THEN Missing ELSE vs[Min(Dates)], HasDouble(vs),
                     Wrap64(SumOf([i \in DOMAIN vs |-> IF IsInt(vs[i]) THEN AsInt(vs[i]) ELSE 0])),
                     SumOf([i \in DOMAIN vs |-> IF vs[i].t = "double" THEN vs[i].n ELSE 0]))

EvalSubtract(a, b) ==
  CASE a.t = "date" /\ b.t = "date" -> Int64(a.n - b.n)
    [] a.t = "date" /\ b.t # "date" -> IF IsNum(b) THEN Date(a.n - AsI64(b.n)) ELSE Err
    [] OTHER -> CASE ~IsNum(a) \/ ~IsNum(b) -> Err
                  [] IsInt(a) /\ IsInt(b) -> NumToBson(Wrap64(AsInt(a) - AsInt(b)))
                  [] OTHER -> Double(a.n - b.n)

(* The doubles of the model are the halves: a product or quotient that is   *)
(* none of them is rounded to one, as f64 rounds to its own.                *)
RoundHalf(num, den) == IF (num >= 0) = (den > 0)
                       THEN (IF num >= 0 THEN num ELSE -num) \div (IF den > 0 THEN den ELSE -den)
                       ELSE -((IF num >= 0 THEN num ELSE -num) \div (IF den > 0 THEN den ELSE -den))

MultiplyResult(float, p) == IF float THEN Double(p[1] * p[2]) ELSE NumToBson(p[1])
EvalMultiply(vs) ==
  LET prod[n \in 0 .. Len(vs)] ==      \* of the integers, and of the doubles
        CASE n = 0 -> <<1, 2>>
          [] OTHER -> IF IsInt(vs[n]) THEN [prod[n - 1] EXCEPT ![1] = Wrap64(@ * AsInt(vs[n]))]
                      ELSE [prod[n - 1] EXCEPT ![2] = RoundHalf(@ * vs[n].n, 2)]
  IN IF \E i \in DOMAIN vs : ~IsNum(vs[i]) THEN Err
     ELSE MultiplyResult(HasDouble(vs), prod[Len(vs)])

EvalDivide(a, b) ==
  IF ~IsNum(a) \/ ~IsNum(b) \/ b.n = 0 THEN Err ELSE Double(RoundHalf(2 * a.n, b.n))

(* Faulty variant: the remainder of a floored division.                             *)
RemFloored(x, y) == IF y > 0 THEN x % y ELSE -((-x) % (-y))

(* % of Rust: the sign is the dividend's.                                   *)
Rem(x, y) == LET m == (IF x >= 0 THEN x ELSE -x) % (IF y > 0 THEN y ELSE -y)
             IN IF x >= 0 THEN m ELSE -m

(* i64::MIN % -1 panics, in every build; it has no value, as an error has   *)
(* none.                                                                    *)
RemPanics(x, y) == x = -I64Max - 1 /\ y = -1
EvalMod(a, b) ==
  CASE ~IsNum(a) \/ ~IsNum(b) \/ b.n = 0 -> Err
    [] IsInt(a) /\ IsInt(b) /\ RemPanics(AsInt(a), AsInt(b)) -> Err
    [] OTHER -> IF IsInt(a) /\ IsInt(b) THEN NumToBson(Rem(AsInt(a), AsInt(b)))
                ELSE Double(Rem(a.n, b.n))

(* checked_pow, and powf when it overflows or an argument is no integer.    *)
EvalPow(a, b) ==
  IF ~IsNum(a) \/ ~IsNum(b) THEN Err
  ELSE LET exact == IsInt(a) /\ IsInt(b) /\ b.n >= 0
           p == IF exact THEN AsInt(a) ^ AsInt(b) ELSE 0
       IN IF exact /\ InI64(p) THEN NumToBson(p)
          ELSE Double(F64Fn("powf", <<a.n, b.n>>))

(* unary_num with math_abs, num_ceil, num_floor, num_trunc, math_sqrt,      *)
(* exp and math_log.                                                        *)
UnaryNum(op, v) ==
  CASE IsNull(v) -> Null
    [] ~IsNull(v) /\ ~IsNum(v) -> Err
    [] OTHER ->
       CASE op = "$abs" -> LET k == IF v.n >= 0 THEN v.n ELSE -v.n
                           IN IF IsInt(v) /\ InI64(k \div 2) THEN NumToBson(k \div 2)
                              ELSE Double(k)
         [] op \in {"$ceil", "$floor", "$trunc"} ->
              IF IsInt(v) THEN NumToBson(AsInt(v))
              ELSE Double(2 * CASE op = "$ceil" -> -((-v.n) \div 2)
                                [] op = "$floor" -> v.n \div 2
                                [] OTHER -> TruncHalf(v.n))
         [] op = "$sqrt" -> IF v.n < 0 THEN Err ELSE Double(F64Fn(op, <<v.n>>))
         [] op \in {"$ln", "$log10"} -> IF v.n <= 0 THEN Err ELSE Double(F64Fn(op, <<v.n>>))
         [] OTHER -> Double(F64Fn(op, <<v.n>>))

RoundHalfEven(num, den) ==      \* den > 0
  LET f == num \div den   r == 2 * (num % den)
  IN CASE r < den -> f [] r > den -> f + 1 [] OTHER -> IF f % 2 = 0 THEN f ELSE f + 1

(* The second argument is evaluated after the first was found null or not   *)
(* a number; vs has one or two elements.                                    *)
EvalRound(vs) ==
  LET v == vs[1]
      place == IF Len(vs) = 1 THEN 0 ELSE AsInt(vs[2])
      scale == 10 ^ (IF place >= 0 THEN place ELSE -place)
  IN  CASE v.t = "err" -> Err
        [] IsNull(v) -> Null
        [] ~IsNum(v) \/ (Len(vs) = 2 /\ ~IsInt(vs[2])) -> Err
        [] IsInt(v) /\ place >= 0 -> NumToBson(AsInt(v))
        [] OTHER -> IF place >= 0
                    THEN Double(RoundHalf(2 * RoundHalfEven(v.n * scale, 2), scale))
                    ELSE LET k == RoundHalfEven(v.n, 2 * scale) * scale
                         IN IF IsInt(v) THEN NumToBson(AsI64(2 * k)) ELSE Double(2 * k)

-----------------------------------------------------------------------------
(* Strings.  Characters: 0 is a space, 1..9 small letters, 11..19 capitals. *)

FirstStop(vs, t) == First({i \in DOMAIN vs : vs[i].t # t})
EvalConcat(vs) == LET i == FirstStop(vs, "string")
                  IN CASE i = 0 -> Str(FlattenSeq([j \in DOMAIN vs |-> vs[j].c]))
                       [] OTHER -> IF IsNull(vs[i]) THEN Null ELSE Err

StrCase(v, upper) ==
  CASE IsNull(v) -> Null
    [] v.t = "string" -> Str([i \in DOMAIN v.c |->
                               CASE upper /\ v.c[i] \in 1 .. 9 -> v.c[i] + 10
                                 [] ~upper /\ v.c[i] \in 11 .. 19 -> v.c[i] - 10
                                 [] OTHER -> v.c[i]])
    [] OTHER -> Err

EvalStrLenCP(v) == CASE IsNull(v) -> Null
                     [] v.t = "string" -> Int32(Len(v.c))
                     [] OTHER -> Err

NonnegIndex(v) == IF IsNum(v) /\ v.n >= 0 /\ Whole(v.n) THEN v.n \div 2 ELSE -1
EvalSubstrCP(s, start, len) ==
  LET i == NonnegIndex(start)  n == NonnegIndex(len)
  IN CASE IsNull(s) -> Str(<<>>)
       [] ~IsNull(s) /\ (s.t # "string" \/ i = -1 \/ n = -1) -> Err
       [] OTHER -> Str(SubSeq(s.c, i + 1, Min({i + n, Len(s.c)})))

At(s, t, i) == i + Len(t) - 1 <= Len(s) /\ SubSeq(s, i, i + Len(t) - 1) = t
RECURSIVE SplitOn(_, _)
SplitOn(s, delim) ==
  LET Hits == {i \in 1 .. Len(s) : At(s, delim, i)}
  IN IF Hits = {} THEN <<Str(s)>>
     ELSE <<Str(SubSeq(s, 1, Min(Hits) - 1))>>
            \o SplitOn(SubSeq(s, Min(Hits) + Len(delim), Len(s)), delim)
EvalSplit(a, b) == CASE IsNull(a) \/ IsNull(b) -> Null
                     [] OTHER -> IF a.t # "string" \/ b.t # "string" \/ b.c = <<>>
                                 THEN Err ELSE Arr(SplitOn(a.c, b.c))

EvalTrim(v, chars, left, right) ==
  LET Cut == IF IsNull(chars) THEN {0} ELSE Range(chars.c)
      Kept == {i \in DOMAIN v.c : v.c[i] \notin Cut}
      lo == IF left THEN Min(Kept) ELSE 1
      hi == IF right THEN Max(Kept) ELSE Len(v.c)
  IN CASE v.t = "err" -> Err
       [] IsNull(v) -> Null
       [] v.t # "string" \/ (~IsNull(chars) /\ chars.t # "string") -> Err
       [] OTHER -> IF Kept = {} THEN Str(<<>>) ELSE Str(SubSeq(v.c, lo, hi))

EvalToString(v) ==
  CASE IsNull(v) -> Null
    [] v.t = "string" -> v
    [] v.t \in {"bool", "int", "long", "double", "objectId", "date"} -> Str(Text(v))
    [] OTHER -> Err

-----------------------------------------------------------------------------
(* Arrays.                                                                  *)

IntArg(v) == IF IsNum(v) /\ (IsInt(v) \/ Whole(v.n)) THEN AsI64(v.n) ELSE NaN

EvalIn(needle, hay) ==
  IF ~IsArr(hay) THEN Err
  ELSE Bool(\E i \in DOMAIN hay.a : BsonEq(hay.a[i], OrNull(needle)))

EvalArrayElemAt(a, i) ==
  LET k == IntArg(i)
      at == IF k < 0 THEN Len(a.a) + k ELSE k
  IN CASE IsNull(a) -> Null
       [] ~IsNull(a) /\ (~IsArr(a) \/ k = NaN) -> Err
       [] OTHER -> IF at + 1 \in DOMAIN a.a THEN a.a[at + 1] ELSE Missing

EvalFirstLast(v, last) ==
  CASE IsNull(v) -> Null
    [] IsArr(v) -> IF v.a = <<>> THEN Missing
                   ELSE IF last THEN v.a[Len(v.a)] ELSE v.a[1]
    [] OTHER -> Err

EvalConcatArrays(vs) == LET i == FirstStop(vs, "array")
                        IN CASE i = 0 -> Arr(FlattenSeq([j \in DOMAIN vs |-> vs[j].a]))
                             [] OTHER -> IF IsNull(vs[i]) THEN Null ELSE Err

EvalSlice(vs) ==
  LET len == Len(vs[1].a)
      p == IntArg(vs[2])
      n == IF Len(vs) = 3 THEN IntArg(vs[3]) ELSE p
      start == CASE Len(vs) = 2 /\ p >= 0 -> 0
                 [] p < 0 -> Max({len + p, 0})
                 [] OTHER -> p
      count == IF n < 0 THEN -n ELSE n
  IN CASE IsNull(vs[1]) -> Null
       [] ~IsNull(vs[1]) /\ (~IsArr(vs[1]) \/ p = NaN \/ n = NaN) -> Err
       [] OTHER -> IF Len(vs) = 3 /\ n < 0 THEN Err
                   ELSE Arr(SubSeq(vs[1].a, start + 1, Min({start + count, len})))

EvalRange(vs) ==
  LET ks == [i \in DOMAIN vs |-> IntArg(vs[i])]
      step == IF Len(vs) = 3 THEN ks[3] ELSE 1
      span == IF step > 0 THEN ks[2] - ks[1] ELSE ks[1] - ks[2]
      size == IF step > 0 THEN step ELSE -step
  IN IF NaN \in Range(ks) \/ step = 0 THEN Err
     ELSE IF span <= 0 THEN Arr(<<>>)
     ELSE Arr([i \in 1 .. (span + size - 1) \div size |-> Int32(Wrap32(ks[1] + (i - 1) * step))])

-----------------------------------------------------------------------------
(* Conversions and the calendar.                                            *)

EvalType(v) == Str(Text(Base(v.t)))

ToNumber(op, v) ==
  LET h == CASE IsNum(v) -> v.n
             [] v.t = "bool" -> 2 * v.n
             [] v.t = "string" -> ParseF64(v.c)
             [] OTHER -> NaN
  IN CASE IsNull(v) -> Null
       [] ~IsNull(v) /\ h = NaN -> Err
       [] OTHER -> CASE op = "$toInt" -> IF InI32(AsI64(h)) THEN Int32(AsI64(h)) ELSE Err
                     [] op = "$toLong" -> Int64(AsI64(h))
                     [] OTHER -> Double(h)

EvalToBool(v) == IF IsNull(v) THEN Null ELSE Bool(IsTruthy(v))

EvalToDate(v) == CASE IsNull(v) -> Null
                   [] v.t = "date" -> v
                   [] IsNum(v) -> Date(AsI64(v.n))
                   [] OTHER -> Err

MillisPerDay == 86400000

(* Division of Rust: toward zero.                                           *)
Quot(x, y) == IF x >= 0 THEN x \div y ELSE -((-x) \div y)

DaysFromCivil(year, month, day) ==
  LET y == IF month <= 2 THEN year - 1 ELSE year
      era == Quot(IF y >= 0 THEN y ELSE y - 399, 400)
      yoe == y - era * 400
      doy == (153 * (IF month > 2 THEN month - 3 ELSE month + 9) + 2) \div 5 + day - 1
      doe == yoe * 365 + yoe \div 4 - yoe \div 100 + doy
  IN era * 146097 + doe - 719468

(* Faulty variant: the era of a day before year 0 is rounded toward zero.           *)
EraTruncated(z) == Quot(z, 146097)

(* The 400-year era of a day counted from 0000-03-01.                       *)
Era(z) == Quot(IF z >= 0 THEN z ELSE z - 146096, 146097)

(* civil_from_millis, from the day and the millisecond in the day: doe and  *)
(* doy are the day of the era and of its year, which begins in March.       *)
CivilDate(days, ms, year, month, dayOfMonth) ==
  LET secs == ms \div 1000
  IN [year |-> year, month |-> month, dayOfMonth |-> dayOfMonth,
      hour |-> secs \div 3600, minute |-> (secs \div 60) % 60, second |-> secs % 60,
      millisecond |-> ms % 1000, dayOfWeek |-> ((days + 4) % 7) + 1,
      dayOfYear |-> days - DaysFromCivil(year, 1, 1) + 1]
CivilFromEra(days, ms, era, doe) ==
  LET yoe == (doe - doe \div 1460 + doe \div 36524 - doe \div 146096) \div 365
      doy == doe - (365 * yoe + yoe \div 4 - yoe \div 100)
      mp == (5 * doy + 2) \div 153
      month == IF mp < 10 THEN mp + 3 ELSE mp - 9
      year == yoe + era * 400 + IF month <= 2 THEN 1 ELSE 0
  IN CivilDate(days, ms, year, month, doy - (153 * mp + 2) \div 5 + 1)
CivilFromDays(days, ms) ==
  LET z == days + 719468
  IN CivilFromEra(days, ms, Era(z), z - Era(z) * 146097)

DatePartName(op) ==
  CASE op = "$year" -> "year" [] op = "$month" -> "month" [] op = "$dayOfMonth" -> "dayOfMonth"
    [] op = "$hour" -> "hour" [] op = "$minute" -> "minute" [] op = "$second" -> "second"
    [] op = "$millisecond" -> "millisecond" [] op = "$dayOfWeek" -> "dayOfWeek"
    [] OTHER -> "dayOfYear"
DatePart(op, v) ==
  CASE IsNull(v) -> Null
    [] ~IsNull(v) /\ v.t # "date" -> Err
    [] OTHER -> Int32(CivilFromDays(v.n \div MillisPerDay, v.n % MillisPerDay)[DatePartName(op)])

-----------------------------------------------------------------------------
(* Evaluation.                                                              *)

CmpOps == {"$eq", "$ne", "$gt", "$gte", "$lt", "$lte"}
UnaryNumOps == {"$abs", "$ceil", "$floor", "$trunc", "$sqrt", "$exp", "$ln", "$log10"}
ToNumberOps == {"$toInt", "$toLong", "$toDouble"}
DateOps == {"$year", "$month", "$dayOfMonth", "$hour", "$minute", "$second",
            "$millisecond", "$dayOfWeek", "$dayOfYear"}
UnaryOps == UnaryNumOps \cup ToNumberOps \cup DateOps
              \cup {"$not", "$toUpper", "$toLower", "$strLenCP", "$toString", "$size",
                    "$isArray", "$first", "$last", "$type", "$toBool", "$toDate"}
BinaryOps == CmpOps \cup {"$cmp", "$subtract", "$divide", "$mod", "$pow", "$split",
                          "$in", "$arrayElemAt", "$filter", "$map"}

(* require_arity, require_min_arity and the operators with optional ones.   *)
ArityOk(op, n) ==
  CASE op = "$rand" -> n = 0
    [] op \in UnaryOps -> n = 1
    [] op \in BinaryOps -> n = 2
    [] op \in {"$cond", "$substrCP"} -> n = 3
    [] op = "$ifNull" -> n >= 2
    [] op \in {"$round", "$trim", "$ltrim", "$rtrim"} -> n \in 1 .. 2
    [] op \in {"$slice", "$range"} -> n \in 2 .. 3
    [] OTHER -> TRUE

(* The operators that evaluate every argument first (eval_all).             *)
EvalStrict(op, vs) ==
  CASE op \in CmpOps -> CmpOp(op, vs[1], vs[2])
    [] op = "$cmp" -> EvalCmp(vs[1], vs[2])
    [] op = "$add" -> EvalAdd(vs)
    [] op \in {"$subtract", "$multiply", "$divide", "$mod", "$pow"} ->
         IF HasNull(vs) THEN Null
         ELSE CASE op = "$subtract" -> EvalSubtract(vs[1], vs[2])
                [] op = "$multiply" -> EvalMultiply(vs)
                [] op = "$divide" -> EvalDivide(vs[1], vs[2])
                [] op = "$mod" -> EvalMod(vs[1], vs[2])
                [] OTHER -> EvalPow(vs[1], vs[2])
    [] op \in UnaryNumOps -> UnaryNum(op, vs[1])
    [] op = "$concat" -> EvalConcat(vs)
    [] op \in {"$toUpper", "$toLower"} -> StrCase(vs[1], op = "$toUpper")
    [] op = "$strLenCP" -> EvalStrLenCP(vs[1])
    [] op = "$substrCP" -> EvalSubstrCP(vs[1], vs[2], vs[3])
    [] op = "$split" -> EvalSplit(vs[1], vs[2])
    [] op = "$toString" -> EvalToString(vs[1])
    [] op = "$size" -> IF IsArr(vs[1]) THEN Int32(Len(vs[1].a)) ELSE Err
    [] op = "$isArray" -> Bool(IsArr(vs[1]))
    [] op = "$in" -> EvalIn(vs[1], vs[2])
    [] op = "$arrayElemAt" -> EvalArrayElemAt(vs[1], vs[2])
    [] op \in {"$first", "$last"} -> EvalFirstLast(vs[1], op = "$last")
    [] op = "$concatArrays" -> EvalConcatArrays(vs)
    [] op = "$slice" -> EvalSlice(vs)
    [] op = "$range" -> EvalRange(vs)
    [] op = "$type" -> EvalType(vs[1])
    [] op \in ToNumberOps -> ToNumber(op, vs[1])
    [] op = "$toBool" -> EvalToBool(vs[1])
    [] op = "$toDate" -> EvalToDate(vs[1])
    [] op \in DateOps -> DatePart(op, vs[1])
    [] op = "$rand" -> Double(F64Fn(op, vs))
    [] OTHER -> Err

EvalVariable(name, path, ctx) ==
  LET base == CASE name \in {"ROOT", "CURRENT"} -> Doc(ctx.root)
                [] name = "NOW" -> Date(ctx.now)
                [] OTHER -> LookupVar(ctx, name)
  IN CASE base.t = "err" \/ path = <<>> -> base
       [] OTHER -> IF IsDoc(base) THEN GetNestedField(base.d, path) ELSE Missing

(* The operators that look at their arguments only as far as they need to:  *)
(* an error in vs counts once it is reached.                                *)
Bad(v) == v.t = "err"

EvalAndOr(op, vs) ==
  LET i == First({j \in DOMAIN vs : Bad(vs[j]) \/ IsTruthy(vs[j]) = (op = "$or")})
  IN IF i = 0 THEN Bool(op = "$and") ELSE IF Bad(vs[i]) THEN Err ELSE Bool(op = "$or")
EvalNot(v) == IF Bad(v) THEN Err ELSE Bool(~IsTruthy(v))
EvalCond(vs) == IF Bad(vs[1]) THEN Err ELSE IF IsTruthy(vs[1]) THEN vs[2] ELSE vs[3]
EvalIfNull(vs) == LET i == First({j \in 1 .. Len(vs) - 1 : ~IsNull(vs[j])})
                  IN vs[IF i = 0 THEN Len(vs) ELSE i]
EvalSwitch(vs) ==
  LET n == Len(vs) \div 2
      i == First({j \in 1 .. n : Bad(vs[2 * j - 1]) \/ IsTruthy(vs[2 * j - 1])})
  IN CASE i # 0 -> IF Bad(vs[2 * i - 1]) THEN Err ELSE vs[2 * i]
       [] OTHER -> IF Len(vs) = 2 * n THEN Err ELSE vs[Len(vs)]

(* inner: the second argument for each element of the input, as $$this.     *)
EvalFilterExpr(input, inner) ==
  IF HasErr(inner) THEN Err
  ELSE Arr(FlattenSeq([i \in DOMAIN inner |-> IF IsTruthy(inner[i]) THEN <<input.a[i]>> ELSE <<>>]))
EvalMap(inner) ==
  IF HasErr(inner) THEN Err ELSE Arr([i \in DOMAIN inner |-> OrNull(inner[i])])

(* vs are the values of the arguments; each, those of the second with       *)
(* $$this standing for the elements of the first.                           *)
EvalEach(op, v, each) ==
  CASE IsNull(v) -> Null
    [] ~IsNull(v) /\ IsArr(v) ->
         IF op = "$map" THEN EvalMap(each) ELSE EvalFilterExpr(v, each)
    [] OTHER -> Err
EvalOperator(op, vs, each) ==
  CASE op \in {"$and", "$or"} -> EvalAndOr(op, vs)
    [] op = "$not" -> EvalNot(vs[1])
    [] op = "$cond" -> EvalCond(vs)
    [] op = "$ifNull" -> EvalIfNull(vs)
    [] op = "$switch" -> EvalSwitch(vs)
    [] op \in {"$filter", "$map"} -> EvalEach(op, vs[1], each)
    [] op \in {"$trim", "$ltrim", "$rtrim"} ->
         EvalTrim(vs[1], IF Len(vs) = 1 THEN Null ELSE vs[2], op # "$rtrim", op # "$ltrim")
    [] op = "$round" -> EvalRound(vs)
    [] OTHER -> IF HasErr(vs) THEN Err ELSE EvalStrict(op, vs)

EvalArray(vs) == IF HasErr(vs) THEN Err ELSE Arr([i \in DOMAIN vs |-> OrNull(vs[i])])

EvalComputedDocument(fields, vs) ==
  LET Set(d, i) == IF vs[i].t = "missing" THEN d ELSE Put(d, fields[i][1], vs[i])
  IN IF HasErr(vs) THEN Err ELSE Doc(FoldLeft(Set, <<>>, [i \in DOMAIN vs |-> i]))

RECURSIVE EvalExpr(_, _)
EvalExpr(e, ctx) ==
  CASE e.x = "lit" -> e.v
    [] e.x = "field" -> GetNestedField(ctx.root, e.path)
    [] e.x = "var" -> EvalVariable(e.name, e.path, ctx)
    [] e.x = "array" -> EvalArray([i \in DOMAIN e.items |-> EvalExpr(e.items[i], ctx)])
    [] e.x = "doc" ->
         EvalComputedDocument(e.fields, [i \in DOMAIN e.fields |-> EvalExpr(e.fields[i][2], ctx)])
    [] e.x = "op" ->
         LET vs == [i \in DOMAIN e.args |-> EvalExpr(e.args[i], ctx)]
         IN IF ~ArityOk(e.op, Len(e.args)) THEN Err
            ELSE EvalOperator(e.op, vs, [i \in DOMAIN vs[1].a |->
                                          EvalExpr(e.args[2], WithVar(ctx, "this", vs[1].a[i]))])
=============================================================================
