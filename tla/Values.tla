------------------------------- MODULE Values -------------------------------
(***************************************************************************)
(* The pure functions under every query, against reference definitions:    *)
(* the order of encoded keys against an order on the values themselves,    *)
(* the calendar against counting days one by one, and the expression       *)
(* operators against the laws that relate them.  A state is a pair of      *)
(* values or a day.                                                         *)
(***************************************************************************)
EXTENDS Planner

CONSTANTS Universe,    \* the values compared
          Days         \* days since 1970-01-01, 0 among them

VARIABLES x, y, day
vars == <<x, y, day>>

Init == x = Null /\ y = Null /\ day \in Days
NextPair == day = 0 /\ x' \in Universe /\ y' \in Universe /\ UNCHANGED day
Spec == Init /\ [][NextPair]_vars

-----------------------------------------------------------------------------
(* Key order.                                                               *)

Rank(t) == SelectInSeq(<<"minKey", "null", "number", "string", "object", "array", "binData",
                         "objectId", "bool", "date", "timestamp", "regex", "maxKey">>,
                       LAMBDA u : u = IF t \in {"int", "long", "double"} THEN "number" ELSE t)
Number(v) == IF v.n = NaN THEN -NaN ELSE v.n

RECURSIVE Less(_, _), SeqLess(_, _)
SeqLess(s, t) ==
  /\ t # <<>>
  /\ s = <<>> \/ Less(s[1], t[1]) \/ (~Less(t[1], s[1]) /\ SeqLess(Tail(s), Tail(t)))
Chars(v) == [i \in DOMAIN v.c |-> Int32(v.c[i])]
Members(v) == FlattenSeq([i \in DOMAIN v.d |->
                <<Arr([j \in DOMAIN NameBytes(v.d[i][1]) |-> Int32(NameBytes(v.d[i][1])[j])]), v.d[i][2]>>])

\* The order of two values: by type, then numbers by size, text character by
\* character, arrays and documents element by element.
Less(v, w) ==
  IF Rank(v.t) # Rank(w.t) THEN Rank(v.t) < Rank(w.t)
  ELSE CASE v.t \in {"string", "regex", "binData"} -> SeqLess(Chars(v), Chars(w))
         [] IsArr(v) -> SeqLess(v.a, w.a)
         [] IsDoc(v) -> SeqLess(Members(v), Members(w))
         [] OTHER -> Number(v) < Number(w)
Same(v, w) == ~Less(v, w) /\ ~Less(w, v)

\* What the encoding does not tell apart, or does not delimit: numbers past
\* u64::MAX, an array that starts with MinKey, a field without a name.
RECURSIVE Encodable(_)
Encodable(v) ==
  CASE IsNum(v) -> Finite(v) => v.n \div 2 <= U64Max /\ (-v.n) \div 2 <= U64Max
    [] IsArr(v) -> \A i \in DOMAIN v.a : v.a[i].t # "minKey" /\ Encodable(v.a[i])
    [] IsDoc(v) -> \A i \in DOMAIN v.d : v.d[i][1] # "" /\ Encodable(v.d[i][2])
    [] OTHER -> TRUE

\* The bytes of index keys sort as their field and then their _id do, in
\* either direction; the range of a value holds the keys of the equal values
\* and no others, whatever is a prefix of what; and the trailing _id is cut
\* off exactly where the field ends.
KeysInOrder ==
  LET Key(v, asc, id) == EncodeCompoundKey(<<<<v, asc>>, <<Int32(id), TRUE>>>>)
  IN Encodable(x) /\ Encodable(y) =>
       /\ BsonLess(x, y) <=> Less(x, y)
       /\ \A asc \in BOOLEAN, i, j \in {-1, 2} :
            /\ ByteLess(Key(x, asc, i), Key(y, asc, j)) <=>
                 IF Same(x, y) THEN i < j ELSE IF asc THEN Less(x, y) ELSE Less(y, x)
            /\ InRange(Key(y, asc, j), Prefix(x, asc), PrefixNext(x, asc)) <=> Same(x, y)
            /\ PrefixExcludingId(Key(x, asc, i), <<asc>>) = Prefix(x, asc)

-----------------------------------------------------------------------------
(* The calendar.                                                            *)

Leap(year) == year % 4 = 0 /\ (year % 100 # 0 \/ year % 400 = 0)
MonthLength(year, m) == CASE m = 2 -> IF Leap(year) THEN 29 ELSE 28
                          [] m \in {4, 6, 9, 11} -> 30
                          [] OTHER -> 31
DayAfter(c) ==
  LET endOfMonth == c.dayOfMonth = MonthLength(c.year, c.month)
      endOfYear == endOfMonth /\ c.month = 12
  IN [c EXCEPT !.dayOfMonth = IF endOfMonth THEN 1 ELSE @ + 1,
               !.month = IF endOfYear THEN 1 ELSE IF endOfMonth THEN @ + 1 ELSE @,
               !.year = IF endOfYear THEN @ + 1 ELSE @,
               !.dayOfWeek = (@ % 7) + 1,
               !.dayOfYear = IF endOfYear THEN 1 ELSE @ + 1]

\* The date operators follow the Gregorian calendar: the day after each day
\* is its successor, across months, leap days, centuries and the year 0, and
\* day 0 is Thursday 1970-01-01; the way back gives the day again.
CalendarAgrees ==
  LET c == CivilFromDays(day, 0)
  IN /\ CivilFromDays(day + 1, 0) = DayAfter(c)
     /\ DaysFromCivil(c.year, c.month, c.dayOfMonth) = day
     /\ day = 0 => <<c.year, c.month, c.dayOfMonth, c.dayOfWeek, c.dayOfYear>> = <<1970, 1, 1, 5, 1>>

-----------------------------------------------------------------------------
(* Expressions.                                                             *)

E(op, vs) == EvalExpr(Op(op, [i \in DOMAIN vs |-> Lit(vs[i])]), Context(<<>>, 0))
Yes(v) == v = Bool(TRUE)
TrueOrFalse == {Bool(TRUE), Bool(FALSE)}

ComparisonLaws ==
  LET c == AsInt(E("$cmp", <<x, y>>))
  IN /\ AsInt(E("$cmp", <<y, x>>)) = -c
     /\ Yes(E("$eq", <<x, y>>)) = (c = 0) /\ Yes(E("$ne", <<x, y>>)) = (c # 0)
     /\ Yes(E("$gt", <<x, y>>)) = (c = 1) /\ Yes(E("$lte", <<x, y>>)) = (c # 1)
     /\ Yes(E("$lt", <<x, y>>)) = (c = -1) /\ Yes(E("$gte", <<x, y>>)) = (c # -1)

LogicLaws ==
  /\ E("$and", <<x, y>>) = E("$not", <<E("$or", <<E("$not", <<x>>), E("$not", <<y>>)>>)>>)
  /\ E("$cond", <<x, y, Null>>) = E("$switch", <<x, y, Null>>)
  /\ E("$ifNull", <<x, y>>) = IF x = Null THEN y ELSE x
  /\ x # Null => E("$toBool", <<x>>) = E("$or", <<x>>)

NumberLaws ==
  LET Num(v) == IsNum(v) /\ Finite(v)
      q == E("$trunc", <<E("$divide", <<x, y>>)>>)
  IN /\ Num(x) /\ Num(y) => BsonEq(E("$subtract", <<E("$add", <<x, y>>), y>>), x)
     /\ x.t = "date" /\ IsInt(y) => E("$subtract", <<E("$add", <<x, y>>), x>>).n = y.n
     /\ IsInt(x) /\ IsInt(y) /\ y.n # 0 /\ ~RemPanics(AsInt(x), AsInt(y)) =>
          BsonEq(E("$add", <<E("$multiply", <<q, y>>), E("$mod", <<x, y>>)>>), x)
     /\ Num(x) => /\ ~BsonLess(x, E("$floor", <<x>>)) /\ ~BsonLess(E("$ceil", <<x>>), x)
                  /\ E("$round", <<x>>).n - x.n \in -1 .. 1
                  /\ E("$abs", <<x>>).n \in {x.n, -x.n} /\ E("$abs", <<x>>).n >= 0
                  /\ BsonEq(E("$toDouble", <<x>>), x)
     /\ x.t = "int" => E("$toInt", <<E("$toLong", <<x>>)>>) = x

StringLaws ==
  LET s == E("$concat", <<x, y>>)
      n == E("$strLenCP", <<x>>)
      m == E("$strLenCP", <<y>>)
      sep == Str(<<9>>)
  IN x.t = "string" /\ y.t = "string" =>
       /\ E("$add", <<n, m>>) = E("$strLenCP", <<s>>)
       /\ E("$substrCP", <<s, Int32(0), n>>) = x /\ E("$substrCP", <<s, n, m>>) = y
       /\ E("$split", <<E("$concat", <<x, sep, y>>), sep>>) = Arr(<<x, y>>)
       /\ E("$toLower", <<E("$toUpper", <<x>>)>>) = E("$toLower", <<x>>)
       /\ E("$ltrim", <<E("$rtrim", <<x>>)>>) = E("$trim", <<x>>)

ArrayLaws ==
  LET a == E("$concatArrays", <<Arr(<<x>>), Arr(<<y>>)>>)
      Each(op, e) == EvalExpr(Op(op, <<Lit(a), e>>), Context(<<>>, 0))
  IN /\ E("$size", <<a>>) = Int32(2) /\ Yes(E("$in", <<y, a>>)) /\ Yes(E("$isArray", <<a>>))
     /\ E("$first", <<a>>) = x /\ E("$arrayElemAt", <<a, Int32(0)>>) = x
     /\ E("$last", <<a>>) = y /\ E("$arrayElemAt", <<a, Int32(-1)>>) = y
     /\ E("$slice", <<a, Int32(1)>>) = Arr(<<x>>)
     /\ E("$slice", <<a, Int32(-1)>>) = E("$slice", <<a, Int32(1), Int32(5)>>)
     /\ Each("$map", Var("this", <<>>)) = a
     /\ Len(Each("$filter", Op("$eq", <<Var("this", <<>>), Lit(x)>>)).a) = IF BsonEq(x, y) THEN 2 ELSE 1
     /\ x.t = "int" /\ y.t = "int" =>
          LET r == E("$range", <<x, y>>)
          IN Len(r.a) = Max({0, AsInt(y) - AsInt(x)}) /\ (r.a # <<>> => r.a[1] = x)

\* The operators of an expression agree with each other, for all values: the
\* comparisons with $cmp, $and with $or, subtraction with addition (around
\* the end of the i64 range too), $mod with $divide (but for i64::MIN by -1,
\* where eval_mod panics), the string operators with $concat and the array
\* operators with $concatArrays.
ExprLaws == ComparisonLaws /\ LogicLaws /\ NumberLaws /\ StringLaws /\ ArrayLaws
=============================================================================
