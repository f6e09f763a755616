------------------------------ MODULE MCValues ------------------------------
(* Values of every type, and days around the turns of the calendar.         *)
EXTENDS Values

MCF64Fn(f, v) == 0
MCText(v) == <<>>
MCParseF64(cs) == NaN

Numbers == {Int32(k) : k \in {-8, -1, 0, 1, 2, 7}} \cup {Int64(-32), Int64(31)}
             \cup {Double(h) : h \in {-3, -2, 0, 1, 3, 62, 600, 700, -600, Inf, -Inf, NaN}}
Strings == {Str(cs) : cs \in {<<>>, <<0>>, <<1>>, <<0, 1>>, <<2>>, <<2, 0>>, <<12, 1>>}}
Arrays == {Arr(s) : s \in {<<>>, <<Null>>, <<Null, Null>>, <<Int32(1)>>, <<Int32(1), Int32(-1)>>,
                           <<Str(<<>>)>>, <<MinKey>>, <<Arr(<<>>)>>}}
Subdocs == {Doc(d) : d \in {<<>>, <<<<"a", Null>>>>, <<<<"a", Int32(1)>>>>, <<<<"b", Null>>>>,
                            <<<<"a", Int32(1)>>, <<"b", Int32(1)>>>>, <<<<"", Null>>>>}}
MCUniverse == {MinKey, MaxKey, Null, Bool(TRUE), Bool(FALSE), Date(-1), Date(3), Oid(1), Oid(2),
               Regex(<<2>>), Bin(<<1>>), Bin(<<2>>)} \cup Numbers \cup Strings \cup Arrays \cup Subdocs

\* 0000-03-01, 1900-03-01, 1970-01-01 and 2000-03-01, with the years around.
MCDays == UNION {(d - 800) .. (d + 800) : d \in {-719468, -25508, 0, 11017}}
=============================================================================
