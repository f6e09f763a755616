-------------------------------- MODULE Bson --------------------------------
(***************************************************************************)
(* BSON values and the memcmp-sortable keys they are encoded to            *)
(* (keys/mod.rs).  Every component that compares values - index keys,      *)
(* filters, sorts, $min/$max, $group - compares these byte strings.        *)
(*                                                                         *)
(* A value is a record [t, n, c, a, d]: its type, a number, the characters *)
(* of a string, the elements of an array, the fields of a document; the    *)
(* fields a type does not use are empty.  Numbers are counted in halves,   *)
(* so that 1.5 is a double and 1 is all of int, long and double; an i32,   *)
(* an i64 and a u64 are scaled down to 4, 6 and 8 bits.                     *)
(***************************************************************************)
EXTENDS Integers, SequencesExt

Base(t) == [t |-> t, n |-> 0, c |-> <<>>, a |-> <<>>, d |-> <<>>]

Missing == Base("missing")     \* Option::None: the field is not there
Err == Base("err")             \* the Err side of a Result
Null == Base("null")
MinKey == Base("minKey")
MaxKey == Base("maxKey")
Int32(k) == [Base("int") EXCEPT !.n = 2 * k]
Int64(k) == [Base("long") EXCEPT !.n = 2 * k]
Double(h) == [Base("double") EXCEPT !.n = h]      \* h halves
Bool(b) == [Base("bool") EXCEPT !.n = IF b THEN 1 ELSE 0]
Date(ms) == [Base("date") EXCEPT !.n = ms]
Oid(k) == [Base("objectId") EXCEPT !.n = k]
Str(cs) == [Base("string") EXCEPT !.c = cs]
Regex(cs) == [Base("regex") EXCEPT !.c = cs]
Bin(cs) == [Base("binData") EXCEPT !.c = cs]
Arr(s) == [Base("array") EXCEPT !.a = s]
Doc(f) == [Base("object") EXCEPT !.d = f]      \* f: sequence of <<name, value>>

IsDoc(v) == v.t = "object"
IsArr(v) == v.t = "array"
IsNull(v) == v.t \in {"missing", "null"}       \* is_null_or_missing
IsNum(v) == v.t \in {"int", "long", "double"}
IsInt(v) == v.t \in {"int", "long"}
OrNull(v) == IF v.t = "missing" THEN Null ELSE v

(* The widths the code's integer types are scaled to, and the doubles that  *)
(* are not finite.                                                          *)
I32Max == 7
I64Max == 31
U64Max == 255
Inf == 2000
NaN == 3000
Finite(v) == v.n \notin {Inf, -Inf, NaN}
InI32(k) == -I32Max - 1 <= k /\ k <= I32Max
Wrap32(k) == ((k + I32Max + 1) % (2 * I32Max + 2)) - I32Max - 1
Wrap64(k) == ((k + I64Max + 1) % (2 * I64Max + 2)) - I64Max - 1
InI64(k) == Wrap64(k) = k

(* A double as an integer: truncated toward zero, clamped to the range.     *)
TruncHalf(h) == IF h >= 0 THEN h \div 2 ELSE -((-h) \div 2)
AsI64(h) == LET k == TruncHalf(h)
            IN IF k > I64Max THEN I64Max
               ELSE IF k < -I64Max - 1 THEN -I64Max - 1 ELSE k
Whole(h) == h % 2 = 0

-----------------------------------------------------------------------------
(* Documents: ordered maps of the bson crate.                               *)

FieldAt(d, k) == {i \in DOMAIN d : d[i][1] = k}
HasField(d, k) == FieldAt(d, k) # {}
Get(d, k) == IF HasField(d, k) THEN d[CHOOSE i \in FieldAt(d, k) : TRUE][2]
             ELSE Missing
Put(d, k, v) == IF HasField(d, k)
                THEN [i \in DOMAIN d |-> IF d[i][1] = k THEN <<k, v>> ELSE d[i]]
                ELSE Append(d, <<k, v>>)
Del(d, k) == LET Keep(e) == e[1] # k IN SelectSeq(d, Keep)

(* A segment of a path that parses as an array index (str::parse::<usize>). *)
SegIndex(s) == CASE s = "0" -> 1 [] s = "1" -> 2 [] OTHER -> 0

(* Paths are sequences of segments.  A path that goes through an array is   *)
(* followed only when the rest of it is one index.                          *)
RECURSIVE GetNestedField(_, _)
GetNestedField(d, path) ==
  LET v == Get(d, Head(path))
      rest == Tail(path)
  IN  IF rest = <<>> \/ v.t = "missing" THEN v
      ELSE CASE IsDoc(v) -> GetNestedField(v.d, rest)
             [] IsArr(v) -> IF Len(rest) = 1 /\ SegIndex(rest[1]) \in DOMAIN v.a
                            THEN v.a[SegIndex(rest[1])] ELSE Missing
             [] OTHER -> Missing

-----------------------------------------------------------------------------
(* Key encoding.  The type bytes are the code's; a number's two 8-byte      *)
(* parts and a length are one byte each here.                               *)

TypeByte(v) == CASE v.t = "minKey" -> 0
                 [] v.t \in {"null", "undefined"} -> 5
                 [] IsNum(v) -> 16
                 [] v.t = "symbol" -> 21
                 [] v.t \in {"string", "javascript"} -> 32
                 [] v.t = "object" -> 48
                 [] v.t = "array" -> 64
                 [] v.t = "binData" -> 80
                 [] v.t = "objectId" -> 96
                 [] v.t = "bool" -> 112
                 [] v.t = "date" -> 128
                 [] v.t = "timestamp" -> 133
                 [] v.t = "regex" -> 144
                 [] OTHER -> 255

Clamp(k) == IF k > U64Max THEN U64Max ELSE k

(* Faulty variant: the magnitude of a negative number is not inverted.              *)
EncodeNumberPlain(h) ==
  CASE h = NaN -> <<0, 0, 0>>
    [] h = 0 -> <<128, 0, 0>>
    [] h = Inf -> <<192, 255, 255>>
    [] h = -Inf -> <<64, 0, 0>>
    [] h > 0 /\ h # NaN /\ h # Inf -> <<192, Clamp(h \div 2), (h % 2) * 127>>
    [] OTHER -> <<64, Clamp((-h) \div 2), ((-h) % 2) * 127>>

(* encode_f64 and encode_i64: sign class, integer magnitude, fraction; the  *)
(* magnitude of a negative number is inverted.                              *)
EncodeNumber(h) ==
  CASE h = NaN -> <<0, 0, 0>>
    [] h = 0 -> <<128, 0, 0>>
    [] h = Inf -> <<192, 255, 255>>
    [] h = -Inf -> <<64, 0, 0>>
    [] h > 0 /\ h # NaN /\ h # Inf -> <<192, Clamp(h \div 2), (h % 2) * 127>>
    [] OTHER -> <<64, 255 - Clamp((-h) \div 2), 255 - ((-h) % 2) * 127>>

(* encode_string_bytes: 0 and 1 are escaped, 0 terminates.                  *)
RECURSIVE EncodeString(_)
EncodeString(cs) ==
  IF cs = <<>> THEN <<0>>
  ELSE (CASE Head(cs) = 0 -> <<1, 1>>
          [] Head(cs) = 1 -> <<1, 2>>
          [] OTHER -> <<Head(cs)>>) \o EncodeString(Tail(cs))

NameBytes(k) == CASE k = "" -> <<>>
                  [] k = "0" -> <<48>> [] k = "1" -> <<49>>
                  [] k = "_id" -> <<95>> [] k = "a" -> <<97>>
                  [] k = "b" -> <<98>> [] k = "c" -> <<99>>
                  [] OTHER -> <<122>>

RECURSIVE EncodeKey(_), EncodeDocument(_), EncodeArray(_)
EncodeKey(v) ==
  <<TypeByte(v)>> \o
  CASE IsNum(v) -> EncodeNumber(v.n)
    [] v.t \in {"string", "symbol", "javascript"} -> EncodeString(v.c)
    [] v.t = "regex" -> EncodeString(v.c) \o EncodeString(<<>>)
    [] v.t = "object" -> EncodeDocument(v.d)
    [] v.t = "array" -> EncodeArray(v.a)
    [] v.t = "binData" -> <<v.n, Len(v.c)>> \o v.c
    [] v.t \in {"bool", "objectId", "timestamp"} -> <<v.n>>
    [] v.t = "date" -> <<v.n + 128>>           \* sign bit flipped
    [] OTHER -> <<>>

EncodeDocument(d) ==
  IF d = <<>> THEN <<0>>
  ELSE EncodeString(NameBytes(d[1][1])) \o EncodeKey(d[1][2])
         \o EncodeDocument(Tail(d))

EncodeArray(a) ==
  IF a = <<>> THEN <<0>> ELSE EncodeKey(a[1]) \o <<0>> \o EncodeArray(Tail(a))

(* memcmp order on byte strings.                                            *)
ByteLess(x, y) ==
  \E i \in 1 .. Len(y) :
    /\ i <= Len(x) + 1
    /\ \A j \in 1 .. i - 1 : x[j] = y[j]
    /\ i = Len(x) + 1 \/ (i <= Len(x) /\ x[i] < y[i])

BsonEq(v, w) == EncodeKey(v) = EncodeKey(w)
BsonLess(v, w) == ByteLess(EncodeKey(v), EncodeKey(w))

(* encode_compound_key: the fields' encodings separated by 0x01, those of a *)
(* descending field inverted.  fields: sequence of <<value, ascending>>.    *)
CompoundSep == 1
Invert(bytes) == [i \in DOMAIN bytes |-> 255 - bytes[i]]
EncodeField(f) == IF f[2] THEN EncodeKey(f[1]) ELSE Invert(EncodeKey(f[1]))

RECURSIVE EncodeCompoundKey(_)
EncodeCompoundKey(fields) ==
  IF Len(fields) = 1 THEN EncodeField(fields[1])
  ELSE EncodeField(fields[1]) \o <<CompoundSep>> \o EncodeCompoundKey(Tail(fields))

(* The half-open range of the keys that continue prefix: prefix ends in the *)
(* separator, and its last byte is incremented for the end.                 *)
Next1(bytes) == [bytes EXCEPT ![Len(bytes)] = @ + 1]
InRange(k, lo, hi) == ~ByteLess(k, lo) /\ ByteLess(k, hi)

-----------------------------------------------------------------------------
(* Skipping over an encoded value: what the trailing _id is cut off with.   *)
(* Offsets are 1-based; 0 is the error.                                     *)

Raw(b, o, asc) == IF o \notin DOMAIN b THEN -1 ELSE IF asc THEN b[o] ELSE 255 - b[o]
CheckedSkip(b, o, n) == IF o + n <= Len(b) + 1 THEN o + n ELSE 0

RECURSIVE SkipString(_, _, _), SkipValue(_, _, _), SkipDocument(_, _, _),
          SkipArray(_, _, _)
SkipString(b, o, asc) ==
  CASE Raw(b, o, asc) = -1 -> 0
    [] Raw(b, o, asc) = 0 -> o + 1
    [] OTHER -> SkipString(b, o + 1, asc)

SkipValue(b, o, asc) ==
  LET ty == Raw(b, o, asc)
  IN  CASE ty \in {0, 5, 255} -> o + 1
        [] ty = 16 -> CheckedSkip(b, o + 1, 3)
        [] ty \in {21, 32} -> SkipString(b, o + 1, asc)
        [] ty = 48 -> SkipDocument(b, o + 1, asc)
        [] ty = 64 -> SkipArray(b, o + 1, asc)
        [] ty = 80 -> IF o + 2 \notin DOMAIN b THEN 0
                      ELSE CheckedSkip(b, o + 3, Raw(b, o + 2, asc))
        [] ty \in {96, 112, 128, 133} -> CheckedSkip(b, o + 1, 1)
        [] ty = 144 -> LET p == SkipString(b, o + 1, asc)
                       IN IF p = 0 THEN 0 ELSE SkipString(b, p, asc)
        [] OTHER -> 0

SkipDocument(b, o, asc) ==
  CASE Raw(b, o, asc) = -1 -> 0
    [] Raw(b, o, asc) = 0 -> o + 1
    [] OTHER -> LET p == SkipString(b, o, asc)
                    q == IF p = 0 THEN 0 ELSE SkipValue(b, p, asc)
                IN IF q = 0 THEN 0 ELSE SkipDocument(b, q, asc)

SkipArray(b, o, asc) ==
  CASE Raw(b, o, asc) = -1 -> 0
    [] Raw(b, o, asc) = 0 -> o + 1
    [] OTHER -> LET p == SkipValue(b, o, asc)
                IN IF p = 0 \/ Raw(b, p, asc) # 0 THEN 0
                   ELSE SkipArray(b, p + 1, asc)

(* compound_prefix_range_excluding_trailing_id: the key up to and with the  *)
(* separator in front of the _id, or <<>> for an error.                     *)
RECURSIVE SplitAt(_, _, _, _)
SplitAt(b, o, dirs, first) ==
  IF dirs = <<>>
  THEN IF o \in DOMAIN b /\ b[o] = CompoundSep THEN o ELSE 0
  ELSE LET p == IF first THEN o
                ELSE IF o \in DOMAIN b /\ b[o] = CompoundSep THEN o + 1 ELSE 0
           q == IF p = 0 THEN 0 ELSE SkipValue(b, p, Head(dirs))
       IN IF q = 0 THEN 0 ELSE SplitAt(b, q, Tail(dirs), FALSE)

PrefixExcludingId(b, dirs) == SubSeq(b, 1, SplitAt(b, 1, dirs, TRUE))
=============================================================================
