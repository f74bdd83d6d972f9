-------------------------------- MODULE Values --------------------------------
(***************************************************************************)
(* Values: a parameter of a Rust type is written for a type of the server  *)
(* (ToSql, postgres_protocol::types), comes back in a row, and is read as  *)
(* a Rust type (Row::try_get, FromSql).  A byte has four values, so that   *)
(* an i32 of four bytes is in -128..127; an integer keeps its width.       *)
(***************************************************************************)
EXTENDS Naturals, Integers, Sequences, SequencesExt

VARIABLES
  sent,  \* the parameter: its Rust type, its value, and the type it is for
  wire,  \* its bytes, or why there are none
  row,   \* the columns of the row that comes back
  got,   \* what try_get returned
  phase

vars == <<sent, wire, row, got, phase>>

-----------------------------------------------------------------------------
(* Numbers.                                                                *)

Pow4(n) == 4 ^ n
\* put_i8 to put_f64: n bytes, the largest first; a negative number as its complement.
Put(v, n) == [k \in 1..n |-> ((v % Pow4(n)) \div Pow4(n - k)) % 4]
Unsigned(b) == FoldLeft(LAMBDA acc, d : acc * 4 + d, 0, b)
Signed(b) == Unsigned(b) - IF b # <<>> /\ b[1] >= 2 THEN Pow4(Len(b)) ELSE 0

Is(v) == [r |-> "ok", v |-> v]
Error == [r |-> "error", v |-> <<>>]
WrongType == [r |-> "wrong type", v |-> <<>>]
Panic == [r |-> "panic", v |-> <<>>]

\* read_i8 to read_f64, which must use the bytes up; macaddr and uuid likewise.
\* (Prefix: a mutant that leaves bytes behind.)
ReadPrefix(b, n) == IF Len(b) >= n THEN Is(Signed(SubSeq(b, 1, n))) ELSE Error
ReadInt(b, n) == IF Len(b) = n THEN Is(Signed(b)) ELSE Error
ReadUInt(b, n) == IF Len(b) = n THEN Is(Unsigned(b)) ELSE Error
ReadFixed(b, n) == IF Len(b) = n THEN Is(b) ELSE Error
ReadBool(b) == IF Len(b) = 1 THEN Is(b[1] # 0) ELSE Error

None == [r |-> "null", v |-> <<>>]

\* What follows a length: absent if it is negative.
I32 == 4
From(b, i) == SubSeq(b, i, Len(b))
Len32(b) == Signed(SubSeq(b, 1, I32))
WithLen(b) == Put(Len(b), I32) \o b
Nullable(v) == IF v.r = "null" THEN Put(-1, I32) ELSE WithLen(v.v)

\* Values with their lengths, n of them and nothing behind: ArrayValues, HstoreEntries.
\* A short one is an error in an array, and a panic of split_at in an hstore.
ReadSized(b, n, short) ==
  LET F[i \in 1..Len(b) + 1, k \in Int] ==
        IF k = 0 THEN IF i > Len(b) THEN Is(<<>>) ELSE Error
        ELSE IF Len(b) < i - 1 + I32 THEN Error
        ELSE LET len == Len32(From(b, i))
                 size == IF len < 0 THEN 0 ELSE len
                 end == i + I32 + size
             IN IF Len(b) < end - 1 THEN short
                ELSE LET rest == F[end, k - 1]
                         v == IF len < 0 THEN None ELSE Is(SubSeq(b, i + I32, end - 1))
                     IN IF rest.r = "ok" THEN Is(<<v>> \o rest.v) ELSE rest
  IN F[1, n]

-----------------------------------------------------------------------------
(* Types of the server.                                                    *)

Fixed(name) ==
  CASE name \in {"bool", "char", "tinyint"} -> 1
    [] name = "int2" -> 2
    [] name \in {"int4", "oid", "date", "year", "sys.date"} -> 4
    [] name = "macaddr" -> 6
    [] OTHER -> 8

Elem(name) == [name |-> name, array |-> FALSE]
ArrayOf(name) == [name |-> name, array |-> TRUE]

\* Type oids, as far as an array carries that of its element.
Oid(name) == IF name = "int4" THEN 23 ELSE 25

\* read_codec_alias_for_mysql_type and param_codec_alias_for_mysql_type: the type of
\* PostgreSQL whose codec a type of MySQL mode may use.
ReadAlias(ty) == IF ty = Elem("sys.date") THEN {Elem("date")} ELSE {}
ParamAlias(ty) == ReadAlias(ty) \cup (IF ty = Elem("mediumint") THEN {Elem("int4")} ELSE {})

-----------------------------------------------------------------------------
(* Rust types: a base, alone or in an Option, a Vec of Options or [_; 2].  *)

Accepted(base) ==
  CASE base = "bool" -> {"bool"}
    [] base = "i8" -> {"char"}
    [] base = "i16" -> {"int2"}
    [] base = "i32" -> {"int4"}
    [] base = "u32" -> {"oid"}
    [] base = "PgLsn" -> {"pg_lsn"}
    [] base = "str" -> {"text", "ltree"}
    [] base = "bytes" -> {"bytea"}
    [] base = "mac" -> {"macaddr"}
    [] base = "Timestamp" -> {"timestamp"}
    [] base = "Date" -> {"date"}
    [] base = "map" -> {"hstore"}
    [] base = "ip" -> {"inet"}
    [] base = "point" -> {"point"}
    [] base = "Rect" -> {"box"}
    [] base = "path" -> {"path"}
    [] base = "range" -> {"int4range"}
    [] base = "bits" -> {"varbit"}
    [] base = "TinyInt" -> {"tinyint"}
    [] OTHER -> {"year"}

Bases == {"bool", "i8", "i16", "i32", "u32", "PgLsn", "str", "bytes", "mac", "Timestamp",
          "Date", "map", "ip", "point", "Rect", "path", "bits", "range", "TinyInt", "Year"}

Accepts(rust, ty) ==
  ty.name \in Accepted(rust.base) /\ ty.array = (rust.wrap \in {"vec", "array2"})

YearMin == 1
YearMax == 100

\* A Timestamp of a SystemTime: nanoseconds from 2000, two of them a microsecond, towards 2000.
Micros(ns) == IF ns < 0 THEN -((-ns) \div 2) ELSE ns \div 2

\* Date of a NaiveDate, and Timestamp: the ends of i32 and of i64 are the infinities.
PosInfinity == 127
NegInfinity == -128
WriteDate(d) ==
  Put(IF d.inf = 0 THEN d.days ELSE IF d.inf < 0 THEN NegInfinity ELSE PosInfinity, 4)
End == Pow4(8) \div 2
WriteTime(t) ==
  Put(IF t.inf = 0 THEN Micros(t.ns) ELSE IF t.inf < 0 THEN -End ELSE End - 1, 8)

\* to_sql of a base.  A string of an ltree has a version in front.
WriteText(name, v) == IF name = "ltree" THEN <<1>> \o v ELSE v
WriteMap(v) == Put(Len(v), I32) \o FlattenSeq([k \in DOMAIN v |-> WithLen(v[k].key)
                                                                  \o Nullable(v[k].value)])
WriteInet(v) == <<IF Len(v) = 4 THEN 2 ELSE 3, Len(v), 0, Len(v)>> \o v
WritePath(v) == <<v.closed>> \o Put(Len(v.points), I32) \o FlattenSeq(v.points)
\* A Rect is written from its lower left corner, and read whichever corner comes first.
WriteRect(v) == v.min \o v.max
WriteBits(v) == Put(v.len, I32) \o v.bytes

\* A tag, and a length and a value for each bound there is; range_to_sql of a type of the
\* application, whose values are i32.
Bound(kind, v) == [kind |-> kind, v |-> v]
NoBound == Bound("unbounded", 0)
RangeEmpty == 1
Inclusive == <<2, 4>>
Unbounded == <<8, 16>>
Has(tag, bit) == (tag \div bit) % 2 = 1
TagOf(bounds) ==
  FoldLeft(LAMBDA t, k : t + (CASE bounds[k].kind = "inclusive" -> Inclusive[k]
                                [] bounds[k].kind = "unbounded" -> Unbounded[k]
                                [] OTHER -> 0), 0, <<1, 2>>)
WriteBound(b) == IF b.kind = "unbounded" THEN <<>> ELSE WithLen(Put(b.v, 4))
WriteRange(v) ==
  IF v = <<>> THEN <<RangeEmpty>> ELSE <<TagOf(v)>> \o WriteBound(v[1]) \o WriteBound(v[2])

WriteBase(base, name, v) ==
  CASE base = "bool" -> Put(IF v THEN 1 ELSE 0, 1)
    [] base \in {"i8", "i16", "i32", "u32", "PgLsn", "TinyInt", "Year"} -> Put(v, Fixed(name))
    [] base = "Date" -> WriteDate(v)
    [] base = "Timestamp" -> WriteTime(v)
    [] base = "str" -> WriteText(name, v)
    [] base \in {"bytes", "mac", "point"} -> v
    [] base = "map" -> WriteMap(v)
    [] base = "ip" -> WriteInet(v)
    [] base = "path" -> WritePath(v)
    [] base = "Rect" -> WriteRect(v)
    [] base = "range" -> WriteRange(v)
    [] OTHER -> WriteBits(v)

\* from_sql of a base.
ReadText(name, b) ==
  IF name # "ltree" THEN Is(b)
  ELSE IF b # <<>> /\ b[1] = 1 THEN Is(Tail(b)) ELSE Error

ReadMap(b) ==
  LET pairs == ReadSized(From(b, I32 + 1), 2 * Len32(b), Panic)
  IN IF Len(b) < I32 \/ Len32(b) < 0 THEN Error
     ELSE IF pairs.r # "ok" THEN pairs
     ELSE IF \E k \in 1..Len32(b) : pairs.v[2 * k - 1].r = "null" THEN Error
     ELSE Is([k \in 1..Len32(b) |-> [key |-> pairs.v[2 * k - 1].v, value |-> pairs.v[2 * k]]])

ReadInet(b) ==
  LET size == IF b[1] = 2 THEN 4 ELSE 6
  IN IF Len(b) < 4 \/ b[1] \notin {2, 3} THEN Error
     ELSE IF b[2] <= size /\ b[4] = size /\ Len(b) = 4 + size THEN Is(From(b, 5)) ELSE Error

\* Points are of two numbers of eight bytes each; one cell stands for a point here.
ReadPath(b) ==
  IF Len(b) < 1 + I32 THEN Error
  ELSE LET n == Len32(Tail(b))
           points == From(b, I32 + 2)
       IN IF Len(points) # 2 * n THEN Error
          ELSE Is([closed |-> b[1], points |-> [k \in 1..n |-> SubSeq(points, 2*k - 1, 2*k)]])

ReadBits(b) ==
  IF Len(b) < I32 \/ Len32(b) < 0 \/ Len(b) - I32 # (Len32(b) + 1) \div 2 THEN Error
  ELSE Is([len |-> Len32(b), bytes |-> From(b, I32 + 1)])

ReadYear(b) ==
  LET r == ReadInt(b, 4)
  IN IF r.r = "ok" /\ r.v \in YearMin..YearMax THEN r ELSE Error

ReadDate(b) ==
  LET r == ReadInt(b, 4)
  IN IF r.r # "ok" THEN r
     ELSE IF r.v = PosInfinity THEN Is([inf |-> 1, days |-> 0])
     ELSE IF r.v = NegInfinity THEN Is([inf |-> -1, days |-> 0])
     ELSE Is([inf |-> 0, days |-> r.v])

ReadTime(b) ==
  LET r == ReadInt(b, 8)
  IN IF r.r # "ok" THEN r
     ELSE IF r.v = End - 1 THEN Is([inf |-> 1, ns |-> 0])
     ELSE IF r.v = -End THEN Is([inf |-> -1, ns |-> 0])
     ELSE Is([inf |-> 0, ns |-> 2 * r.v])

\* A corner of the box is two numbers of a byte.
Least(x, y) == IF x < y THEN x ELSE y
Most(x, y) == IF x < y THEN y ELSE x
ReadRect(b) ==
  IF Len(b) # 4 THEN Error
  ELSE Is([min |-> <<Least(b[1], b[3]), Least(b[2], b[4])>>,
           max |-> <<Most(b[1], b[3]), Most(b[2], b[4])>>])

\* A bound, and what follows it.
ReadBound(b, tag, k) ==
  LET len == Len32(b)
      size == IF len < 0 THEN 0 ELSE len
      kind == IF Has(tag, Inclusive[k]) THEN "inclusive" ELSE "exclusive"
      v == ReadInt(SubSeq(b, I32 + 1, I32 + size), 4)
  IN IF Has(tag, Unbounded[k]) THEN [r |-> "ok", v |-> NoBound, rest |-> b]
     ELSE IF Len(b) < I32 \/ Len(b) < I32 + size \/ v.r # "ok" THEN Error
     ELSE [r |-> "ok", v |-> Bound(kind, v.v), rest |-> From(b, I32 + size + 1)]
Bounds(lower, upper) ==
  IF upper.r = "ok" /\ upper.rest = <<>> THEN Is(<<lower.v, upper.v>>) ELSE Error
FromLower(tag, lower) ==
  IF lower.r = "ok" THEN Bounds(lower, ReadBound(lower.rest, tag, 2)) ELSE Error
ReadRange(b) ==
  IF b = <<>> THEN Error
  ELSE IF b[1] # RangeEmpty THEN FromLower(b[1], ReadBound(Tail(b), b[1], 1))
  ELSE IF Len(b) = 1 THEN Is(<<>>) ELSE Error

ReadBase(base, name, b) ==
  CASE base = "bool" -> ReadBool(b)
    [] base \in {"i8", "i16", "i32", "TinyInt"} -> ReadInt(b, Fixed(name))
    [] base \in {"u32", "PgLsn"} -> ReadUInt(b, Fixed(name))
    [] base = "Date" -> ReadDate(b)
    [] base = "Timestamp" -> ReadTime(b)
    [] base = "str" -> ReadText(name, b)
    [] base = "bytes" -> Is(b)
    [] base = "mac" -> ReadFixed(b, 6)
    [] base = "point" -> ReadFixed(b, 2)
    [] base = "map" -> ReadMap(b)
    [] base = "ip" -> ReadInet(b)
    [] base = "path" -> ReadPath(b)
    [] base = "bits" -> ReadBits(b)
    [] base = "Rect" -> ReadRect(b)
    [] base = "range" -> ReadRange(b)
    [] OTHER -> ReadYear(b)

-----------------------------------------------------------------------------
(* Wrappers.  A value is null, or one of the base; a list of these.        *)

\* Option writes nothing for None.
WriteOne(rust, ty, v) == IF v.r = "null" THEN v ELSE Is(WriteBase(rust.base, ty.name, v.v))

\* &[T]: one dimension, counted from one, and whether there are nulls.
WriteArray(rust, ty, v) ==
  LET elems == [k \in DOMAIN v |-> WriteOne(rust, ty, v[k])]
      nulls == IF \E k \in DOMAIN v : v[k].r = "null" THEN 1 ELSE 0
  IN Put(1, I32) \o Put(nulls, I32) \o Put(Oid(ty.name), I32) \o Put(Len(v), I32) \o Put(1, I32)
       \o FlattenSeq([k \in DOMAIN v |-> Nullable(elems[k])])

\* from_sql_nullable: only an Option takes a null.
ReadOne(rust, ty, v) ==
  IF v.r # "null" THEN ReadBase(rust.base, ty.name, v.v)
  ELSE IF rust.wrap = "plain" THEN Error ELSE None

\* array_from_sql: as many elements as the product of the dimensions, none if there are none.
Elements(b) ==
  LET dims == Len32(b)
      rest == From(b, 3 * I32 + 8 * dims + 1)
      n == IF dims = 0 THEN 0
           ELSE FoldLeft(LAMBDA acc, k : acc * Len32(From(b, 3 * I32 + 8 * (k - 1) + 1)), 1,
                         [k \in 1..dims |-> k])
  IN IF Len(b) < 3 * I32 \/ dims < 0 \/ Len(b) < 3 * I32 + 8 * dims THEN Error
     ELSE IF n < 0 THEN Error ELSE ReadSized(rest, n, Error)

\* Vec: one dimension at most.  [_; 2]: two elements.
AllRead(rust, read) ==
  IF \/ \E k \in DOMAIN read : read[k].r = "error"
     \/ rust.wrap = "array2" /\ Len(read) # 2
  THEN Error ELSE Is(read)
ReadElements(rust, ty, elems, dims) ==
  IF elems.r # "ok" \/ dims > 1 THEN Error
  ELSE AllRead(rust, [k \in DOMAIN elems.v |->
                       ReadOne([rust EXCEPT !.wrap = "option"], ty, elems.v[k])])
ReadArray(rust, ty, b) == ReadElements(rust, ty, Elements(b), Len32(b))

\* to_sql_checked, and for a value of a wrong type once more with the alias.
Write(rust, ty, v) ==
  IF rust.wrap \in {"vec", "array2"} THEN Is(WriteArray(rust, ty, v)) ELSE WriteOne(rust, ty, v)
Checked(rust, ty, v) ==
  IF Accepts(rust, ty) THEN Write(rust, ty, v)
  ELSE IF \E a \in ParamAlias(ty) : Accepts(rust, a)
    THEN Write(rust, CHOOSE a \in ParamAlias(ty) : Accepts(rust, a), v) ELSE WrongType

FromSql(rust, ty, v) ==
  IF v.r = "null" THEN IF rust.wrap = "option" THEN None ELSE Error
  ELSE IF rust.wrap \in {"vec", "array2"} THEN ReadArray(rust, ty, v.v) ELSE ReadOne(rust, ty, v)

-----------------------------------------------------------------------------
(* Rows.                                                                   *)

Fold(name) == IF name = "A" THEN "a" ELSE name

\* RowIndex: a place, or a name, and if no column has it, the first that differs in case.
\* (AnyCase: a mutant that does not look for the very name first.)
FirstAt(S) == CHOOSE k \in S : \A j \in S : k <= j
Exact(columns, name) == {k \in DOMAIN columns : columns[k].name = name}
AnyCase(columns, name) == {k \in DOMAIN columns : Fold(columns[k].name) = Fold(name)}
Named(columns, name) ==
  IF Exact(columns, name) # {} THEN Exact(columns, name) ELSE AnyCase(columns, name)
Index(columns, idx) ==
  IF idx.by = "place" THEN {idx.n} \cap DOMAIN columns ELSE Named(columns, idx.name)

\* Row::get_inner.
TryGet(columns, idx, rust) ==
  LET at == Index(columns, idx)
      column == columns[FirstAt(at)]
      types == IF Accepts(rust, column.ty) THEN {column.ty}
               ELSE {ty \in ReadAlias(column.ty) : Accepts(rust, ty)}
  IN IF at = {} THEN Error
     ELSE IF types = {} THEN WrongType
     ELSE FromSql(rust, CHOOSE ty \in types : TRUE, column.v)

-----------------------------------------------------------------------------
(* Values to send, and rows that come back.                                *)

BaseValues(base) ==
  CASE base = "bool" -> BOOLEAN
    [] base \in {"i8", "TinyInt"} -> {-2, 1}
    [] base = "i16" -> {-8, 7}
    [] base = "i32" -> {-128, -1, 127}
    [] base = "u32" -> {0, 255}
    [] base = "PgLsn" -> {65535}
    [] base = "str" -> {<<>>, <<1, 2>>}
    [] base \in {"bytes"} -> {<<0>>}
    [] base = "mac" -> {<<1, 2, 3, 1, 2, 3>>}
    [] base = "point" -> {<<1, 2>>}
    [] base = "Timestamp" -> {[inf |-> 0, ns |-> ns] : ns \in {-3, -2, 5, 65532}}
                             \cup {[inf |-> i, ns |-> 0] : i \in {-1, 1}}
    [] base = "Rect" -> {[min |-> <<0, 2>>, max |-> <<1, 3>>]}
    [] base = "range" -> {<<>>, <<NoBound, NoBound>>, <<Bound("inclusive", -7), NoBound>>,
                           <<NoBound, Bound("exclusive", 9)>>,
                           <<Bound("exclusive", 1), Bound("inclusive", 2)>>}
    [] base = "Date" -> {[inf |-> 0, days |-> d] : d \in {-127, 3}}
                        \cup {[inf |-> i, days |-> 0] : i \in {-1, 1}}
    [] base = "map" -> {<<>>, <<[key |-> <<1>>, value |-> None]>>,
                        <<[key |-> <<1>>, value |-> Is(<<2>>)],
                          [key |-> <<>>, value |-> Is(<<>>)]>>}
    [] base = "ip" -> {<<1, 2, 3, 1>>, <<1, 2, 3, 1, 2, 3>>}
    [] base = "path" -> {[closed |-> 1, points |-> <<<<1, 2>>, <<3, 1>>>>],
                         [closed |-> 0, points |-> <<>>]}
    [] base = "bits" -> {[len |-> 3, bytes |-> <<1, 2>>], [len |-> 0, bytes |-> <<>>]}
    [] OTHER -> {YearMin, YearMax}

Rust(wrap, base) == [wrap |-> wrap, base |-> base]
Lists == {<<>>, <<Is(-1)>>, <<None, Is(5)>>, <<Is(1), Is(2), Is(3)>>}

Types == {Elem(name) : name \in (UNION {Accepted(b) : b \in Bases}) \cup {"sys.date", "mediumint"}}
         \cup {ArrayOf("int4"), ArrayOf("text")}
\* What a value is read as: its own type, and a few others.
Readers == {Rust(wrap, b) : wrap \in {"plain", "option"},
                           b \in {sent.rust.base, "i32", "str", "Date"}}
           \cup {Rust("vec", "i32"), Rust("vec", "str"), Rust("array2", "i32")}

\* The type of a parameter, right or wrong.
TypesFor(rust) == {ty \in Types : Accepts(rust, ty) \/ \E a \in ParamAlias(ty) : Accepts(rust, a)}
                  \cup {Elem("int4"), ArrayOf("int4")}

Idle == <<>>
Sent(rust, v) == \E ty \in TypesFor(rust) : sent = [rust |-> rust, v |-> v, ty |-> ty]

Init ==
  /\ \/ \E base \in Bases, wrap \in {"plain", "option"} :
          \E x \in BaseValues(base) : Sent(Rust(wrap, base), Is(x))
     \/ \E base \in Bases : Sent(Rust("option", base), None)
     \/ \E l \in Lists : Sent(Rust("vec", "i32"), l)
     \/ Sent(Rust("vec", "str"), <<Is(<<1>>), None>>)
     \/ Sent(Rust("array2", "i32"), <<Is(1), Is(2)>>)
  /\ wire = Error
  /\ row = Idle
  /\ got = Idle
  /\ phase = "send"

Send ==
  /\ phase = "send"
  /\ wire' = Checked(sent.rust, sent.ty, sent.v)
  /\ phase' = IF wire'.r \in {"ok", "null"} THEN "stored" ELSE "refused"
  /\ UNCHANGED <<sent, row, got>>

\* The server gives back what it got; an empty array has no dimensions then.  A domain
\* comes back as its base.
Echo(ty, v) ==
  IF ty.array /\ Len32(From(v.v, 3 * I32 + 1)) = 0
    THEN Is(Put(0, I32) \o SubSeq(v.v, I32 + 1, 3 * I32)) ELSE v
Reported(ty) == IF ty = Elem("mediumint") THEN Elem("int4") ELSE ty
Column(name, ty, v) == [name |-> name, ty |-> ty, v |-> v]

Answer ==
  /\ phase = "stored"
  /\ LET a == Column("a", Reported(sent.ty), Echo(sent.ty, wire))
         other == Column("A", Elem("text"), Is(<<2>>))
     IN row' \in {<<other, a>>, <<a>>}
  /\ phase' = "row"
  /\ UNCHANGED <<sent, wire, got>>

\* Instead, the value is not what its type says: a byte short, or one over, or of more
\* dimensions.
Odd(ty, b) ==
  {SubSeq(b, 1, Len(b) - 1), Append(b, 1)}
  \cup (IF ty.array THEN {Put(2, I32) \o SubSeq(b, I32 + 1, 3 * I32 + 8) \o Put(1, I32)
                            \o Put(1, I32) \o From(b, 3 * I32 + 9)} ELSE {})
Oddly ==
  /\ phase = "stored" /\ wire.r = "ok" /\ wire.v # <<>>
  /\ \E b \in Odd(sent.ty, wire.v) : row' = <<Column("a", Reported(sent.ty), Is(b))>>
  /\ phase' = "odd row"
  /\ UNCHANGED <<sent, wire, got>>

Indexes ==
  {[by |-> "place", n |-> n] : n \in 1..3}
    \cup {[by |-> "name", name |-> n] : n \in {"a", "A", "c"}}

Get ==
  /\ phase \in {"row", "odd row"}
  /\ \E rust \in Readers, idx \in Indexes :
       got' = [rust |-> rust, idx |-> idx, is |-> TryGet(row, idx, rust)]
  /\ phase' = IF phase = "row" THEN "read" ELSE "oddly read"
  /\ UNCHANGED <<sent, wire, row>>

Next == Send \/ Answer \/ Oddly \/ Get
Spec == Init /\ [][Next]_vars

-----------------------------------------------------------------------------
(* Properties.                                                             *)

Mine == got.idx = [by |-> "place", n |-> Len(row)] \/ got.idx = [by |-> "name", name |-> "a"]
          \/ (Len(row) = 1 /\ got.idx = [by |-> "name", name |-> "A"])
SameBase == got.rust.base = sent.rust.base
\* The same value, but for a fraction of a microsecond.
Same(base, x, y) ==
  IF base = "Timestamp" THEN y = [x EXCEPT !.ns = 2 * Micros(x.ns)] ELSE x = y

\* A parameter comes back as the value it was when it is read as the type it had, or as an
\* Option of it, by its place or its name: a null only as an Option, and a list as a Vec
\* or as an array of just its length.  Read as any other type, or from a column that is
\* not there, it is an error (to_sql and from_sql, Row::try_get).
ReadBack ==
  phase = "read" /\ Mine =>
    IF ~SameBase THEN got.is.r = "wrong type"
    ELSE CASE sent.rust.wrap \in {"vec", "array2"} ->
                IF got.rust.wrap = "vec" \/ (got.rust.wrap = "array2" /\ Len(sent.v) = 2)
                  THEN got.is.r = "ok" /\ got.is.v = sent.v ELSE got.is.r \in {"error", "wrong type"}
           [] sent.v.r = "null" -> IF got.rust.wrap = "option" THEN got.is.r = "null"
                                   ELSE got.is.r \in {"error", "wrong type"}
           [] got.rust.wrap \in {"plain", "option"} ->
                got.is.r = "ok" /\ Same(sent.rust.base, sent.v.v, got.is.v)
           [] OTHER -> got.is.r = "wrong type"

\* Bytes that are not a value of their type are never read as one, but for strings and
\* bytes, of which every sequence is one (the checks for what is left in
\* postgres_protocol::types).
NothingMadeUp ==
  phase = "oddly read" /\ got.is.r = "ok" => got.rust.base \in {"str", "bytes"}
=============================================================================
