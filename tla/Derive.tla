-------------------------------- MODULE Derive --------------------------------
(***************************************************************************)
(* Derive: what #[derive(ToSql, FromSql)] generates, for a struct, an      *)
(* enum and a tuple struct of one field, against types as the server       *)
(* describes them.  The description is the one of the time of the prepare; *)
(* the type may be altered before a value of it comes back.  An i32 and a  *)
(* length are one cell of a value here.                                    *)
(***************************************************************************)
EXTENDS Naturals, Integers, Sequences, SequencesExt

VARIABLES
  shape,   \* the Rust type: "Pair", "Mood", "Loose", "Wrap" or "Clear"
  ty,      \* the type the parameter has, as it was described
  sent,    \* the value
  wire,    \* its bytes, or why there are none
  stored,  \* the type on the server, and a value of it
  got,     \* what from_sql made of that
  phase

vars == <<shape, ty, sent, wire, stored, got, phase>>

Shapes == {"Pair", "Mood", "Loose", "Wrap", "Clear"}
Is(v) == [r |-> "ok", v |-> v]
None == [r |-> "null", v |-> <<>>]
Error == [r |-> "error", v |-> <<>>]
Panic == [r |-> "panic", v |-> <<>>]

-----------------------------------------------------------------------------
(* Types, as prepare describes them.                                       *)

Scalar(name, oid) == [name |-> name, oid |-> oid, kind |-> "simple"]
INT4 == Scalar("int4", 23)
INT8 == Scalar("int8", 20)
TEXT == Scalar("text", 25)
Field(name, type) == [name |-> name, ty |-> type]
Composite(name, fields) == [name |-> name, oid |-> 1, kind |-> "composite", fields |-> fields]
Enumeration(name, variants) == [name |-> name, oid |-> 2, kind |-> "enum", variants |-> variants]
Domain(name, type) == [name |-> name, oid |-> 3, kind |-> "domain", of |-> type]

\* struct Pair { x: i32, y: Option<String> };  enum Mood { Sad, Ok }, Loose the same with
\* allow_mismatch;  struct Wrap(i32);  struct Clear(i32) with transparent.
PairFields == {"x", "y"}
Variants == {"sad", "ok"}
FieldAccepts(name, type) == type.oid = IF name = "x" THEN INT4.oid ELSE TEXT.oid

-----------------------------------------------------------------------------
(* accepts.                                                                *)

composite_body(name, type) ==
  /\ type.name = name /\ type.kind = "composite"
  /\ Len(type.fields) = 2
  /\ \A k \in DOMAIN type.fields :
       type.fields[k].name \in PairFields /\ FieldAccepts(type.fields[k].name, type.fields[k].ty)
enum_body(name, type, mismatch) ==
  /\ type.name = name
  /\ mismatch \/ (type.kind = "enum" /\ Len(type.variants) = 2
                    /\ \A k \in DOMAIN type.variants : type.variants[k] \in Variants)
domain_body(name, type) ==
  type.name = name /\ type.kind = "domain" /\ type.of.oid = INT4.oid

ToSqlAccepts(s, type) ==
  CASE s = "Pair" -> composite_body("pair", type)
    [] s = "Mood" -> enum_body("mood", type, FALSE)
    [] s = "Loose" -> enum_body("mood", type, TRUE)
    [] s = "Wrap" -> domain_body("wrap", type)
    [] OTHER -> type.oid = INT4.oid
\* Unlike ToSql, FromSql takes for a domain also the type it is over.
FromSqlAccepts(s, type) == ToSqlAccepts(s, type) \/ (s = "Wrap" /\ type.oid = INT4.oid)

-----------------------------------------------------------------------------
(* to_sql and from_sql.                                                    *)

\* The value of a field: of x a number, of y a text or none.
SizedField(field, v) ==
  LET value == v[field.name]
  IN <<field.ty.oid>> \o IF value.r = "null" THEN <<-1>> ELSE <<Len(value.v)>> \o value.v

ToSql(s, type, v) ==
  CASE s = "Pair" -> IF type.kind # "composite" THEN Panic
                     ELSE Is(<<Len(type.fields)>>
                             \o FlattenSeq([k \in DOMAIN type.fields |->
                                              SizedField(type.fields[k], v)]))
    [] s = "Wrap" -> IF type.kind # "domain" THEN Panic ELSE Is(v.v)
    [] OTHER -> Is(v.v)

\* from_sql_nullable of a field: x is no Option, and a cell.
ReadValue(name, v) ==
  IF name = "x" /\ (v.r = "null" \/ Len(v.v) # 1) THEN Error ELSE v

\* The field of the struct a field of the type is for: the one of its name.
\* (ByPlace: a mutant that goes by its place.)
ByPlace(fields, k) == <<"x", "y">>[k]
Match(fields, k) == fields[k].name

\* One field after another.
ReadField(acc, fields, k) ==
  LET len == acc.rest[2]
      size == IF len < 0 THEN 0 ELSE len
      v == ReadValue(Match(fields, k), IF len < 0 THEN None
                                         ELSE Is(SubSeq(acc.rest, 3, 2 + size)))
  IN IF acc.r # "ok" THEN acc
     ELSE IF Len(acc.rest) < 2 \/ acc.rest[1] # fields[k].ty.oid THEN [acc EXCEPT !.r = "error"]
     ELSE IF Len(acc.rest) < 2 + size \/ v.r = "error" THEN [acc EXCEPT !.r = "error"]
     ELSE [acc EXCEPT !.rest = SubSeq(acc.rest, 3 + size, Len(acc.rest)),
                      !.fields[Match(fields, k)] = v]

ReadComposite(fields, b) ==
  LET start == [r |-> "ok", rest |-> Tail(b), fields |-> [x |-> Error, y |-> Error]]
      all == FoldLeft(LAMBDA acc, k : ReadField(acc, fields, k), start,
                      [k \in DOMAIN fields |-> k])
  IN IF b = <<>> THEN Error
     ELSE IF b[1] # Len(fields) THEN Error
     ELSE IF all.r # "ok" THEN Error
     ELSE IF Error \in {all.fields.x, all.fields.y} THEN Panic ELSE Is(all.fields)

FromSql(s, type, b) ==
  CASE s = "Pair" -> IF type.kind # "composite" THEN Panic ELSE ReadComposite(type.fields, b)
    [] s \in {"Mood", "Loose"} -> IF b[1] \in Variants THEN Is(b) ELSE Error
    [] OTHER -> IF Len(b) = 1 THEN Is(b) ELSE Error

-----------------------------------------------------------------------------
(* A parameter and a row.                                                  *)

Pairs == {[x |-> Is(<<7>>), y |-> y] : y \in {None, Is(<<>>), Is(<<1, 2>>)}}
ValuesOf(s) ==
  CASE s = "Pair" -> Pairs
    [] s \in {"Mood", "Loose"} -> {Is(<<v>>) : v \in Variants}
    [] OTHER -> {Is(<<7>>)}

Types ==
  {Composite("pair", <<Field("x", INT4), Field("y", TEXT)>>),
   Composite("pair", <<Field("y", TEXT), Field("x", INT4)>>),
   Composite("pair", <<Field("x", INT4), Field("z", TEXT)>>),
   Composite("pair", <<Field("x", INT8), Field("y", TEXT)>>),
   Composite("pair", <<Field("x", INT4)>>),
   Composite("other", <<Field("x", INT4), Field("y", TEXT)>>),
   Enumeration("mood", <<"ok", "sad">>), Enumeration("mood", <<"sad", "glad">>),
   Enumeration("mood", <<"sad", "ok", "glad">>), Enumeration("other", <<"sad", "ok">>),
   Domain("wrap", INT4), Domain("wrap", INT8), Domain("other", INT4), INT4, INT8}

Init ==
  /\ shape \in Shapes
  /\ ty \in Types
  /\ \E v \in ValuesOf(shape) : sent = v
  /\ wire = <<>> /\ stored = <<>> /\ got = <<>>
  /\ phase = "send"

\* to_sql_checked.
Send ==
  /\ phase = "send"
  /\ wire' = IF ToSqlAccepts(shape, ty) THEN ToSql(shape, ty, sent) ELSE Error
  /\ phase' = IF wire'.r = "ok" THEN "stored" ELSE "refused"
  /\ UNCHANGED <<shape, ty, sent, stored, got>>

\* The server stores it, unless it has no such variant, and gives it back: a domain as what
\* it is over.
Known == ty.kind = "enum" => \E k \in DOMAIN ty.variants : <<ty.variants[k]>> = wire.v
Answer ==
  /\ phase = "stored" /\ Known
  /\ stored' = [ty |-> IF ty.kind = "domain" THEN ty.of ELSE ty, v |-> wire.v,
                altered |-> FALSE]
  /\ phase' = "row"
  /\ UNCHANGED <<shape, ty, sent, wire, got>>

\* The composite was altered meanwhile: an attribute dropped, another type, one more.
Altered(b) ==
  {<<1>> \o SubSeq(b, 2, Len(b)), [b EXCEPT ![1] = 3] \o <<INT4.oid, 1, 5>>}
  \cup {[b EXCEPT ![2] = INT8.oid]}
Alter ==
  /\ phase = "stored" /\ ty.kind = "composite"
  /\ \E b \in Altered(wire.v) : stored' = [ty |-> ty, v |-> b, altered |-> TRUE]
  /\ phase' = "row"
  /\ UNCHANGED <<shape, ty, sent, wire, got>>

\* An enum of the server's may have a variant the Rust type does not know.
Unknown ==
  /\ phase = "stored" /\ ty.kind = "enum"
  /\ \E k \in DOMAIN ty.variants :
       stored' = [ty |-> ty, v |-> <<ty.variants[k]>>, altered |-> <<ty.variants[k]>> # wire.v]
  /\ phase' = "row"
  /\ UNCHANGED <<shape, ty, sent, wire, got>>

Read ==
  /\ phase = "row"
  /\ got' = IF FromSqlAccepts(shape, stored.ty) THEN FromSql(shape, stored.ty, stored.v)
            ELSE Error
  /\ phase' = "read"
  /\ UNCHANGED <<shape, ty, sent, wire, stored>>

Next == Send \/ Answer \/ Alter \/ Unknown \/ Read
Spec == Init /\ [][Next]_vars

-----------------------------------------------------------------------------
(* Properties.                                                             *)

\* A derived type never gets as far as its unreachable!() or unwrap(), whatever the type it
\* is used with, and what it wrote it reads back as it was, whatever the order of the
\* attributes on the server; a value of a composite altered since, or of a variant the enum
\* has not, is an error (postgres-derive: accepts, to_sql and from_sql agree).
DerivedKept ==
  /\ phase = "refused" => wire.r # "panic"
  /\ phase = "read" =>
       IF ~stored.altered THEN got.r = "ok" /\ got.v = (IF shape = "Pair" THEN sent ELSE sent.v)
       ELSE IF shape = "Pair" THEN got.r = "error"
       ELSE got.r = "error" \/ got.v = stored.v
=============================================================================
