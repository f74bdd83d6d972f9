-------------------------------- MODULE Bytes --------------------------------
(***************************************************************************)
(* Reading values out of a sequence of bytes, from a position on: each     *)
(* operator returns [ok, v, at], at the position after the value.  A byte  *)
(* is a number and a fixed-width integer one byte.                         *)
(***************************************************************************)
EXTENDS Naturals, Integers, Sequences

Null == -1

Bad == [ok |-> FALSE, v |-> <<>>, at |-> 0]
Ok(v, i) == [ok |-> TRUE, v |-> v, at |-> i]

Byte(b, i) == IF i <= Len(b) THEN Ok(<<b[i]>>, i + 1) ELSE Bad

\* read_cstr, find_null: up to the first zero.
CStr(b, i) ==
  LET zeros == {k \in i..Len(b) : b[k] = 0}
      end == CHOOSE k \in zeros : \A j \in zeros : k <= j
  IN IF zeros = {} THEN Bad ELSE Ok(SubSeq(b, i, end - 1), end + 1)

\* read_all.
Rest(b, i) == Ok(SubSeq(b, i, Len(b)), Len(b) + 1)

\* A column format, a parameter's oid.
Number(b, i) == Byte(b, i)

\* A column of a row: a length, negative for null, and as many bytes.
ColumnAt(b, i) ==
  IF i > Len(b) THEN Bad
  ELSE IF b[i] < 0 THEN Ok(<<Null>>, i + 1)
  ELSE IF i + b[i] > Len(b) THEN Bad
  ELSE Ok(SubSeq(b, i + 1, i + b[i]), i + 1 + b[i])

\* A field of a RowDescription: its name, table, column, type, size, modifier, format.
Field(b, i) ==
  LET name == CStr(b, i)
  IN IF ~name.ok \/ name.at + 5 > Len(b) THEN Bad
     ELSE Ok(name.v \o <<0>> \o SubSeq(b, name.at, name.at + 5), name.at + 6)

\* A field of an error: its type and value.
ErrorField(b, i) ==
  LET value == CStr(b, i + 1)
  IN IF i > Len(b) \/ ~value.ok THEN Bad ELSE Ok(<<b[i]>> \o value.v, value.at)

\* One item more, when it is whole and so are the others.
Then(item, others) ==
  IF item.ok /\ others.ok THEN Ok(<<item.v>> \o others.v, others.at) ELSE Bad

\* One item and no other.
Alone(item) == IF item.ok THEN Ok(<<item.v>>, item.at) ELSE Bad

Item(kind, b, i) ==
  CASE kind = "column" -> ColumnAt(b, i)
    [] kind = "field" -> Field(b, i)
    [] kind = "error" -> ErrorField(b, i)
    [] kind = "name" -> CStr(b, i)
    [] OTHER -> Number(b, i)

\* Iterators that are given a count: n items and then the end of the body; and those
\* that end with a zero, the last byte of the body.
\* (NotDrained: a mutant that does not look for the end.)
First(kind, b, i, n) ==
  LET F[k \in 0..n] ==
        IF k = 0 THEN Ok(<<>>, i)
        ELSE LET x == Item(kind, b, F[k - 1].at)
             IN IF F[k - 1].ok /\ x.ok THEN Ok(Append(F[k - 1].v, x.v), x.at) ELSE Bad
  IN F[n]
NotDrained(kind, b, i, n) == [First(kind, b, i, n) EXCEPT !.at = Len(b) + 1]
Items(kind, b, i, n) ==
  LET items == First(kind, b, i, n) IN IF items.at = Len(b) + 1 THEN items ELSE Bad

Terminated(kind, b, i) ==
  LET F[p \in i..Len(b) + 1] ==
        IF p > Len(b) THEN Bad
        ELSE IF b[p] = 0 THEN IF p = Len(b) THEN Ok(<<>>, p + 1) ELSE Bad
        ELSE IF Item(kind, b, p).ok THEN Then(Item(kind, b, p), F[Item(kind, b, p).at]) ELSE Bad
  IN IF i > Len(b) THEN Bad ELSE F[i]
=============================================================================
