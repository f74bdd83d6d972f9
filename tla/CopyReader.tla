------------------------------ MODULE CopyReader ------------------------------
(***************************************************************************)
(* Data on its way out of a COPY TO STDOUT: the CopyOutStream, the         *)
(* BinaryCopyOutStream that reads rows from it and the blocking            *)
(* CopyOutReader that reads bytes.  The server sends one row in a CopyData *)
(* and the header of the binary format with the first; one of its chunks   *)
(* may be damaged.  Tokens are as in CopyWriter; the header's token is its *)
(* magic value, "flags" tells whether rows have oids, and the extension is *)
(* a length and as many tokens.                                            *)
(***************************************************************************)
EXTENDS Naturals, Integers, Sequences, SequencesExt

CONSTANTS
  Columns,  \* columns the caller expects
  MaxRows,  \* rows the server sends
  MaxChunk, \* bytes of a chunk, when it is bytes that are read
  MaxAgain  \* calls after the one that reported the end

VARIABLES
  reader,  \* "binary" or "bytes"
  sent,    \* what the server sends: rows, or bytes
  damage,  \* the chunk that is damaged, or 0
  chunks,  \* CopyData not read
  tail,    \* after them: CopyDone, CommandComplete, ReadyForQuery, nothing
  header,  \* BinaryCopyOutStream::header: "none", "plain", "oids"
  cur,     \* CopyOutReader::cur
  got,     \* rows or bytes returned
  last,    \* what the last call returned: "none", "item", "end", "error"
  ends     \* calls that returned the end, and calls since

vars == <<reader, sent, damage, chunks, tail, header, cur, got, last, ends>>

Token(t, n) == [t |-> t, n |-> n]
Null == -1
Short == -2

-----------------------------------------------------------------------------
(* The server.                                                             *)

\* n rows of distinct values, any of them null.
RowSets(n) ==
  {[r \in 1..n |-> [c \in 1..Columns |-> IF <<r, c>> \in nulls THEN Null ELSE Columns * r + c]] :
     nulls \in SUBSET ((1..n) \X (1..Columns))}

Field(v) == IF v = Null THEN <<Token("len", -1)>> ELSE <<Token("len", 1), Token("value", v)>>

\* A row's oid is its first field and not in its count of fields.
RowChunk(row, oids) ==
  <<Token("count", IF oids THEN Columns - 1 ELSE Columns)>>
    \o FlattenSeq([c \in 1..Columns |-> Field(row[c])])

HeaderTokens(oids, extension) ==
  <<Token("magic", 0), Token("flags", IF oids THEN 1 ELSE 0), Token("extension", extension)>>
    \o [k \in 1..extension |-> Token("value", 0)]

Trailer == <<Token("count", -1)>>

BinaryChunks(rows, oids, extension) ==
  LET body == [r \in 1..Len(rows) |-> RowChunk(rows[r], oids)] \o <<Trailer>>
  IN [body EXCEPT ![1] = HeaderTokens(oids, extension) \o @]

\* A chunk cut short, one of another format, one with a field too many.
Damaged(chunk) ==
  {SubSeq(chunk, 1, Len(chunk) - 1)}
    \cup {[k \in DOMAIN chunk |-> IF chunk[k].t = "magic" THEN Token("value", 0) ELSE chunk[k]]}
    \cup {[k \in DOMAIN chunk |->
             IF chunk[k].t = "count" THEN Token("count", chunk[k].n + 1) ELSE chunk[k]]}

InitBinary ==
  /\ reader = "binary"
  /\ \E n \in 0..MaxRows, oids \in BOOLEAN, extension \in 0..1 :
       \E rows \in RowSets(n) :
         LET whole == BinaryChunks(rows, oids, extension)
         IN /\ sent = rows
            /\ \/ damage = 0 /\ chunks = whole
               \/ /\ damage \in DOMAIN whole
                  /\ \E bad \in Damaged(whole[damage]) \ {whole[damage]} :
                       chunks = [whole EXCEPT ![damage] = bad]

\* Bytes come in chunks of any size, none included.
InitBytes ==
  /\ reader = "bytes" /\ damage = 0
  /\ \E n \in 0..MaxRows : \E sizes \in [1..n -> 0..MaxChunk] :
       chunks = [k \in 1..n |-> [i \in 1..sizes[k] |-> <<k, i>>]]
  /\ sent = FlattenSeq(chunks)

Init ==
  /\ InitBinary \/ InitBytes
  /\ tail = <<"CopyDone", "CommandComplete", "ReadyForQuery">>
  /\ header = "none" /\ cur = <<>> /\ got = <<>> /\ last = "none" /\ ends = 0

-----------------------------------------------------------------------------
(* CopyOutStream.                                                          *)

\* The end is CopyDone; any other message after it is unexpected, and the end
\* of the channel is an error too.
SkipTail == tail' = IF tail = <<>> THEN <<>> ELSE Tail(tail)

-----------------------------------------------------------------------------
(* BinaryCopyOutStream::poll_next: one row from each chunk.                *)

Has(c, k) == k <= Len(c)

\* Where the header ends, or 0 for one that is short or of another format.
HeaderEnd(c) ==
  IF Len(c) < 3 \/ c[1].t # "magic" THEN 0
  ELSE IF Has(c, 3 + c[3].n) THEN 3 + c[3].n ELSE 0

HeaderOf(c) == IF c[2].n = 1 THEN "oids" ELSE "plain"

\* What one field at position k takes and holds; Short, and nothing taken, when it is not whole.
FieldWhole(c, k) == Has(c, k) /\ (c[k].n # -1 => Has(c, k + 1))
FieldSize(c, k) == IF ~FieldWhole(c, k) THEN 0 ELSE IF c[k].n = -1 THEN 1 ELSE 2
FieldValue(c, k) ==
  IF ~FieldWhole(c, k) THEN Short ELSE IF c[k].n = -1 THEN Null ELSE c[k + 1].n

\* The values of the fields from position k on, as many as there are columns.
Fields(c, k) ==
  LET F[n \in 0..Columns] ==
        IF n = 0 THEN [at |-> k, values |-> <<>>]
        ELSE [at |-> F[n - 1].at + FieldSize(c, F[n - 1].at),
              values |-> Append(F[n - 1].values, FieldValue(c, F[n - 1].at))]
  IN F[Columns].values

\* The row at position k of chunk c: "end", "error" or the values.
\* (NoOidColumn: a mutant that does not count the oid.)
NoOidColumn(c, k, h) ==
  IF ~Has(c, k) THEN [t |-> "error", values |-> <<>>]
  ELSE IF c[k].n = -1 THEN [t |-> "end", values |-> <<>>]
  ELSE IF c[k].n # Columns THEN [t |-> "error", values |-> <<>>]
  ELSE [t |-> "item", values |-> Fields(c, k + 1)]
RowAt(c, k, h) ==
  IF ~Has(c, k) THEN [t |-> "error", values |-> <<>>]
  ELSE IF c[k].n = -1 THEN [t |-> "end", values |-> <<>>]
  ELSE IF c[k].n + (IF h = "oids" THEN 1 ELSE 0) # Columns
         THEN [t |-> "error", values |-> <<>>]
  ELSE LET values == Fields(c, k + 1)
       IN IF Short \in ToSet(values) THEN [t |-> "error", values |-> <<>>]
          ELSE [t |-> "item", values |-> values]

Reports(t) ==
  /\ last' = t
  /\ ends' = IF t = "end" \/ ends > 0 THEN ends + 1 ELSE ends

NextRow ==
  /\ reader = "binary" /\ ends <= MaxAgain /\ chunks # <<>>
  /\ LET c == Head(chunks)
         start == IF header = "none" THEN HeaderEnd(c) + 1 ELSE 1
         h == IF header = "none" THEN HeaderOf(c) ELSE header
     IN IF header = "none" /\ HeaderEnd(c) = 0
          THEN Reports("error") /\ UNCHANGED <<header, got>>
          ELSE /\ header' = h
               /\ Reports(RowAt(c, start, h).t)
               /\ got' = IF RowAt(c, start, h).t = "item"
                           THEN Append(got, RowAt(c, start, h).values) ELSE got
  /\ chunks' = Tail(chunks)
  /\ UNCHANGED <<reader, sent, damage, tail, cur>>

\* The stream's own end comes where a row or the trailer was due.
NextRowClosed ==
  /\ reader = "binary" /\ ends <= MaxAgain /\ chunks = <<>>
  /\ last # "error" \/ tail # <<>>
  /\ Reports("error") /\ SkipTail
  /\ UNCHANGED <<reader, sent, damage, chunks, header, cur, got>>

-----------------------------------------------------------------------------
(* CopyOutReader::read, through fill_buf and consume.                      *)

\* fill_buf: the chunk there is, or the next one that is not empty.
\* (AnyChunk: a mutant that takes an empty one.)
AnyChunk == 0
Skipped == LET full == {k \in DOMAIN chunks : chunks[k] # <<>>}
           IN IF full = {} THEN Len(chunks) ELSE (CHOOSE k \in full : \A j \in full : k <= j) - 1

Fill ==
  LET rest == SubSeq(chunks, Skipped + 1, Len(chunks))
  IN IF cur # <<>> THEN [cur |-> cur, rest |-> chunks]
     ELSE IF rest = <<>> THEN [cur |-> <<>>, rest |-> <<>>]
     ELSE [cur |-> Head(rest), rest |-> Tail(rest)]

Read(n) ==
  /\ reader = "bytes" /\ ends <= MaxAgain
  /\ chunks' = Fill.rest
  /\ IF Fill.cur # <<>>
       THEN LET k == IF n < Len(Fill.cur) THEN n ELSE Len(Fill.cur)
            IN /\ cur' = SubSeq(Fill.cur, k + 1, Len(Fill.cur))
               /\ got' = got \o SubSeq(Fill.cur, 1, k)
               /\ Reports("item") /\ UNCHANGED tail
       ELSE /\ UNCHANGED <<cur, got>> /\ SkipTail
            /\ Reports(IF tail # <<>> /\ Head(tail) = "CopyDone" THEN "end" ELSE "error")
  /\ UNCHANGED <<reader, sent, damage, header>>

Next ==
  \/ NextRow
  \/ NextRowClosed
  \/ \E n \in 1..2 : Read(n)

Spec == Init /\ [][Next]_vars

-----------------------------------------------------------------------------
(* Properties.                                                             *)

\* The rows, or bytes, that come in good chunks.
Good == [k \in 1..Len(sent) - (IF damage \in DOMAIN sent THEN 1 ELSE 0) |->
           IF damage = 0 \/ k < damage THEN sent[k] ELSE sent[k + 1]]

\* The rows returned are the rows sent, nulls in place, whatever the header says of
\* oids and extensions; one in a damaged chunk is an error and nothing else.  Bytes come as
\* they were sent, however they are cut into chunks and reads.  The end is not reported before
\* the last of either.
ReadAsSent == IsPrefix(got, Good) /\ (last = "end" => got = Good)
=============================================================================
