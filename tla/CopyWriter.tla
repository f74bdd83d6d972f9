------------------------------ MODULE CopyWriter ------------------------------
(***************************************************************************)
(* Data on its way into a COPY FROM STDIN: the buffers of                  *)
(* BinaryCopyInWriter, of the blocking CopyInWriter and of the CopyInSink  *)
(* under both, and the channel of one message whose other end is the       *)
(* connection task's.  (What is read of the answer is in Answers.)         *)
(*                                                                         *)
(* Bytes are tokens: the header of the binary format, the number of fields *)
(* of a row, the length of a field, the value written by the w-th call,    *)
(* and the trailer.  Limit stands for the 4096 bytes of the three buffers. *)
(***************************************************************************)
EXTENDS Naturals, Integers, Sequences, SequencesExt

CONSTANTS
  Limit,     \* tokens a buffer may hold and still wait
  Columns,   \* columns of the table
  MaxWrites  \* calls of write, after which one more of finish may be made

VARIABLES
  writer,  \* "raw": CopyInWriter, "binary": BinaryCopyInWriter
  rawBuf,  \* CopyInWriter::buf
  pinned,  \* LazyPin::pinned of its sink
  rowBuf,  \* BinaryCopyInWriter::buf
  sinkBuf, \* CopyInSink::buf
  chan,    \* the channel to the task
  at,      \* where the call in progress waits: "out" of any, "ready", "flush", "done"
  item,    \* what `send' holds until the channel has room
  then,    \* what follows the send
  calls,   \* calls of write, and of the binary writer's finish, so far
  written, \* what they wrote: rows, or the tokens of a raw writer
  faults,  \* what went wrong: "failed" conversions, "cancelled" calls, "dropped" bytes
  wire,    \* data the server was sent
  copy     \* the server's COPY: "open", "ended", "aborted"

vars == <<writer, rawBuf, pinned, rowBuf, sinkBuf, chan, at, item, then, calls,
          written, faults, wire, copy>>
sink == <<sinkBuf, chan>>
served == <<wire, copy>>

Token(t, n) == [t |-> t, n |-> n]
Header == Token("header", 0)
Trailer == Token("trailer", 0)
Null == -1
Empty == -2

Init ==
  /\ writer = "raw" /\ rawBuf = <<>> /\ pinned = FALSE /\ rowBuf = <<>>
  /\ sinkBuf = <<>> /\ chan = <<>> /\ at = "out" /\ item = <<>> /\ then = "out"
  /\ calls = 0 /\ written = <<>> /\ faults = {}
  /\ wire = <<>> /\ copy = "open"

-----------------------------------------------------------------------------
(* CopyInSink::send: poll_ready, start_send, poll_flush.                   *)

Send(data, next) == at' = "ready" /\ item' = data /\ then' = next

\* futures' channel of 1 for one sender: a second message parks it.
Room == Len(chan) <= 1

Push(type, data) == chan' = Append(chan, [type |-> type, data |-> data])

\* A large item goes at once, after what is buffered; a small one is buffered.
StartSend(data) ==
  IF Len(data) > Limit \/ Len(sinkBuf \o data) > Limit
    THEN Push("data", sinkBuf \o data) /\ sinkBuf' = <<>>
    ELSE sinkBuf' = sinkBuf \o data /\ UNCHANGED chan

Ready ==
  /\ at = "ready" /\ Room
  /\ StartSend(item)
  /\ at' = "flush" /\ item' = <<>>
  /\ UNCHANGED <<writer, rawBuf, pinned, rowBuf, then, calls, written, faults, served>>

Flush ==
  /\ at = "flush" /\ Room
  /\ IF sinkBuf # <<>>
       THEN Push("data", sinkBuf) /\ sinkBuf' = <<>> /\ UNCHANGED <<at, rowBuf, item, then>>
       ELSE UNCHANGED <<sink, rowBuf, item, then>> /\ at' = then
  /\ UNCHANGED <<writer, rawBuf, pinned, calls, written, faults, served>>

\* poll_finish, once flushed: no more data follows.
Done ==
  /\ at = "done" /\ Room
  /\ Push("done", <<>>) /\ at' = "finished"
  /\ UNCHANGED <<writer, rawBuf, pinned, rowBuf, sinkBuf, item, then, calls, written,
                 faults, served>>

\* The futures of the async writer may be dropped where they wait: what `send' held is gone.
Cancel ==
  /\ writer = "binary" /\ at \in {"ready", "flush", "done"}
  /\ faults' = faults \cup {"cancelled"} /\ at' = "out" /\ item' = <<>>
  /\ UNCHANGED <<writer, rawBuf, pinned, rowBuf, sink, then, calls, written, served>>

-----------------------------------------------------------------------------
(* The blocking CopyInWriter.                                              *)

\* flush_inner pins the sink, when there is anything to send.
FlushInner(next) ==
  IF rawBuf = <<>> THEN at' = next /\ UNCHANGED <<rawBuf, pinned, item, then>>
  ELSE Send(rawBuf, next) /\ rawBuf' = <<>> /\ pinned' = TRUE

RawData == [k \in 1..3 |-> Token("raw", calls + 1)]

RawWrite ==
  /\ writer = "raw" /\ at = "out" /\ copy = "open" /\ calls < MaxWrites
  /\ IF Len(rawBuf) > Limit
       THEN FlushInner("extend") /\ UNCHANGED <<calls, written>>
       ELSE /\ rawBuf' = rawBuf \o RawData /\ written' = written \o RawData
            /\ calls' = calls + 1
            /\ UNCHANGED <<at, pinned, item, then>>
  /\ UNCHANGED <<writer, rowBuf, sink, faults, served>>

\* The rest of a write that had to flush first.
RawExtend ==
  /\ at = "extend"
  /\ rawBuf' = rawBuf \o RawData /\ written' = written \o RawData
  /\ calls' = calls + 1 /\ at' = "out"
  /\ UNCHANGED <<writer, pinned, rowBuf, sink, item, then, faults, served>>

RawFlush ==
  /\ writer = "raw" /\ at = "out" /\ copy = "open" /\ rawBuf # <<>>
  /\ FlushInner("out")
  /\ UNCHANGED <<writer, rowBuf, sink, calls, written, faults, served>>

\* flush_inner, and the sink's finish, which flushes in turn.
\* (NoFlush: a mutant that forgets what is buffered.)
NoFlush ==
  /\ writer = "raw" /\ at = "out" /\ copy = "open"
  /\ at' = "flush" /\ then' = "done" /\ pinned' = TRUE /\ UNCHANGED <<rawBuf, item>>
  /\ UNCHANGED <<writer, rowBuf, sink, calls, written, faults, served>>
RawFinish ==
  /\ writer = "raw" /\ at = "out" /\ copy = "open"
  /\ IF rawBuf = <<>>
       THEN at' = "flush" /\ then' = "done" /\ pinned' = TRUE /\ UNCHANGED <<rawBuf, item>>
       ELSE FlushInner("done")
  /\ UNCHANGED <<writer, rowBuf, sink, calls, written, faults, served>>

-----------------------------------------------------------------------------
(* BinaryCopyInWriter, on a sink no byte has gone through.                 *)

BinaryNew ==
  /\ writer = "raw" /\ at = "out" /\ copy = "open" /\ ~pinned
  /\ writer' = "binary" /\ rowBuf' = <<Header>>
  /\ faults' = IF rawBuf = <<>> THEN faults ELSE faults \cup {"dropped"}
  /\ rawBuf' = <<>> /\ written' = <<>>
  /\ UNCHANGED <<pinned, sink, at, item, then, calls, served>>

\* A value is null or one token.
Rows == [1..Columns -> {Null, calls + 1}]

\* (EmptyNull: a mutant that writes a null as an empty value.)
EmptyNull(v) ==
  IF v = Null THEN <<Token("len", 0)>> ELSE <<Token("len", 1), Token("value", v)>>
Field(v) == IF v = Null THEN <<Token("len", -1)>> ELSE <<Token("len", 1), Token("value", v)>>
Fields(row, n) == FlattenSeq([c \in 1..n |-> Field(row[c])])
EncodedRow(row) == <<Token("count", Columns)>> \o Fields(row, Columns)

BinaryWrite ==
  /\ writer = "binary" /\ at = "out" /\ copy = "open" /\ calls < MaxWrites
  /\ calls' = calls + 1
  /\ \E row \in Rows :
       LET buf == rowBuf \o EncodedRow(row)
       IN /\ written' = Append(written, row)
          /\ IF Len(buf) > Limit THEN Send(buf, "out") /\ rowBuf' = <<>>
                                 ELSE rowBuf' = buf /\ UNCHANGED <<at, item, then>>
  /\ UNCHANGED <<writer, rawBuf, pinned, sink, faults, served>>

\* A value that fails to convert leaves the row so far, its length still 0 and
\* what it had written of itself in the buffer.
\* (Padded: a mutant that fills the row up.)
Padded(row, c, partial) ==
  <<Token("count", Columns)>> \o Fields(row, c - 1)
    \o [k \in 1..Columns - c + 1 |-> Token("len", 0)]
Remains(row, c, partial) ==
  <<Token("count", Columns)>> \o Fields(row, c - 1) \o <<Token("len", 0)>>
    \o (IF partial THEN <<Token("value", calls + 1)>> ELSE <<>>)

BinaryWriteFails ==
  /\ writer = "binary" /\ at = "out" /\ copy = "open" /\ calls < MaxWrites
  /\ calls' = calls + 1
  /\ \E row \in Rows, c \in 1..Columns, partial \in BOOLEAN :
       /\ rowBuf' = rowBuf \o Remains(row, c, partial)
       /\ faults' = faults \cup {IF c = Columns /\ ~partial THEN "last" ELSE "failed"}
  /\ UNCHANGED <<writer, rawBuf, pinned, sink, at, item, then, written, served>>

BinaryFinish ==
  /\ writer = "binary" /\ at = "out" /\ copy = "open" /\ calls <= MaxWrites
  /\ calls' = calls + 1
  /\ rowBuf' = <<>> /\ Send(Append(rowBuf, Trailer), "done")
  /\ UNCHANGED <<writer, rawBuf, pinned, sink, written, faults, served>>

-----------------------------------------------------------------------------
(* The task and the server.                                                *)

\* CopyInReceiver: the data, then CopyDone, or CopyFail when the sender is dropped.
Receive ==
  /\ chan # <<>> /\ copy = "open"
  /\ chan' = Tail(chan)
  /\ IF Head(chan).type = "done" THEN copy' = "ended" /\ UNCHANGED wire
                                 ELSE wire' = wire \o Head(chan).data /\ UNCHANGED copy
  /\ UNCHANGED <<writer, rawBuf, pinned, rowBuf, sinkBuf, at, item, then, calls,
                 written, faults>>

DropWriter ==
  /\ at = "out" /\ copy = "open" /\ chan = <<>>
  /\ copy' = "aborted"
  /\ UNCHANGED <<writer, rawBuf, pinned, rowBuf, sink, at, item, then, calls, written,
                 faults, wire>>

Next ==
  \/ Ready \/ Flush \/ Done \/ Cancel
  \/ RawWrite \/ RawExtend \/ RawFlush \/ RawFinish
  \/ BinaryNew \/ BinaryWrite \/ BinaryWriteFails \/ BinaryFinish
  \/ Receive \/ DropWriter

Spec == Init /\ [][Next]_vars

-----------------------------------------------------------------------------
(* What the server makes of the data.                                      *)

\* The values of n fields from k on, and where they end; 0 when there are no such.
FieldAt(d, k) == k \in DOMAIN d /\ d[k].t = "len"
SizeAt(d, k) == IF d[k].n \in {-1, 0} THEN 1 ELSE 2
WholeAt(d, k) ==
  FieldAt(d, k) /\ (SizeAt(d, k) = 2 => k + 1 \in DOMAIN d /\ d[k + 1].t = "value")
ValueAt(d, k) ==
  CASE d[k].n = -1 -> Null [] d[k].n = 0 -> Empty [] OTHER -> d[k + 1].n
NextField(d, f) ==
  IF WholeAt(d, f.next)
    THEN [next |-> f.next + SizeAt(d, f.next), values |-> Append(f.values, ValueAt(d, f.next))]
    ELSE [next |-> 0, values |-> <<>>]
FieldsAt(d, k, n) ==
  LET F[c \in 0..n] ==
        IF c = 0 THEN [next |-> k, values |-> <<>>] ELSE NextField(d, F[c - 1])
  IN F[n]

\* The rows from k on, up to what ends them: "good" is the trailer with nothing after it.
RowAfter(d, s) ==
  IF s.end # "none" THEN s
  ELSE IF s.next > Len(d) \/ d[s.next].t \notin {"count", "trailer"} THEN [s EXCEPT !.end = "bad"]
  ELSE IF d[s.next].t = "trailer"
         THEN [s EXCEPT !.end = IF s.next = Len(d) THEN "good" ELSE "bad"]
  ELSE LET f == FieldsAt(d, s.next + 1, Columns)
       IN IF f.next = 0 THEN [s EXCEPT !.end = "bad"]
          ELSE [next |-> f.next, rows |-> Append(s.rows, f.values), end |-> "none"]
RowsAt(d, k) ==
  LET R[n \in 0..Len(d)] ==
        IF n = 0 THEN [next |-> k, rows |-> <<>>, end |-> "none"] ELSE RowAfter(d, R[n - 1])
  IN R[Len(d)]

\* All of the data is a header, rows and a trailer.
Accepted == wire # <<>> /\ wire[1] = Header /\ RowsAt(wire, 2).end = "good"
Decoded == RowsAt(wire, 2).rows
Inserted == writer = "binary" /\ copy = "ended" /\ Accepted

\* s is what is left of t when some of its elements are taken out.
IsSubsequence(s, t) ==
  \E f \in [DOMAIN s -> DOMAIN t] :
    /\ \A i, j \in DOMAIN s : i < j => f[i] < f[j]
    /\ \A i \in DOMAIN s : s[i] = t[f[i]]

-----------------------------------------------------------------------------
(* Properties.                                                             *)

\* However the three buffers fill and flush and wherever the channel makes a call wait,
\* the server is sent what was written, once and in order: all of it when the copy is
\* finished, and the same rows, nulls in place, in the binary format.
WrittenArrives ==
  copy = "ended" /\ faults = {} =>
    IF writer = "raw" THEN wire = written ELSE Inserted /\ Decoded = written

\* A write that is cancelled where it waits loses rows but never splits, reorders
\* or repeats any: what the server inserts are rows that were written.  A conversion
\* that fails in the middle of a row is not taken for one: the server refuses the copy.
\* Only one that fails in the last column, before it has written anything, goes unnoticed,
\* as a row that ends in an empty value.
OnlyWholeRows ==
  Inserted =>
    /\ faults \subseteq {"cancelled"} => IsSubsequence(Decoded, written)
    /\ "failed" \in faults => {"cancelled", "last"} \cap faults # {}
=============================================================================
