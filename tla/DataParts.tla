------------------------------ MODULE DataParts ------------------------------
(***************************************************************************)
(* The bounds and the variables of the parts of the client data, and the   *)
(* parts that carry bytes: both directions of a COPY and the messages of   *)
(* the server.  A variable two parts have by the same name serves either.  *)
(***************************************************************************)
EXTENDS Naturals

CONSTANTS
  MaxRows, MaxTexts,                        \* Answers
  Limit, Columns, MaxWrites,                \* CopyWriter
  MaxCopyRows, MaxChunk, MaxAgain,          \* CopyReader, and Columns
  MaxItems, MaxStream,                      \* Backend
  MaxCount, MaxLen, MaxCalls,               \* Frontend
  Iterations, MaxFaults                     \* Scram

ASSUME BoundsAssumption ==
  /\ {MaxRows, MaxFaults} \cup Iterations \subseteq Nat
  /\ {MaxTexts, Limit, Columns, MaxWrites, MaxCopyRows, MaxChunk, MaxAgain, MaxItems,
      MaxStream, MaxCount, MaxLen, MaxCalls} \subseteq Nat \ {0}

VARIABLES
  part,  \* the module the behaviour is of
  calls, faults, wire, sent, damage, got, stored, phase,
  op, sql, todo, srv, outcome, replies, stage, seen, result,
  writer, rawBuf, pinned, rowBuf, sinkBuf, chan, at, item, then, written, copy,
  reader, chunks, tail, header, cur, last, ends,
  network, src, batches, failed,
  buffer, made, panicked,
  peer, client, net,
  text, config, meant,
  row,
  shape, ty

Writer == INSTANCE CopyWriter
Reader == INSTANCE CopyReader WITH MaxRows <- MaxCopyRows
Decoder == INSTANCE Backend
=============================================================================
