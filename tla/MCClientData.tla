---------------------------- MODULE MCClientData ----------------------------
(***************************************************************************)
(* The parts of the client that wait for nobody but the one they serve,    *)
(* each an instance for TLC of its own and all in one run: reading the     *)
(* answer to a request, writing and reading a COPY, the bytes of messages  *)
(* both ways, the exchange of a password, connection strings, and values.  *)
(* A behaviour is one of one part; the variables of the others stay empty. *)
(***************************************************************************)
EXTENDS DataParts

answersOnly == <<op, sql, todo, srv, outcome, replies, stage, seen, result>>
writerOnly ==
  <<writer, rawBuf, pinned, rowBuf, sinkBuf, chan, at, item, then, written, copy>>
readerOnly == <<reader, chunks, tail, header, cur, last, ends>>
backendOnly == <<network, src, batches, failed>>
frontendOnly == <<buffer, made, panicked>>
scramOnly == <<peer, client, net>>
configOnly == <<text, config, meant>>
valuesOnly == <<row>>
deriveOnly == <<shape, ty>>

-----------------------------------------------------------------------------
(* The other parts.                                                        *)

Answer == INSTANCE Answers
Encoder == INSTANCE Frontend
Login == INSTANCE Scram
Setup == INSTANCE Config
Value == INSTANCE Values
Derived == INSTANCE Derive

\* What a step of a part leaves alone.
Rest_answers ==
  <<writerOnly, readerOnly, backendOnly, frontendOnly, scramOnly, configOnly,
    valuesOnly, deriveOnly, calls, faults, wire, sent, damage, got, stored, phase>>
Rest_writer ==
  <<answersOnly, readerOnly, backendOnly, frontendOnly, scramOnly, configOnly,
    valuesOnly, deriveOnly, sent, damage, got, stored, phase>>
Rest_reader ==
  <<answersOnly, writerOnly, backendOnly, frontendOnly, scramOnly, configOnly,
    valuesOnly, deriveOnly, calls, faults, wire, stored, phase>>
Rest_backend ==
  <<answersOnly, writerOnly, readerOnly, frontendOnly, scramOnly, configOnly,
    valuesOnly, deriveOnly, calls, faults, wire, got, stored, phase>>
Rest_frontend ==
  <<answersOnly, writerOnly, readerOnly, backendOnly, scramOnly, configOnly,
    valuesOnly, deriveOnly, faults, sent, damage, got, stored, phase>>
Rest_scram ==
  <<answersOnly, writerOnly, readerOnly, backendOnly, frontendOnly, configOnly,
    valuesOnly, deriveOnly, calls, wire, sent, damage, got>>
Rest_config ==
  <<answersOnly, writerOnly, readerOnly, backendOnly, frontendOnly, scramOnly,
    valuesOnly, deriveOnly, calls, faults, wire, sent, damage, got, stored>>
Rest_values ==
  <<answersOnly, writerOnly, readerOnly, backendOnly, frontendOnly, scramOnly,
    configOnly, deriveOnly, calls, faults, damage, stored>>
Rest_derive ==
  <<answersOnly, writerOnly, readerOnly, backendOnly, frontendOnly, scramOnly,
    configOnly, valuesOnly, calls, faults, damage>>

\* The variables of a part that is not the behaviour's.
Empty_answers ==
  /\ op = <<>> /\ sql = <<>> /\ todo = <<>> /\ srv = <<>> /\ outcome = <<>> /\ replies = <<>>
  /\ stage = <<>> /\ seen = <<>> /\ result = <<>>
Empty_writer ==
  /\ writer = <<>> /\ rawBuf = <<>> /\ pinned = <<>> /\ rowBuf = <<>>
  /\ sinkBuf = <<>> /\ chan = <<>>
  /\ at = <<>> /\ item = <<>> /\ then = <<>> /\ written = <<>> /\ copy = <<>>
Empty_reader ==
  /\ reader = <<>> /\ chunks = <<>> /\ tail = <<>> /\ header = <<>> /\ cur = <<>> /\ last = <<>>
  /\ ends = <<>>
Empty_backend ==
  network = <<>> /\ src = <<>> /\ batches = <<>> /\ failed = <<>>
Empty_frontend ==
  buffer = <<>> /\ made = <<>> /\ panicked = <<>>
Empty_scram ==
  peer = <<>> /\ client = <<>> /\ net = <<>>
Empty_config ==
  text = <<>> /\ config = <<>> /\ meant = <<>>
Empty_values ==
  row = <<>>
Empty_derive ==
  shape = <<>> /\ ty = <<>>

Init ==
  /\ part \in {"answers", "writer", "reader", "backend", "frontend",
             "scram", "config", "values", "derive"}
  /\ IF part = "answers" THEN Answer!Init ELSE Empty_answers
  /\ IF part = "writer" THEN Writer!Init ELSE Empty_writer
  /\ IF part = "reader" THEN Reader!Init ELSE Empty_reader
  /\ IF part = "backend" THEN Decoder!Init ELSE Empty_backend
  /\ IF part = "frontend" THEN Encoder!Init ELSE Empty_frontend
  /\ IF part = "scram" THEN Login!Init ELSE Empty_scram
  /\ IF part = "config" THEN Setup!Init ELSE Empty_config
  /\ IF part = "values" THEN Value!Init ELSE Empty_values
  /\ IF part = "derive" THEN Derived!Init ELSE Empty_derive
  /\ IF part \in {"writer", "frontend"} THEN TRUE ELSE calls = <<>>
  /\ IF part \in {"writer", "scram"} THEN TRUE ELSE faults = <<>>
  /\ IF part \in {"writer", "frontend", "values", "derive"} THEN TRUE ELSE wire = <<>>
  /\ IF part \in {"reader", "backend", "values", "derive"} THEN TRUE ELSE sent = <<>>
  /\ IF part \in {"reader", "backend"} THEN TRUE ELSE damage = <<>>
  /\ IF part \in {"reader", "values", "derive"} THEN TRUE ELSE got = <<>>
  /\ IF part \in {"scram", "derive"} THEN TRUE ELSE stored = <<>>
  /\ IF part \in {"scram", "config", "values", "derive"} THEN TRUE ELSE phase = <<>>

Next ==
  \/ part = "answers" /\ Answer!Next /\ UNCHANGED <<part, Rest_answers>>
  \/ part = "writer" /\ Writer!Next /\ UNCHANGED <<part, Rest_writer>>
  \/ part = "reader" /\ Reader!Next /\ UNCHANGED <<part, Rest_reader>>
  \/ part = "backend" /\ Decoder!Next /\ UNCHANGED <<part, Rest_backend>>
  \/ part = "frontend" /\ Encoder!Next /\ UNCHANGED <<part, Rest_frontend>>
  \/ part = "scram" /\ Login!Next /\ UNCHANGED <<part, Rest_scram>>
  \/ part = "config" /\ Setup!Next /\ UNCHANGED <<part, Rest_config>>
  \/ part = "values" /\ Value!Next /\ UNCHANGED <<part, Rest_values>>
  \/ part = "derive" /\ Derived!Next /\ UNCHANGED <<part, Rest_derive>>

vars ==
  <<part, answersOnly, writerOnly, readerOnly, backendOnly, frontendOnly, scramOnly,
    configOnly, valuesOnly, deriveOnly, calls, faults, wire, sent, damage, got,
    stored, phase>>

Spec == Init /\ [][Next]_vars

-----------------------------------------------------------------------------
(* Properties, each of its part.                                           *)

\* When a call of Client returns Ok, what it asked for is committed, and when it returns the
\* server's error it is not (query.rs, simple_query.rs, copy_in.rs).
OkMeansCommitted == part = "answers" => Answer!OkMeansCommitted

\* A call that returns Ok has read the rows, the columns and the count of its own statement
\* (query.rs, simple_query.rs, client.rs).
ResultExact == part = "answers" => Answer!ResultExact

\* An answer is unexpected only to a call whose text it does not fit (Error::unexpected_message
\* in query.rs, simple_query.rs, copy_in.rs, copy_out.rs).
NoFalseAlarm == part = "answers" => Answer!NoFalseAlarm

\* The three buffers of a COPY send what was written, once and in order (copy_in.rs,
\* copy_in_writer.rs, binary_copy.rs).
WrittenArrives == part = "writer" => Writer!WrittenArrives

\* A write cancelled, or failed in the middle of a row, is never inserted as another row
\* (binary_copy.rs).
OnlyWholeRows == part = "writer" => Writer!OnlyWholeRows

\* A COPY is read as it was sent, rows and bytes (binary_copy.rs, copy_out_reader.rs).
ReadAsSent == part = "reader" => Reader!ReadAsSent

\* Messages are read as they were sent, however the bytes arrive, or refused (codec.rs,
\* backend.rs); and the server reads the messages of the requests that succeeded, and of no
\* other (frontend.rs, client.rs with_buf).
MessagesArrive ==
  /\ part = "backend" => Decoder!MessagesAsSent
  /\ part = "frontend" => Encoder!RequestsArrive

\* The batches the codec hands over never mix requests (codec.rs).
BatchesOfOneRequest == part = "backend" => Decoder!BatchesOfOneRequest

\* The client trusts a server only after both have the same password and the same exchange
\* (sasl.rs, connect_raw.rs).
Agreement == part = "scram" => Login!Agreement

\* A connection string gives the Config it stands for (config.rs).
ReadAsWritten == part = "config" => Setup!ReadAsWritten

\* A value comes back as it was sent, or is an error (types/mod.rs, lib.rs of postgres-types,
\* row.rs); so do those of derived types, which never panic (postgres-derive).
ReadBack ==
  /\ part = "values" => Value!ReadBack
  /\ part = "derive" => Derived!DerivedKept

\* Bytes that are no value of their type are never read as one (types/mod.rs).
NothingMadeUp == part = "values" => Value!NothingMadeUp
=============================================================================
