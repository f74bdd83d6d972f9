------------------------------- MODULE Backend -------------------------------
(***************************************************************************)
(* Bytes from the server to messages: PostgresCodec::decode cuts the bytes *)
(* that have arrived into batches, BackendMessages parses the messages of  *)
(* a batch, and the iterators of their bodies read the values.             *)
(*                                                                         *)
(* A byte is a number.  A message is a tag, a length that counts itself    *)
(* and a body; the fixed-width integers of the format are one byte wide,   *)
(* the length included, so a header is HeaderLen bytes and not five.       *)
(***************************************************************************)
EXTENDS Bytes, SequencesExt

CONSTANTS
  MaxItems,  \* columns, fields or parameters in a body
  MaxStream  \* messages the server sends, the plainest ones when more than two

VARIABLES
  sent,    \* the messages the server sends
  damage,  \* the one that is damaged, or 0, and how
  network, \* bytes that have not arrived
  src,     \* bytes that have, and are not decoded
  batches, \* what decode has returned: [async, complete, bytes]
  failed   \* decode has returned an error

vars == <<sent, damage, network, src, batches, failed>>

HeaderLen == 2
MinLen == 1

Bare == {"ParseComplete", "BindComplete", "CloseComplete", "CopyDone", "EmptyQuery", "NoData",
         "PortalSuspended"}
Asynchronous == {"Notice", "Notification", "ParameterStatus"}

-----------------------------------------------------------------------------
(* The values in a body.                                                    *)

Ranges(b) == IF b = <<>> THEN Bad ELSE Items("column", b, 2, b[1])
Fields(b) == IF b = <<>> THEN Bad ELSE Items("field", b, 2, b[1])
Parameters(b) == IF b = <<>> THEN Bad ELSE Items("oid", b, 2, b[1])
ErrorFields(b) == Terminated("error", b, 1)

\* The format, the number of columns and theirs.
ColumnFormats(b) ==
  IF Len(b) < 2 THEN Bad ELSE Then(Number(b, 1), Items("format", b, 3, b[2]))

\* Two items in a row.
Two(kind, b, i) ==
  LET x == Item(kind, b, i)
  IN Then(x, Alone(Item(kind, b, x.at)))

NotificationBody(b) == Then(Number(b, 1), Two("name", b, 2))

\* The codes without data, the salt of MD5, the SASL mechanisms, the rest.
Mechanisms(b) == Terminated("name", b, 2)
AuthenticationBody(b) ==
  IF b = <<>> THEN Bad
  ELSE CASE b[1] \in {0, 2, 3, 6, 7, 9} -> Ok(<<<<b[1]>>>>, 2)
         [] b[1] = 5 -> Then(Number(b, 1), Alone(Byte(b, 2)))
         [] b[1] = 10 -> Then(Number(b, 1), Mechanisms(b))
         [] b[1] \in {8, 11, 12} -> Ok(<<<<b[1]>>, Rest(b, 2).v>>, Len(b) + 1)
         [] OTHER -> Bad

\* What a message of this tag and body says, all of the body read.
ValueIn(tag, b) ==
  CASE tag \in Bare -> Ok(<<>>, 1)
    [] tag = "Notification" -> NotificationBody(b)
    [] tag = "CommandComplete" -> Alone(CStr(b, 1))
    [] tag = "CopyData" -> Alone(Rest(b, 1))
    [] tag = "DataRow" -> Ranges(b)
    [] tag \in {"ErrorResponse", "Notice"} -> ErrorFields(b)
    [] tag \in {"CopyInResponse", "CopyOutResponse"} -> ColumnFormats(b)
    [] tag = "BackendKeyData" -> Two("number", b, 1)
    [] tag = "Authentication" -> AuthenticationBody(b)
    [] tag = "ParameterStatus" -> Two("name", b, 1)
    [] tag = "ParameterDescription" -> Parameters(b)
    [] tag = "RowDescription" -> Fields(b)
    [] tag = "ReadyForQuery" -> Alone(Byte(b, 1))
    [] OTHER -> Bad
AllOf(b, value) == IF value.ok /\ value.at = Len(b) + 1 THEN value ELSE Bad
Value(tag, b) == AllOf(b, ValueIn(tag, b))

\* Header::parse and Message::parse: the length of the message at position i, 0 when
\* it has not arrived whole, -1 for one that cannot be.
Whole(b, i) ==
  IF Len(b) < i - 1 + HeaderLen THEN 0
  ELSE IF b[i + 1] < MinLen THEN -1
  ELSE IF Len(b) < i + b[i + 1] THEN 0
  ELSE b[i + 1] + 1

\* Where the messages of b start, one after the other from the first, number 0, on; and
\* the first that has not arrived whole or has one of the tags.
Starts(b) ==
  LET S[k \in 0..Len(b)] ==
        IF k = 0 THEN 1
        ELSE LET i == S[k - 1] IN IF Whole(b, i) > 0 THEN i + Whole(b, i) ELSE i
  IN S
Stops(b, tags, k) == LET i == Starts(b)[k] IN Whole(b, i) <= 0 \/ b[i] \in tags
Until(b, tags) ==
  CHOOSE k \in 0..Len(b) : Stops(b, tags, k) /\ \A j \in 0..k - 1 : ~Stops(b, tags, j)

\* The messages of a batch.
MessageAt(b, i) ==
  [tag |-> b[i], value |-> Value(b[i], SubSeq(b, i + HeaderLen, i + Whole(b, i) - 1))]
Messages(b) == [k \in 1..Until(b, {}) |-> MessageAt(b, Starts(b)[k - 1])]

-----------------------------------------------------------------------------
(* PostgresCodec::decode.                                                  *)

\* Where the batch that starts the buffer ends: before a message that has not
\* arrived, before one that is asynchronous, after a ReadyForQuery.
\* (PastNotices: a mutant that does not stop for them.)
Batch(end, complete, error) == [end |-> end, complete |-> complete, error |-> error]
PastNotices ==
  LET i == Starts(src)[Until(src, {"ReadyForQuery"})]
      n == Whole(src, i)
  IN IF n <= 0 THEN Batch(i - 1, FALSE, n = -1) ELSE Batch(i + n - 1, TRUE, FALSE)
BatchEnd ==
  LET i == Starts(src)[Until(src, Asynchronous \cup {"ReadyForQuery"})]
      n == Whole(src, i)
  IN IF n <= 0 THEN Batch(i - 1, FALSE, n = -1)
     ELSE IF src[i] \in Asynchronous /\ i > 1 THEN Batch(i - 1, FALSE, FALSE)
     ELSE Batch(i + n - 1, src[i] = "ReadyForQuery", FALSE)

\* An asynchronous message is parsed by decode itself.
Decode ==
  /\ ~failed
  /\ LET b == BatchEnd
         bytes == SubSeq(src, 1, b.end)
         async == b.end > 0 /\ src[1] \in Asynchronous
     IN \/ b.error /\ failed' = TRUE /\ UNCHANGED <<src, batches>>
        \/ /\ ~b.error /\ b.end > 0
           /\ src' = SubSeq(src, b.end + 1, Len(src))
           /\ batches' = Append(batches, [async |-> async, complete |-> b.complete,
                                          bytes |-> bytes])
           /\ UNCHANGED failed
  /\ UNCHANGED <<sent, damage, network>>

\* The bytes arrive in pieces, and are decoded before more are read.
Arrive(k) ==
  /\ ~failed /\ k <= Len(network)
  /\ BatchEnd = Batch(0, FALSE, FALSE)
  /\ src' = src \o SubSeq(network, 1, k) /\ network' = SubSeq(network, k + 1, Len(network))
  /\ UNCHANGED <<sent, damage, batches, failed>>

-----------------------------------------------------------------------------
(* The server.                                                             *)

Strings == {<<>>, <<1>>}
Lists(S) == UNION {[1..n -> S] : n \in 0..MaxItems}
Of(tag, S) == [tag : {tag}, v : S]

CopyFormats ==
  LET columns == Lists({<<0>>, <<1>>})
  IN {<<<<0>>>> \o l : l \in columns} \cup {<<<<1>>>> \o l : l \in columns}
Authentications ==
  {<<<<c>>>> : c \in {0, 2, 3, 6, 7, 9}} \cup {<<<<5>>, <<0>>>>}
    \cup {<<<<c>>, s>> : c \in {8, 11, 12}, s \in Strings}
    \cup {<<<<10>>>> \o l : l \in Lists({<<1>>, <<1, 2>>})}

Samples ==
  (UNION {Of(t, {<<>>}) : t \in Bare})
    \cup Of("CommandComplete", {<<s>> : s \in Strings})
    \cup Of("CopyData", {<<s>> : s \in {<<>>, <<0>>, <<1, 0>>}})
    \cup Of("DataRow", Lists({<<Null>>, <<>>, <<0, 1>>}))
    \cup Of("ErrorResponse", Lists({<<1>>, <<2, 1>>})) \cup Of("Notice", {<<>>, <<<<1, 2>>>>})
    \cup Of("CopyInResponse", CopyFormats) \cup Of("CopyOutResponse", CopyFormats)
    \cup Of("BackendKeyData", {<<<<0>>, <<1>>>>})
    \cup Of("Authentication", Authentications)
    \cup Of("ParameterStatus", Strings \X Strings)
    \cup Of("Notification", {<<<<0>>, <<1>>, y>> : y \in Strings})
    \cup Of("ParameterDescription", Lists({<<0>>, <<1>>}))
    \cup Of("RowDescription", Lists({s \o <<0, 0, 1, 0, 1, 2, 0>> : s \in Strings}))
    \cup Of("ReadyForQuery", {<<<<1>>>>})

Plain == {m \in Samples :
            \/ m.tag \in {"BindComplete", "Notice", "ReadyForQuery"}
            \/ m.tag = "DataRow" /\ m.v = <<<<0, 1>>>>}

Flat(l) == FlattenSeq(l)
Zeroed(s) == s \o <<0>>
AllZeroed(l) == Flat([k \in 1..Len(l) |-> Zeroed(l[k])])
Counted(s) == IF s = <<Null>> THEN s ELSE <<Len(s)>> \o s
AllCounted(l) == Flat([k \in 1..Len(l) |-> Counted(l[k])])

Body(m) ==
  CASE m.tag \in {"CommandComplete", "ParameterStatus"} -> AllZeroed(m.v)
    [] m.tag = "Notification" -> m.v[1] \o AllZeroed(Tail(m.v))
    [] m.tag = "DataRow" -> <<Len(m.v)>> \o AllCounted(m.v)
    [] m.tag \in {"ErrorResponse", "Notice"} -> Zeroed(AllZeroed(m.v))
    [] m.tag \in {"CopyInResponse", "CopyOutResponse"} ->
         m.v[1] \o <<Len(m.v) - 1>> \o Flat(Tail(m.v))
    [] m.tag = "Authentication" /\ m.v[1] = <<10>> -> <<10>> \o Zeroed(AllZeroed(Tail(m.v)))
    [] m.tag \in {"ParameterDescription", "RowDescription"} -> <<Len(m.v)>> \o Flat(m.v)
    [] OTHER -> Flat(m.v)

Framed(tag, body) == <<tag, Len(body) + MinLen>> \o body

\* A body with a byte too few or too many, an unknown tag, a length too small.
Damages == {"short", "long", "tag", "length"}
Bytes(m, how) ==
  LET body == Body(m)
  IN CASE how = "short" /\ body # <<>> -> Framed(m.tag, SubSeq(body, 1, Len(body) - 1))
       [] how = "long" -> Framed(m.tag, body \o <<1>>)
       [] how = "tag" -> Framed("Unknown", body)
       [] how = "length" -> <<m.tag, MinLen - 1>> \o body
       [] OTHER -> Framed(m.tag, body)

\* Any two messages, one of them plain, or more that are; the last may be damaged.
Init ==
  /\ \/ sent \in [1..1 -> Samples]
     \/ \E m \in Samples, p \in Plain : sent = <<p, m>>
     \/ \E m \in Samples : sent = <<m, [tag |-> "ReadyForQuery", v |-> <<<<1>>>>]>>
     \/ \E n \in 3..MaxStream : sent \in [1..n -> Plain]
  /\ damage \in {[at |-> 0, how |-> "none"]}
                  \cup [at : {Len(sent)} \cap 1..2, how : Damages]
  /\ network = Flat([k \in 1..Len(sent) |->
                       Bytes(sent[k], IF k = damage.at THEN damage.how ELSE "none")])
  /\ src = <<>> /\ batches = <<>> /\ failed = FALSE

Next == Decode \/ (\E k \in 1..Len(network) : Arrive(k))

Spec == Init /\ [][Next]_vars

-----------------------------------------------------------------------------
(* Properties.                                                             *)

Received == Flat([k \in 1..Len(batches) |-> Messages(batches[k].bytes)])

Agrees(received, m) ==
  received.tag = m.tag /\ received.value.ok /\ received.value.v = m.v

\* Bodies that carry bytes of any number cannot tell that one is missing.
Opaque(m) ==
  \/ m.tag = "CopyData"
  \/ m.tag = "Authentication" /\ m.v[1][1] \in {8, 11, 12}
Unnoticed == damage.how \in {"short", "long"} /\ Opaque(sent[damage.at])
Harmless == damage.how = "short" /\ Body(sent[damage.at]) = <<>>

AsSent(received) ==
  LET good == IF damage.at = 0 \/ Harmless THEN Len(sent) ELSE damage.at - 1
  IN /\ \A k \in 1..good : k <= Len(received) => Agrees(received[k], sent[k])
     /\ network = <<>> /\ BatchEnd.end = 0 /\ ~failed => Len(received) >= good
     /\ damage.how = "none" => ~failed /\ Len(received) <= Len(sent)
     /\ damage.at \in DOMAIN received /\ ~Harmless /\ ~Unnoticed =>
          ~received[damage.at].value.ok

\* However the bytes arrive, the messages read are the messages sent, each with its values,
\* and all of them once all has arrived; a message that is damaged is an error and not
\* another message, and so is what comes after it when its length is wrong.
MessagesAsSent == AsSent(Received)

OneRequest(batch, ms) ==
  /\ ms # <<>>
  /\ \A i \in DOMAIN ms : ms[i].tag = "ReadyForQuery" <=> i = Len(ms) /\ batch.complete
  /\ batch.async <=> \E i \in DOMAIN ms : ms[i].tag \in Asynchronous
  /\ batch.async => Len(ms) = 1

\* A batch holds messages of one request only, and says that the request is complete
\* exactly when it ends with its ReadyForQuery; an asynchronous message is a batch of
\* its own.
BatchesOfOneRequest ==
  \A k \in DOMAIN batches : OneRequest(batches[k], Messages(batches[k].bytes))
=============================================================================
