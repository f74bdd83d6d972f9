------------------------------- MODULE Frontend -------------------------------
(***************************************************************************)
(* Requests to bytes: the messages of a request are written one after the  *)
(* other into the client's one buffer, which goes to the connection when   *)
(* all could be, and is emptied in any case.  A message is a tag (the      *)
(* first ones of a connection have none), a length that counts itself and  *)
(* a body; the integers of the format are one byte wide (Bytes), so that   *)
(* MaxCount and MaxLen stand for what two and four bytes can hold.         *)
(***************************************************************************)
EXTENDS Bytes, SequencesExt

CONSTANTS
  MaxCount, \* items that a counted list can have
  MaxLen,   \* length of a message that its header can say
  MaxCalls  \* requests of a client

VARIABLES
  buffer,   \* InnerClient::buffer
  wire,     \* the bytes sent
  made,     \* the messages of the requests that were sent
  calls,    \* requests so far
  panicked  \* a conversion panicked

vars == <<buffer, wire, made, calls, panicked>>

-----------------------------------------------------------------------------
(* Writers: the bytes written, and whether all of them could be.           *)

Wrote(b) == [ok |-> TRUE, bytes |-> b]
Failed(b) == [ok |-> FALSE, bytes |-> b]

\* One writer after another, as far as they go.
Both(x, y) == IF x.ok THEN [ok |-> y.ok, bytes |-> x.bytes \o y.bytes] ELSE x
All(ws) == FoldLeft(Both, Wrote(<<>>), ws)

\* write_cstr refuses an embedded zero.
\* (AnyString: a mutant that does not.)
AnyString(s) == Wrote(s \o <<0>>)
WriteCStr(s) == IF 0 \in ToSet(s) THEN Failed(<<>>) ELSE Wrote(s \o <<0>>)

\* write_counted: the count is filled in at the end, if it fits.
WriteCounted(ws) ==
  LET items == All(ws)
  IN IF items.ok /\ Len(ws) <= MaxCount THEN Wrote(<<Len(ws)>> \o items.bytes)
                                        ELSE Failed(<<0>> \o items.bytes)

\* write_body: so is the length.
WriteBody(w) ==
  IF w.ok /\ Len(w.bytes) < MaxLen THEN Wrote(<<Len(w.bytes) + 1>> \o w.bytes)
                                   ELSE Failed(<<0>> \o w.bytes)

\* write_nullable.
WriteNullable(v) == IF v = <<Null>> THEN Wrote(v) ELSE Wrote(<<Len(v)>> \o v)

Raw(b) == Wrote(b)
Each(l, W(_)) == [k \in 1..Len(l) |-> W(l[k])]
Number1(n) == Raw(<<n>>)

Tagged(tag, ws) == Both(Raw(<<tag>>), WriteBody(All(ws)))
Untagged(ws) == WriteBody(All(ws))

-----------------------------------------------------------------------------
(* Parameters.                                                             *)

\* What converting a value to a type does: it is of a wrong type, fails, panics, or gives
\* the bytes and the format.
Converts == {[r |-> "ok", v |-> <<1>>, f |-> 1], [r |-> "ok", v |-> <<Null>>, f |-> 0]}
Outcomes == Converts \cup {[r |-> r, v |-> <<>>, f |-> 0] : r \in {"wrong", "error", "panic"}}
NoAlias == [r |-> "none", v |-> <<>>, f |-> 0]

\* A parameter: the outcome for its own type, and for the type MySQL mode has instead.
Params == [own : Outcomes, alias : Converts \cup {NoAlias} \cup
             {[r |-> r, v |-> <<>>, f |-> 0] : r \in {"wrong", "error"}}]

\* encode_param_with_alias: the other type is tried only for a value of a wrong type,
\* and a wrong type there too is the first error.
EncodeParam(p) ==
  IF p.own.r = "wrong" /\ p.alias.r \in {"ok", "error"} THEN p.alias ELSE p.own

Panics(params) ==
  \E k \in DOMAIN params :
    /\ EncodeParam(params[k]).r = "panic"
    /\ \A j \in 1..k - 1 : EncodeParam(params[j]).r = "ok"

-----------------------------------------------------------------------------
(* Messages.                                                               *)

Parse(name, query, oids) ==
  Tagged("P", <<WriteCStr(name), WriteCStr(query), WriteCounted(Each(oids, Number1))>>)

\* encode_bind_raw converts every parameter before it writes anything.
Bind(portal, name, params) ==
  LET encoded == [k \in 1..Len(params) |-> EncodeParam(params[k])]
  IN IF \E k \in DOMAIN encoded : encoded[k].r # "ok" THEN Failed(<<>>)
     ELSE Tagged("B", <<WriteCStr(portal), WriteCStr(name),
                        WriteCounted([k \in DOMAIN encoded |-> Raw(<<encoded[k].f>>)]),
                        WriteCounted([k \in DOMAIN encoded |-> WriteNullable(encoded[k].v)]),
                        WriteCounted(<<Raw(<<1>>)>>)>>)

Describe(variant, name) == Tagged("D", <<Raw(<<variant>>), WriteCStr(name)>>)
Close(variant, name) == Tagged("C", <<Raw(<<variant>>), WriteCStr(name)>>)
Execute(portal, max) == Tagged("E", <<WriteCStr(portal), Raw(<<max>>)>>)
Query(text) == Tagged("Q", <<WriteCStr(text)>>)
Sync == Tagged("S", <<>>)
CopyData(data) == Tagged("d", <<Raw(data)>>)
CopyDone == Tagged("c", <<>>)
CopyFail(message) == Tagged("f", <<WriteCStr(message)>>)
Terminate == Tagged("X", <<>>)
Password(secret) == Tagged("p", <<WriteCStr(secret)>>)
SaslInitial(mechanism, data) ==
  Tagged("p", <<WriteCStr(mechanism), Raw(<<Len(data)>>), Raw(data)>>)
SaslResponse(data) == Tagged("p", <<Raw(data)>>)

SslCode == 77
CancelCode == 78
Version == 3
SslRequest == Untagged(<<Raw(<<SslCode>>)>>)
CancelRequest(pid, key) == Untagged(<<Raw(<<CancelCode, pid, key>>)>>)
Startup(pairs) ==
  Untagged(<<Raw(<<Version>>)>>
             \o Each(FlattenSeq(pairs), WriteCStr) \o <<Raw(<<0>>)>>)

\* The message m of a request.
Write(m) ==
  CASE m.t = "Parse" -> Parse(m.name, m.text, m.oids)
    [] m.t = "Bind" -> Bind(m.portal, m.name, m.params)
    [] m.t = "Describe" -> Describe(1, m.name)
    [] m.t = "Close" -> Close(2, m.name)
    [] m.t = "Execute" -> Execute(m.portal, m.max)
    [] m.t = "Query" -> Query(m.text)
    [] m.t = "Sync" -> Sync
    [] m.t = "CopyData" -> CopyData(m.data)
    [] m.t = "CopyDone" -> CopyDone
    [] m.t = "CopyFail" -> CopyFail(<<>>)
    [] m.t = "Terminate" -> Terminate
    [] m.t = "Password" -> Password(m.text)
    [] m.t = "SaslInitial" -> SaslInitial(m.name, m.data)
    [] m.t = "SaslResponse" -> SaslResponse(m.data)
    [] m.t = "SslRequest" -> SslRequest
    [] m.t = "CancelRequest" -> CancelRequest(1, 0)
    [] m.t = "Startup" -> Startup(m.pairs)

-----------------------------------------------------------------------------
(* The requests of a client.                                               *)

Names == {<<>>, <<1>>, <<1, 0>>}
Lists(S, n) == UNION {[1..k -> S] : k \in 0..n}
SyncM == [t |-> "Sync"]

Prepares == {<<[t |-> "Parse", name |-> n, text |-> q, oids |-> o],
               [t |-> "Describe", name |-> n], SyncM>> :
               n \in {<<1>>}, q \in Names, o \in Lists({0}, MaxCount + 1)}
Binds == {[t |-> "Bind", portal |-> <<>>, name |-> n, params |-> p] :
            n \in {<<1>>}, p \in Lists(Params, 1)
              \cup [1..MaxCount + 1 -> {[own |-> c, alias |-> NoAlias] : c \in Converts}]}
ExecuteM == [t |-> "Execute", portal |-> <<>>, max |-> 0]
Queries == {<<b, ExecuteM, SyncM>> : b \in Binds}
Typeds == {<<[t |-> "Parse", name |-> <<>>, text |-> q, oids |-> [k \in DOMAIN b.params |-> 0]],
             [b EXCEPT !.name = <<>>], [t |-> "Describe", name |-> <<>>], ExecuteM, SyncM>> :
             q \in {<<1>>}, b \in Binds}
Others ==
  {<<[t |-> "Query", text |-> q]>> : q \in Names}
    \cup {<<[t |-> "Close", name |-> <<1>>], SyncM>>, <<SyncM>>, <<[t |-> "Terminate"]>>,
          <<[t |-> "CopyDone"], SyncM>>, <<[t |-> "CopyFail"], SyncM>>}
    \cup {<<[t |-> "CopyData", data |-> d]>> : d \in {<<>>, <<0, 1>>}}

\* What may be the first bytes of a connection.
Greetings ==
  {<<[t |-> "Startup", pairs |-> p]>> : p \in Lists({<<<<1>>, <<2>>>>, <<<<1>>, <<0>>>>}, 2)}
    \cup {<<[t |-> "SslRequest"]>>, <<[t |-> "CancelRequest"]>>}
Secrets ==
  {<<[t |-> "Password", text |-> n]>> : n \in Names}
    \cup {<<[t |-> "SaslInitial", name |-> <<1>>, data |-> d]>> : d \in {<<>>, <<0, 1>>}}
    \cup {<<[t |-> "SaslResponse", data |-> <<1>>]>>}

\* An SslRequest, if any, then the Startup, which the rest follows, or a CancelRequest alone.
Requests ==
  LET last == IF made = <<>> THEN "none" ELSE made[Len(made)].t
  IN CASE last = "none" -> Greetings
       [] last = "SslRequest" -> Greetings \ {<<[t |-> "SslRequest"]>>}
       [] last = "CancelRequest" -> {}
       [] OTHER -> Prepares \cup Queries \cup Typeds \cup Others \cup Secrets

\* with_buf: what the messages write up to the first that cannot be written is
\* sent, or dropped.  A panic leaves it there for the next request.
Leaves(request) ==
  LET n == CHOOSE k \in DOMAIN request : request[k].t = "Bind"
  IN All([k \in 1..n - 1 |-> Write(request[k])]).bytes

PanicsIn(request) ==
  \E k \in DOMAIN request :
    /\ request[k].t = "Bind" /\ Panics(request[k].params)
    /\ All([j \in 1..k - 1 |-> Write(request[j])]).ok

\* (KeepsBuffer: a mutant that empties it only when the request is sent.)
KeepsBuffer(w) == IF w.ok THEN <<>> ELSE buffer \o w.bytes
EmptiesBuffer(w) == <<>>

Call(request) ==
  /\ calls < MaxCalls /\ calls' = calls + 1
  /\ IF PanicsIn(request)
       THEN /\ buffer' = buffer \o Leaves(request) /\ panicked' = TRUE
            /\ UNCHANGED <<wire, made>>
       ELSE LET w == All([k \in DOMAIN request |-> Write(request[k])])
            IN /\ buffer' = EmptiesBuffer(w)
               /\ IF w.ok THEN wire' = wire \o buffer \o w.bytes /\ made' = made \o request
                          ELSE UNCHANGED <<wire, made>>
               /\ UNCHANGED panicked

Init == buffer = <<>> /\ wire = <<>> /\ made = <<>> /\ calls = 0 /\ panicked = FALSE

Next == \E request \in Requests : Call(request)

Spec == Init /\ [][Next]_vars

-----------------------------------------------------------------------------
(* What the server reads.                                                  *)

ParamOf(value, format) == [v |-> value, f |-> format[1]]

\* The values at their places, with the formats of the list before.
BindBody(b) ==
  LET portal == CStr(b, 1)
      name == CStr(b, portal.at)
      n == b[name.at]
      values == name.at + n + 1
      List[k \in 0..n] ==
        IF k = 0 THEN Ok(<<>>, values + 1)
        ELSE LET before == List[k - 1]
                 v == ColumnAt(b, before.at)
             IN IF before.ok /\ v.ok THEN Ok(Append(before.v, v.v), v.at) ELSE Bad
  IN [t |-> "Bind", portal |-> portal.v, name |-> name.v,
      params |-> [k \in 1..n |-> ParamOf(List[n].v[k], <<b[name.at + k]>>)],
      whole |-> b[values] = n /\ List[n].ok /\ SubSeq(b, List[n].at, Len(b)) = <<1, 1>>]

\* The strings of a startup message, to the one that is empty.
StartupBody(b) == Terminated("name", b, 2)

Body(tag, b) ==
  LET s == CStr(b, 1)
      second == CStr(b, s.at)
  IN CASE tag = "P" -> [t |-> "Parse", name |-> s.v, text |-> second.v,
                        oids |-> FlattenSeq(Items("oid", b, second.at + 1, b[second.at]).v)]
       [] tag = "B" -> BindBody(b)
       [] tag \in {"D", "C"} -> [t |-> IF tag = "D" THEN "Describe" ELSE "Close",
                                 name |-> CStr(b, 2).v]
       [] tag = "E" -> [t |-> "Execute", portal |-> s.v, max |-> b[s.at]]
       [] tag = "Q" -> [t |-> "Query", text |-> s.v]
       [] tag = "d" -> [t |-> "CopyData", data |-> b]
       [] tag = "f" -> [t |-> "CopyFail"]
       [] tag = "S" -> SyncM [] tag = "c" -> [t |-> "CopyDone"] [] tag = "X" -> [t |-> "Terminate"]
       [] tag = "p" -> [t |-> "Secret", data |-> b]

Meant(p) == IF p.own.r = "ok" THEN p.own ELSE p.alias

\* What a message says to the server: values for parameters, bytes for a secret.
Said(m) ==
  CASE m.t = "Bind" -> [t |-> "Bind", portal |-> m.portal, name |-> m.name, whole |-> TRUE,
                        params |-> [k \in DOMAIN m.params |->
                          [v |-> Meant(m.params[k]).v, f |-> Meant(m.params[k]).f]]]
    [] m.t = "Password" -> [t |-> "Secret", data |-> m.text \o <<0>>]
    [] m.t = "SaslInitial" -> [t |-> "Secret", data |-> m.name \o <<0, Len(m.data)>> \o m.data]
    [] m.t = "SaslResponse" -> [t |-> "Secret", data |-> m.data]
    [] OTHER -> m

\* Messages from position i on; those of a greeting first, while `first' holds.
Read[i \in Nat, first \in BOOLEAN] ==
  IF i > Len(wire) THEN <<>>
  ELSE IF first
    THEN LET code == wire[i + 1]
             m == CASE code = SslCode -> [t |-> "SslRequest"]
                    [] code = CancelCode -> [t |-> "CancelRequest"]
                    [] OTHER ->
                         LET b == SubSeq(wire, i + 1, i + wire[i] - 1)
                             strings == StartupBody(b).v
                         IN [t |-> "Startup",
                             pairs |-> [k \in 1..Len(strings) \div 2 |->
                                          <<strings[2 * k - 1], strings[2 * k]>>]]
         IN <<m>> \o Read[i + wire[i], code = SslCode]
  ELSE <<Body(wire[i], SubSeq(wire, i + 2, i + wire[i + 1]))>>
         \o Read[i + 1 + wire[i + 1], FALSE]

-----------------------------------------------------------------------------
(* Properties.                                                             *)

\* However requests succeed and fail, in a string with a zero in it, in a parameter or in a
\* list too long, the server reads the messages of the requests that succeeded, each with
\* its values, and nothing of the others, as long as no conversion panics.
RequestsArrive == ~panicked => Read[1, TRUE] = [k \in DOMAIN made |-> Said(made[k])]
=============================================================================
