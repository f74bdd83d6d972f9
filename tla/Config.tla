-------------------------------- MODULE Config --------------------------------
(***************************************************************************)
(* Connection settings: set one by one (Config's methods), or read from a  *)
(* string of keys and values or from a URL.  A string is a sequence of     *)
(* tokens: the characters with a meaning, and words of the others.         *)
(***************************************************************************)
EXTENDS Naturals, Sequences, SequencesExt

VARIABLES
  text,    \* the rest of the string
  config,  \* the Config being filled
  meant,   \* calls of Config's methods that the string stands for
  phase    \* what comes next, and at the end "ok" or "error"

vars == <<text, config, meant, phase>>

-----------------------------------------------------------------------------
(* Config's methods.  A call is a method and its argument.                 *)

TextKeys == {"user", "password", "dbname", "options", "application_name"}
ChoiceKeys == {"sslmode", "sslnegotiation", "target_session_attrs", "channel_binding",
               "load_balance_hosts"}
ListKeys == {"host", "hostaddr", "port"}
TimeKeys == {"connect_timeout", "tcp_user_timeout", "keepalives_idle", "keepalives_interval"}
NumberKeys == {"keepalives", "keepalives_retries"}
Keys == TextKeys \cup ChoiceKeys \cup ListKeys \cup TimeKeys \cup NumberKeys

Unset == <<"unset">>
Allowed(k) ==
  CASE k = "sslmode" -> {<<"disable">>, <<"prefer">>, <<"require">>}
    [] k = "sslnegotiation" -> {<<"postgres">>, <<"direct">>}
    [] k = "target_session_attrs" -> {<<"any">>, <<"read-write">>, <<"read-only">>}
    [] k = "channel_binding" -> {<<"disable">>, <<"prefer">>, <<"require">>}
    [] OTHER -> {<<"disable">>, <<"random">>}

New ==
  [k \in Keys |->
     CASE k \in ListKeys -> <<>>
       [] k = "sslmode" \/ k = "channel_binding" -> <<"prefer">>
       [] k = "sslnegotiation" -> <<"postgres">>
       [] k = "target_session_attrs" -> <<"any">>
       [] k = "load_balance_hosts" -> <<"disable">>
       [] k = "keepalives" -> <<"on">>
       [] k = "keepalives_idle" -> <<"7200">>
       [] OTHER -> Unset]

SetValue(c, k, v) == [c EXCEPT ![k] = v]
Push(c, k, v) == [c EXCEPT ![k] = Append(@, v)]
HostPath(c, v) == Push(c, "host", [unix |-> TRUE, v |-> v])
IsPath(v) == v # <<>> /\ v[1] = "/"
Host(c, v) == IF IsPath(v) THEN HostPath(c, v) ELSE Push(c, "host", [unix |-> FALSE, v |-> v])

Call(c, call) ==
  CASE call.k = "host" -> Host(c, call.v)
    [] call.k \in {"hostaddr", "port"} -> Push(c, call.k, call.v)
    [] OTHER -> SetValue(c, call.k, call.v)

\* The blocking Config wraps one of these, and every method calls the same one.
BlockingCall(c, call) == Call(c, call)

-----------------------------------------------------------------------------
(* Tokens.                                                                 *)

\* The first place from i on of one of S in s, behind the end if there is none.
Find(s, S, i) ==
  LET at == {j \in i..Len(s) : s[j] \in S}
  IN IF at = {} THEN Len(s) + 1 ELSE CHOOSE j \in at : \A k \in at : j <= k
After(s, i) == SubSeq(s, i, Len(s))
Before(s, i) == SubSeq(s, 1, i - 1)

Split(s, t) ==
  LET From[i \in 1..Len(s) + 1] ==
        LET end == Find(s, {t}, i)
        IN IF end > Len(s) THEN <<After(s, i)>> ELSE <<SubSeq(s, i, end - 1)>> \o From[end + 1]
  IN From[1]

\* The numbers there are, of which "7" is positive.
Signed(v) == v \in {<<"-1">>, <<"0">>, <<"7">>}
Unsigned(v) == v \in {<<"0">>, <<"7">>}
Positive(v) == v = <<"7">>
Address(v) == v = <<"1.1.1.1">>

-----------------------------------------------------------------------------
(* param: a key and the text of its value.                                 *)

Bad == [ok |-> FALSE, c |-> New]
Good(c) == [ok |-> TRUE, c |-> c]

ParamText(c, k, v) == Good(SetValue(c, k, v))
ParamChoice(c, k, v) == IF v \in Allowed(k) THEN Good(SetValue(c, k, v)) ELSE Bad

ParamHosts(c, v) == Good(FoldLeft(Host, c, Split(v, ",")))
ParamAddresses(c, v) ==
  IF \A i \in DOMAIN Split(v, ",") : Address(Split(v, ",")[i])
    THEN Good([c EXCEPT !.hostaddr = @ \o Split(v, ",")]) ELSE Bad

PortOf(p) == IF p = <<>> THEN <<"5432">> ELSE p
ParamPorts(c, v) ==
  LET ports == Split(v, ",")
  IN IF \A i \in DOMAIN ports : ports[i] = <<>> \/ Unsigned(ports[i]) \/ ports[i] = <<"5432">>
       THEN Good([c EXCEPT !.port = @ \o [i \in DOMAIN ports |-> PortOf(ports[i])]])
       ELSE Bad

\* A timeout that is not positive leaves what was set before.
ParamTime(c, k, v) ==
  IF ~Signed(v) THEN Bad ELSE Good(IF Positive(v) THEN SetValue(c, k, v) ELSE c)

Flag(v) == IF v = <<"0">> THEN <<"off">> ELSE <<"on">>
ParamNumber(c, k, v) ==
  IF ~Unsigned(v) THEN Bad
  ELSE Good(SetValue(c, k, IF k = "keepalives" THEN Flag(v) ELSE v))

Param(c, k, v) ==
  CASE k \in TextKeys -> ParamText(c, k, v)
    [] k \in ChoiceKeys -> ParamChoice(c, k, v)
    [] k = "host" -> ParamHosts(c, v)
    [] k = "hostaddr" -> ParamAddresses(c, v)
    [] k = "port" -> ParamPorts(c, v)
    [] k \in TimeKeys -> ParamTime(c, k, v)
    [] k \in NumberKeys -> ParamNumber(c, k, v)
    [] OTHER -> Bad

Goto(p, rest, c) == phase' = p /\ text' = rest /\ config' = c /\ UNCHANGED meant
Fail == Goto("error", <<>>, New)
Apply(p, k, v, rest) ==
  LET r == Param(config, k, v) IN IF r.ok THEN Goto(p, rest, r.c) ELSE Fail

-----------------------------------------------------------------------------
(* Parser: keys and values.                                                *)

Spaces == {" "}
SkipWs(s, i) ==
  LET at == {j \in i..Len(s) : s[j] \notin Spaces}
  IN IF at = {} THEN Len(s) + 1 ELSE CHOOSE j \in at : \A k \in at : j <= k

\* A character behind a backslash stands for itself, also a backslash: one is escaped if
\* an odd number of them is in front of it.
Escaped(s, i, j) ==
  \E k \in i..(j - 1) : /\ \A n \in k..(j - 1) : s[n] = "\\"
                        /\ k = i \/ s[k - 1] # "\\"
                        /\ (j - k) % 2 = 1
Unescape(s, i, j) ==
  LET kept == SelectSeq([n \in 1..(j - i) |-> n + i - 1],
                        LAMBDA n : s[n] # "\\" \/ Escaped(s, i, n))
  IN [n \in 1..Len(kept) |-> s[kept[n]]]

\* Up to one of S that is not escaped.
\* (StopAtAny: a mutant that forgets about escapes.)
StopAtAny(s, S, i) == Find(s, S, i)
ValueEnd(s, S, i) ==
  LET at == {j \in i..Len(s) : s[j] \in S /\ ~Escaped(s, i, j)}
  IN IF at = {} THEN Len(s) + 1 ELSE CHOOSE j \in at : \A k \in at : j <= k

\* value: quoted_value, which must be closed, or simple_value, which is not empty.
Value(s, i) ==
  LET quoted == i <= Len(s) /\ s[i] = "'"
      from == IF quoted THEN i + 1 ELSE i
      end == ValueEnd(s, IF quoted THEN {"'"} ELSE Spaces, from)
      v == Unescape(s, from, end)
  IN [ok |-> IF quoted THEN end <= Len(s) ELSE v # <<>>, v |-> v,
      rest |-> After(s, IF quoted THEN end + 1 ELSE end)]

\* parameter, and param with it.  A missing keyword is taken for the end.
Parameter ==
  /\ phase = "pairs"
  /\ LET start == SkipWs(text, 1)
         stop == Find(text, Spaces \cup {"="}, start)
         equals == SkipWs(text, stop)
         value == Value(text, SkipWs(text, equals + 1))
     IN IF stop = start THEN Goto("ok", <<>>, config)
        ELSE IF equals > Len(text) \/ text[equals] # "=" \/ ~value.ok THEN Fail
        ELSE Apply("pairs", text[start], value.v, value.rest)

-----------------------------------------------------------------------------
(* UrlParser.                                                              *)

Pairs == <<<<":", "%3A">>, <<"/", "%2F">>, <<"?", "%3F">>, <<"@", "%40">>, <<"&", "%26">>,
           <<"=", "%3D">>, <<",", "%2C">>, <<"[", "%5B">>, <<" ", "%20">>,
           <<"not utf-8", "%FF">>>>
Decoded(t) == IF \E i \in DOMAIN Pairs : Pairs[i][2] = t
                THEN Pairs[CHOOSE i \in DOMAIN Pairs : Pairs[i][2] = t][1] ELSE t
Encoded(t) == IF \E i \in DOMAIN Pairs : Pairs[i][1] = t
                THEN Pairs[CHOOSE i \in DOMAIN Pairs : Pairs[i][1] = t][2] ELSE t

\* percent_decode, and decode, which wants UTF-8.
Bytes(s) == [i \in DOMAIN s |-> Decoded(s[i])]
Utf8(s) == "not utf-8" \notin ToSet(Bytes(s))

\* from_str: a prefix of a URL, or keys and values.
FromStr ==
  /\ phase = "string"
  /\ IF text # <<>> /\ text[1] = "postgres:" THEN Goto("credentials", After(text, 2), config)
                                             ELSE Goto("pairs", text, config)

ParseCredentials ==
  /\ phase = "credentials"
  /\ LET i == Find(text, {"@"}, 1)
         colon == Find(Before(text, i), {":"}, 1)
         user == Before(Before(text, i), colon)
         named == SetValue(config, "user", Bytes(user))
     IN IF i > Len(text) THEN Goto("host", text, config)
        ELSE IF ~Utf8(user) THEN Fail
        ELSE Goto("host", After(text, i + 1),
                  IF colon >= i THEN named
                  ELSE SetValue(named, "password", Bytes(After(Before(text, i), colon + 1))))

\* host_param: a path may be any bytes.
HostParam(c, s) ==
  IF IsPath(Bytes(s)) THEN Good(HostPath(c, Bytes(s)))
  ELSE IF Utf8(s) THEN Good(Host(c, Bytes(s))) ELSE Bad

\* A chunk of the host part: the host, in brackets if it has colons, and the port.
Chunk(s) ==
  LET close == Find(s, {"]"}, 1)
      colon == Find(s, {":"}, 1)
      rest == After(s, close + 1)
  IN IF s # <<>> /\ s[1] = "["
       THEN [ok |-> close <= Len(s) /\ (rest = <<>> \/ rest[1] = ":"),
             host |-> SubSeq(s, 2, close - 1),
             port |-> IF rest = <<>> THEN <<"5432">> ELSE After(rest, 2)]
       ELSE [ok |-> TRUE, host |-> Before(s, colon),
             port |-> IF colon > Len(s) THEN <<"5432">> ELSE After(s, colon + 1)]

AddChunk(r, s) ==
  LET chunk == Chunk(s)
      h == HostParam(r.c, chunk.host)
  IN IF ~r.ok \/ ~chunk.ok \/ ~h.ok \/ ~Utf8(chunk.port) THEN Bad
     ELSE Param(h.c, "port", Bytes(chunk.port))

ParseHost ==
  /\ phase = "host"
  /\ LET i == Find(text, {"/", "?"}, 1)
         r == IF i = 1 THEN Good(config)
              ELSE FoldLeft(AddChunk, Good(config), Split(Before(text, i), ","))
     IN IF r.ok THEN Goto("path", After(text, i), r.c) ELSE Fail

ParsePath ==
  /\ phase = "path"
  /\ LET i == Find(text, {"?"}, 1)
         name == SubSeq(text, 2, i - 1)
     IN IF text = <<>> \/ text[1] # "/" THEN Goto("params", text, config)
        ELSE IF name = <<>> THEN Goto("params", After(text, i), config)
        ELSE IF ~Utf8(name) THEN Fail
        ELSE Goto("params", After(text, i), SetValue(config, "dbname", Bytes(name)))

\* parse_params: what follows the host and the path must be "?", or is left alone.
ParseParams ==
  /\ phase = "params"
  /\ IF text = <<>> \/ text[1] # "?" THEN Goto("ok", <<>>, config)
                                     ELSE Goto("param", After(text, 2), config)

ParseParam ==
  /\ phase = "param"
  /\ LET eq == Find(text, {"="}, 1)
         end == Find(text, {"&"}, eq + 1)
         key == Before(text, eq)
         value == SubSeq(text, eq + 1, end - 1)
         h == HostParam(config, value)
     IN IF text = <<>> THEN Goto("ok", <<>>, config)
        ELSE IF eq > Len(text) \/ Len(key) # 1 THEN Fail
        ELSE IF key = <<"host">>
          THEN IF h.ok THEN Goto("param", After(text, end + 1), h.c) ELSE Fail
        ELSE IF ~Utf8(value) THEN Fail
        ELSE Apply("param", key[1], Bytes(value), After(text, end + 1))

-----------------------------------------------------------------------------
(* Strings to read, and the calls they stand for; the order of the calls   *)
(* does not matter between different keys.                                 *)

Error == <<[k |-> "error", v |-> <<>>]>>
One(k, v) == <<[k |-> k, v |-> v]>>

\* A setting with the list of its values, one if it is not a list.
Item(k, values) == [k |-> k, values |-> values]
Settings ==
  {Item("user", <<v>>) : v \in {<<>>, <<"a", " ">>, <<"'">>, <<"\\">>, <<"\\", "'", "b">>,
                                <<"=", "a">>}}
  \cup {Item("dbname", <<<<"a", "&">>>>), Item("password", <<<<"a">>>>),
        Item("sslmode", <<<<"require">>>>), Item("sslmode", <<<<"direct">>>>),
        Item("load_balance_hosts", <<<<"random">>>>), Item("unknown", <<<<"a">>>>),
        Item("host", <<<<"a">>, <<"/", "b">>>>), Item("host", <<<<"b">>>>),
        Item("hostaddr", <<<<"1.1.1.1">>, <<"1.1.1.1">>>>), Item("hostaddr", <<<<"a">>>>),
        Item("port", <<<<"7">>, <<>>>>), Item("port", <<<<"-1">>>>),
        Item("connect_timeout", <<<<"7">>>>), Item("connect_timeout", <<<<"0">>>>),
        Item("keepalives_idle", <<<<"-1">>>>), Item("tcp_user_timeout", <<<<"a">>>>),
        Item("keepalives", <<<<"0">>>>), Item("keepalives_retries", <<<<"-1">>>>)}

Means(k, v) ==
  CASE k \in TextKeys \cup {"host"} -> One(k, v)
    [] k \in ChoiceKeys -> IF v \in Allowed(k) THEN One(k, v) ELSE Error
    [] k = "port" -> IF v = <<>> THEN One(k, <<"5432">>)
                     ELSE IF v = <<"7">> THEN One(k, v) ELSE Error
    [] k = "hostaddr" -> IF Address(v) THEN One(k, v) ELSE Error
    [] k \in TimeKeys -> IF v = <<"7">> THEN One(k, v)
                         ELSE IF v = <<"a">> THEN Error ELSE <<>>
    [] k = "keepalives" -> One(k, <<"off">>)
    [] OTHER -> Error
ItemMeans(item) == FlattenSeq([i \in DOMAIN item.values |-> Means(item.k, item.values[i])])
Calls(items) == FlattenSeq([i \in DOMAIN items |-> ItemMeans(items[i])])

Joined(vs, sep) ==
  FlattenSeq([i \in DOMAIN vs |-> IF i = 1 THEN vs[i] ELSE <<sep>> \o vs[i]])

\* A pair, quoted or not, and with space around or not.
Escape(v, S) == FlattenSeq([i \in DOMAIN v |-> IF v[i] \in S THEN <<"\\", v[i]>> ELSE <<v[i]>>])
Pair(item, style) ==
  LET v == Joined(item.values, ",")
  IN IF style = "quoted" \/ v = <<>>
       THEN <<" ", item.k, " ", "=", " ", "'">> \o Escape(v, {"'", "\\"}) \o <<"'">>
       ELSE <<item.k, "=">> \o Escape(v, {"'", "\\", " "}) \o <<" ">>

PairsOf(items, style) == FlattenSeq([i \in DOMAIN items |-> Pair(items[i], style)])

\* A URL: credentials, hosts with their ports, a database and one setting more.
Encode(v) == [i \in DOMAIN v |-> Encoded(v[i])]
Credentials == {[text |-> <<>>, calls |-> <<>>]}
  \cup {[text |-> Encode(u) \o <<"@">>,
         calls |-> IF u = <<"not utf-8">> THEN Error ELSE One("user", u)] :
        u \in {<<"a", ":">>, <<"not utf-8">>}}
  \cup {[text |-> <<"a", ":">> \o Encode(p) \o <<"@">>,
         calls |-> One("user", <<"a">>) \o One("password", p)] :
        p \in {<<>>, <<"@", "not utf-8">>, <<"b", ":">>}}

HostTexts == {[text |-> <<"h">>, calls |-> One("host", <<"h">>)],
              [text |-> <<"%2F", "h", "%FF">>, calls |-> One("host", <<"/", "h", "not utf-8">>)],
              [text |-> <<"[", ":", "6", "]">>, calls |-> One("host", <<":", "6">>)]}
PortTexts == {[text |-> <<>>, calls |-> One("port", <<"5432">>)],
              [text |-> <<":", "7">>, calls |-> One("port", <<"7">>)],
              [text |-> <<":", "a">>, calls |-> Error]}
HostPorts == {[text |-> h.text \o p.text, calls |-> h.calls \o p.calls] :
                h \in HostTexts, p \in PortTexts}
HostLists == {[text |-> <<>>, calls |-> <<>>]} \cup HostPorts
  \cup {[text |-> h.text \o <<",">> \o i.text, calls |-> h.calls \o i.calls] :
        h \in HostPorts, i \in {j \in HostPorts : Error[1] \notin ToSet(j.calls)}}
Paths == {[text |-> <<>>, calls |-> <<>>], [text |-> <<"/">>, calls |-> <<>>],
          [text |-> <<"/", "d", "%3F">>, calls |-> One("dbname", <<"d", "?">>)]}

\* The host of a query is one host, commas and all.
UrlSettings == {Item("user", <<<<"a", "&">>>>), Item("host", <<<<"a">>>>),
                Item("host", <<<<"/", "b">>>>), Item("connect_timeout", <<<<"7">>>>),
                Item("port", <<<<"7">>, <<>>>>), Item("sslmode", <<<<"direct">>>>)}
Query(item) == [text |-> <<"?", item.k, "=">> \o Encode(Joined(item.values, ",")),
                calls |-> ItemMeans(item)]
Queries == {[text |-> <<>>, calls |-> <<>>]} \cup {Query(item) : item \in UrlSettings}

Init ==
  /\ \/ \E items \in UNION {[1..n -> Settings] : n \in 0..2}, style \in {"plain", "quoted"} :
          text = PairsOf(items, style) /\ meant = Calls(items)
     \/ \E c \in Credentials, h \in HostLists, p \in Paths, q \in Queries :
          /\ text = <<"postgres:">> \o c.text \o h.text \o p.text \o q.text
          /\ meant = c.calls \o h.calls \o p.calls \o q.calls
  /\ config = New
  /\ phase = "string"

Next == \/ FromStr \/ Parameter \/ ParseCredentials \/ ParseHost \/ ParsePath \/ ParseParams
        \/ ParseParam
Spec == Init /\ [][Next]_vars

-----------------------------------------------------------------------------
\* A string, however it is quoted, escaped or encoded, gives the same Config as the calls
\* it stands for, made on Config or on the blocking one, and an error exactly if one of
\* its values is none: as the tests of tests/test/parse.rs ask of a few strings.
ReadAsWritten ==
  LET wrong == Error[1] \in ToSet(meant)
  IN /\ phase = "ok" => ~wrong /\ config = FoldLeft(BlockingCall, New, meant)
     /\ phase = "error" => wrong
=============================================================================
