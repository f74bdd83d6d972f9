------------------------------- MODULE Answers -------------------------------
(***************************************************************************)
(* What one call makes of the messages the server answers it with: every   *)
(* request of the Client with an answer to read, from the frontend         *)
(* messages it sends to the value or error it returns.  The request        *)
(* reaches the server whole and the answer comes back in order             *)
(* (Connection); statements are prepared and their types known             *)
(* (Statements).                                                           *)
(*                                                                         *)
(* A text is a sequence of statements, more than one only in the simple    *)
(* protocol.  The k-th row of the i-th statement is <<i, k>>.              *)
(***************************************************************************)
EXTENDS Naturals, Sequences, SequencesExt

CONSTANTS
  MaxRows,  \* rows of a statement
  MaxTexts  \* statements in a text of the simple protocol

VARIABLES
  op,      \* the call
  sql,     \* the text it runs
  todo,    \* frontend messages the server has not executed
  srv,     \* "run", "skip" to the next Sync after an error, "copy" data in
  outcome, \* of the implicit transaction: "open", "committed", "aborted"
  replies, \* backend messages the call has not read
  stage,   \* where the call has got to
  seen,    \* what it has read: rows, the number affected, column names
  result   \* what it returned

vars == <<op, sql, todo, srv, outcome, replies, stage, seen, result>>

One == {"query_one", "query_one_scalar", "query_typed_one"}
Opt == {"query_opt", "query_opt_scalar", "query_typed_opt"}
Scalar == {"query_scalar", "query_opt_scalar", "query_one_scalar"}
Typed == {"query_typed", "query_typed_opt", "query_typed_one"}
RowOps == One \cup Opt \cup Scalar \cup Typed \cup {"query"}
Simple == {"simple_query", "batch_execute"}
Ops == RowOps \cup Simple \cup
         {"execute", "execute_typed", "query_portal", "prepare", "bind",
          "sync", "copy_out", "copy_in"}

\* The frontend messages of a call: parse, bind, describe, execute and sync encoded
\* into one buffer.
Request(o) ==
  CASE o \in Simple -> <<"Query">>
    [] o \in Typed \cup {"execute_typed"} ->
         <<"Parse", "Bind", "Describe", "Execute", "Sync">>
    [] o = "prepare" -> <<"Parse", "Describe", "Sync">>
    [] o = "bind" -> <<"Bind", "Sync">>
    [] o = "query_portal" -> <<"Execute", "Sync">>
    [] o = "sync" -> <<"Sync">>
    [] OTHER -> <<"Bind", "Execute", "Sync">>

FirstStage(o) ==
  CASE o \in Typed -> "describe"
    [] o = "execute_typed" -> "typed_count"
    [] o = "query_portal" -> "rows"
    [] o = "prepare" -> "parse"
    [] o \in Simple \cup {"sync"} -> o
    [] OTHER -> "bind"

-----------------------------------------------------------------------------
(* The server.                                                             *)

Statement ==
  [kind : {"select"}, rows : 0..MaxRows, columns : 1..2]
    \cup [kind : {"command"}, rows : 0..1, columns : {0}]
    \cup [kind : {"empty", "copyIn", "copyOut"}, rows : {1}, columns : {0}]

Texts(o) == IF o \in Simple THEN UNION {[1..n -> Statement] : n \in 1..MaxTexts}
                            ELSE [1..1 -> Statement]

\* A message of type t about statement i; n is a row, or a number of rows.
Msg(t, i, n) == [type |-> t, of |-> i, n |-> n]
Just(t) == <<Msg(t, 0, 0)>>

Description(i) ==
  IF sql[i].kind = "select" THEN <<Msg("RowDescription", i, 0)>> ELSE Just("NoData")

RowsOf(i, type, n) == [k \in 1..n |-> Msg(type, i, k)]

\* What executing statement i answers, at most max rows of it when max > 0.
Executed(i, max) ==
  LET s == sql[i]
      tag == <<Msg("CommandComplete", i, s.rows)>>
  IN CASE s.kind = "select" ->
            IF max > 0 /\ s.rows >= max
              THEN RowsOf(i, "DataRow", max) \o Just("PortalSuspended")
              ELSE RowsOf(i, "DataRow", s.rows) \o tag
       [] s.kind = "command" -> tag
       [] s.kind = "empty" -> Just("EmptyQuery")
       [] s.kind = "copyOut" ->
            Just("CopyOutResponse") \o RowsOf(i, "CopyData", s.rows) \o Just("CopyDone") \o tag
       [] s.kind = "copyIn" -> Just("CopyInResponse")

\* In the simple protocol a result carries its description, and a statement that
\* waits for data is the last to run.
Result(i) == (IF sql[i].kind = "select" THEN Description(i) ELSE <<>>) \o Executed(i, 0)
RunsLast(n) ==
  /\ \A j \in 1..n - 1 : sql[j].kind # "copyIn"
  /\ n = Len(sql) \/ sql[n].kind = "copyIn"
Ran == FlattenSeq([i \in 1..(CHOOSE n \in DOMAIN sql : RunsLast(n)) |-> Result(i)])

PortalRows == 1

Answer(m) ==
  CASE m = "Parse" -> Just("ParseComplete")
    [] m = "Bind" -> Just("BindComplete")
    [] m = "Describe" -> Just("ParameterDescription") \o Description(1)
    [] m = "Execute" -> Executed(1, IF op = "query_portal" THEN PortalRows ELSE 0)
    [] m = "CopyDone" -> <<Msg("CommandComplete", 1, sql[1].rows)>>
    [] m = "Query" -> Ran

\* It may fail at any point before the last of them.
Partial(ms) == {SubSeq(ms, 1, k) \o Just("Error") : k \in 0..Len(ms) - 1}

Copies(ms) == ms # <<>> /\ ms[Len(ms)].type = "CopyInResponse"

\* Parse, Bind, Describe, Execute, and the end of data copied in.
Serve(m) ==
  /\ \/ m \in {"Parse", "Bind", "Describe", "Execute"} /\ srv = "run"
     \/ m = "CopyDone" /\ srv = "copy"
  /\ \/ /\ replies' = replies \o Answer(m)
        /\ srv' = IF m # "CopyDone" /\ Copies(Answer(m)) THEN "copy" ELSE "run"
     \/ \E ms \in Partial(Answer(m)) : replies' = replies \o ms /\ srv' = "skip"
  /\ UNCHANGED outcome

\* The client gives up its copy.
ServeCopyFail ==
  /\ srv = "copy"
  /\ replies' = replies \o Just("Error") /\ srv' = "skip" /\ UNCHANGED outcome

\* A Sync commits, when no deferred constraint fails; after an error it rolls back.
ServeSync ==
  /\ srv # "copy" /\ srv' = "run"
  /\ \/ srv = "run" /\ outcome = "open" /\ outcome' = "committed"
          /\ replies' = replies \o Just("Ready")
     \/ srv = "run" /\ outcome = "open" /\ outcome' = "aborted"
          /\ replies' = replies \o Just("Error") \o Just("Ready")
     \/ /\ srv = "skip" \/ outcome # "open"
        /\ outcome' = IF outcome = "open" THEN "aborted" ELSE outcome
        /\ replies' = replies \o Just("Ready")

\* A Query commits before its last CommandComplete.
ServeQuery ==
  \/ /\ replies' = replies \o Ran \o (IF Copies(Ran) THEN <<>> ELSE Just("Ready"))
     /\ IF Copies(Ran) THEN srv' = "copy" /\ UNCHANGED outcome
                          ELSE outcome' = "committed" /\ UNCHANGED srv
  \/ \E ms \in Partial(Ran) :
       replies' = replies \o ms \o Just("Ready") /\ outcome' = "aborted" /\ UNCHANGED srv

\* Passed over: anything but Sync after an error, Sync in the middle of data
\* copied in, data or its end outside of it.
Ignored(m) ==
  /\ \/ srv = "skip" /\ m # "Sync"
     \/ srv = "copy" /\ m = "Sync"
     \/ srv = "run" /\ m \in {"CopyDone", "CopyFail"}
  /\ UNCHANGED <<srv, outcome, replies>>

Server ==
  /\ todo # <<>> /\ todo' = Tail(todo)
  /\ LET m == Head(todo)
     IN \/ Serve(m)
        \/ m = "CopyFail" /\ ServeCopyFail
        \/ m = "Sync" /\ ServeSync
        \/ m = "Query" /\ ServeQuery
        \/ Ignored(m)
  /\ UNCHANGED <<op, sql, stage, seen, result>>

-----------------------------------------------------------------------------
(* The call.                                                               *)

Call(o, text) ==
  /\ stage = "idle"
  /\ op' = o /\ sql' = text /\ todo' = Request(o) /\ stage' = FirstStage(o)
  /\ UNCHANGED <<srv, outcome, replies, seen, result>>

Hears(s) == stage = s /\ replies # <<>>
M == Head(replies)

\* A copy that is given up, by its caller or by an error, tells the server.
\* (Complete: a mutant that ends it instead.)
Complete == IF op = "copy_in" /\ stage # "finish" THEN <<"CopyDone", "Sync">> ELSE <<>>
Abort == IF op = "copy_in" /\ stage # "finish" THEN <<"CopyFail", "Sync">> ELSE <<>>

Stop(r) == stage' = "done" /\ result' = r /\ todo' = todo \o Abort
Returns(r) == stage' = "done" /\ result' = r /\ UNCHANGED todo
Continue(s) == stage' = s /\ UNCHANGED <<result, todo>>
Stay == Continue(stage)

\* An ErrorResponse ends any call, and so does a message it does not expect.
Refused(expected) ==
  /\ M.type \notin expected
  /\ Stop(IF M.type = "Error" THEN "db" ELSE "unexpected")
  /\ UNCHANGED seen

ReadMessage == replies' = Tail(replies) /\ UNCHANGED <<op, sql, srv, outcome>>

ReadBindComplete ==
  /\ Hears("bind")
  /\ \/ /\ M.type = "BindComplete" /\ UNCHANGED seen
        /\ CASE op = "bind" -> Returns("ok")
             [] op = "execute" -> Continue("count")
             [] op \in {"copy_out", "copy_in"} -> Continue(op)
             [] OTHER -> Continue("rows")
     \/ Refused({"BindComplete"})
  /\ ReadMessage

\* query_typed reads up to the description of the rows, and leaves the rest to the stream.
ReadTypedColumns ==
  /\ Hears("describe")
  /\ \/ M.type \in {"ParseComplete", "BindComplete", "ParameterDescription"}
          /\ Stay /\ UNCHANGED seen
     \/ M.type \in {"NoData", "RowDescription"} /\ Continue("rows") /\ UNCHANGED seen
     \/ Refused({"ParseComplete", "BindComplete", "ParameterDescription", "NoData",
                 "RowDescription"})
  /\ ReadMessage

\* The rows collected: query_scalar looks at the first, the others at the only one.
Collected(rows) ==
  IF op \in One /\ rows = <<>> THEN "rowcount"
  ELSE IF op \in Scalar /\ rows # <<>> /\ sql[1].columns # 1 THEN "columncount" ELSE "ok"

\* RowStream.  (Mutants: one that forgets portals, one that ends with the command.)
NoPortals == {"DataRow", "CommandComplete", "EmptyQuery", "Ready"}
RowStreamTypes == {"DataRow", "CommandComplete", "EmptyQuery", "PortalSuspended", "Ready"}
ReadRowEager ==
  /\ Hears("rows")
  /\ \/ /\ M.type = "DataRow" /\ Stay
        /\ seen' = [seen EXCEPT !.rows = Append(@, <<M.of, M.n>>)]
     \/ /\ M.type = "CommandComplete" /\ Returns(Collected(seen.rows))
        /\ seen' = [seen EXCEPT !.affected = M.n]
     \/ Refused({"DataRow", "CommandComplete"})
  /\ ReadMessage

ReadRow ==
  /\ Hears("rows")
  /\ \/ /\ M.type = "DataRow"
        /\ seen' = [seen EXCEPT !.rows = Append(@, <<M.of, M.n>>)]
        /\ IF op \in One \cup Opt /\ seen.rows # <<>> THEN Returns("rowcount") ELSE Stay
     \/ M.type = "CommandComplete" /\ Stay /\ seen' = [seen EXCEPT !.affected = M.n]
     \/ M.type \in RowStreamTypes \cap {"EmptyQuery", "PortalSuspended"}
          /\ Stay /\ UNCHANGED seen
     \/ M.type = "Ready" /\ Returns(Collected(seen.rows)) /\ UNCHANGED seen
     \/ Refused(RowStreamTypes)
  /\ ReadMessage

ReadCount ==
  /\ Hears("count")
  /\ \/ M.type = "DataRow" /\ Stay /\ UNCHANGED seen
     \/ M.type = "CommandComplete" /\ Stay /\ seen' = [seen EXCEPT !.affected = M.n]
     \/ M.type = "EmptyQuery" /\ Stay /\ seen' = [seen EXCEPT !.affected = 0]
     \/ M.type = "Ready" /\ Returns("ok") /\ UNCHANGED seen
     \/ Refused({"DataRow", "CommandComplete", "EmptyQuery", "Ready"})
  /\ ReadMessage

TypedCountPasses ==
  {"ParseComplete", "BindComplete", "ParameterDescription", "RowDescription", "DataRow"}
ReadTypedCount ==
  /\ Hears("typed_count")
  /\ \/ M.type \in TypedCountPasses /\ Stay /\ UNCHANGED seen
     \/ M.type = "CommandComplete" /\ Stay /\ seen' = [seen EXCEPT !.affected = M.n]
     \/ M.type \in {"NoData", "EmptyQuery"} /\ Stay /\ seen' = [seen EXCEPT !.affected = 0]
     \/ M.type = "Ready" /\ Returns("ok") /\ UNCHANGED seen
     \/ Refused(TypedCountPasses \cup {"CommandComplete", "NoData", "EmptyQuery", "Ready"})
  /\ ReadMessage

\* prepare: its three messages; the Ready that follows is left.
ReadPrepared ==
  /\ \/ /\ Hears("parse") /\ UNCHANGED seen
        /\ \/ M.type = "ParseComplete" /\ Continue("params")
           \/ Refused({"ParseComplete"})
     \/ /\ Hears("params") /\ UNCHANGED seen
        /\ \/ M.type = "ParameterDescription" /\ Continue("columns")
           \/ Refused({"ParameterDescription"})
     \/ /\ Hears("columns") /\ UNCHANGED seen
        /\ \/ M.type \in {"RowDescription", "NoData"} /\ Returns("ok")
           \/ Refused({"RowDescription", "NoData"})
  /\ ReadMessage

ReadSync ==
  /\ Hears("sync")
  /\ \/ M.type = "Ready" /\ Returns("ok") /\ UNCHANGED seen
     \/ Refused({"Ready"})
  /\ ReadMessage

\* SimpleQueryStream: a row is read under the columns last described.
\* (FirstColumns: a mutant that keeps the first.)
FirstColumns(i) == IF seen.columns = 0 THEN i ELSE seen.columns
NextColumns(i) == i
ReadSimple ==
  /\ Hears("simple_query")
  /\ \/ M.type \in {"CommandComplete", "EmptyQuery"} /\ Stay
          /\ seen' = [seen EXCEPT !.affected = M.n]
     \/ M.type = "RowDescription" /\ Stay
          /\ seen' = [seen EXCEPT !.columns = NextColumns(M.of)]
     \/ M.type = "DataRow" /\ seen.columns # 0 /\ Stay
          /\ seen' = [seen EXCEPT !.rows = Append(@, <<seen.columns, M.n>>)]
     \/ M.type = "DataRow" /\ seen.columns = 0 /\ Returns("unexpected") /\ UNCHANGED seen
     \/ M.type = "Ready" /\ Returns("ok") /\ UNCHANGED seen
     \/ Refused({"CommandComplete", "EmptyQuery", "RowDescription", "DataRow", "Ready"})
  /\ ReadMessage

ReadBatch ==
  /\ Hears("batch_execute")
  /\ \/ M.type \in {"CommandComplete", "EmptyQuery", "RowDescription", "DataRow"}
          /\ Stay /\ UNCHANGED seen
     \/ M.type = "Ready" /\ Returns("ok") /\ UNCHANGED seen
     \/ Refused({"CommandComplete", "EmptyQuery", "RowDescription", "DataRow", "Ready"})
  /\ ReadMessage

\* copy_out, and its stream.
ReadCopyOut ==
  /\ Hears("copy_out")
  /\ \/ M.type = "CopyOutResponse" /\ Continue("data") /\ UNCHANGED seen
     \/ Refused({"CopyOutResponse"})
  /\ ReadMessage

ReadData ==
  /\ Hears("data")
  /\ \/ M.type = "CopyData" /\ Stay
          /\ seen' = [seen EXCEPT !.rows = Append(@, <<M.of, M.n>>)]
     \/ M.type = "CopyDone" /\ Returns("ok") /\ UNCHANGED seen
     \/ Refused({"CopyData", "CopyDone"})
  /\ ReadMessage

\* copy_in up to its sink.
ReadCopyIn ==
  /\ Hears("copy_in")
  /\ \/ M.type = "CopyInResponse" /\ Continue("sink") /\ UNCHANGED seen
     \/ Refused({"CopyInResponse"})
  /\ ReadMessage

\* finish, and what it reads.
FinishCopy ==
  /\ stage = "sink"
  /\ stage' = "finish" /\ todo' = todo \o <<"CopyDone", "Sync">>
  /\ UNCHANGED <<op, sql, srv, outcome, replies, seen, result>>

ReadFinish ==
  /\ Hears("finish")
  /\ \/ M.type = "CommandComplete" /\ Returns("ok")
          /\ seen' = [seen EXCEPT !.affected = M.n]
     \/ Refused({"CommandComplete"})
  /\ ReadMessage

\* A future, stream or sink may be dropped at any point.
Drop ==
  /\ stage \notin {"idle", "done"}
  /\ Stop(IF stage = "finish" THEN "left" ELSE "dropped")
  /\ UNCHANGED <<op, sql, srv, outcome, replies, seen>>

Read ==
  \/ ReadBindComplete \/ ReadTypedColumns \/ ReadRow \/ ReadCount \/ ReadTypedCount
  \/ ReadPrepared \/ ReadSync \/ ReadSimple \/ ReadBatch
  \/ ReadCopyOut \/ ReadData \/ ReadCopyIn \/ ReadFinish

Init ==
  /\ op = "none" /\ sql = <<>> /\ todo = <<>> /\ srv = "run" /\ outcome = "open"
  /\ replies = <<>> /\ stage = "idle" /\ result = "none"
  /\ seen = [rows |-> <<>>, affected |-> 0, columns |-> 0]

Next ==
  \/ \E o \in Ops : \E text \in Texts(o) : Call(o, text)
  \/ Server
  \/ Read
  \/ FinishCopy
  \/ Drop

Spec == Init /\ [][Next]_vars

-----------------------------------------------------------------------------
(* Properties.                                                             *)

\* The calls whose answer is that of a transaction: a prepare or a bind ends
\* before it, a copy to the client with its data.
Deciding == Ops \ {"prepare", "bind", "copy_out", "copy_in"}

\* A call that returns Ok has read the end of its transaction, a commit, and one that
\* returns the server's error ran in a transaction that does not commit; a
\* constraint checked at the commit is the case in question.  What a copy was given is committed
\* only if its caller finished it: dropped before, or failed, it is aborted.
OkMeansCommitted ==
  /\ result = "ok" /\ op \in Deciding => outcome = "committed"
  /\ result = "db" => outcome # "committed"
  /\ op = "copy_in" /\ sql[1].kind = "copyIn" /\ outcome = "committed" =>
       stage = "finish" \/ result \in {"ok", "left"}

\* The rows a statement has.
RowsIn(i) ==
  IF sql[i].kind \in {"select", "copyOut"} THEN [k \in 1..sql[i].rows |-> <<i, k>>] ELSE <<>>
AllRows == FlattenSeq([i \in 1..Len(sql) |-> RowsIn(i)])

\* A call that returns Ok has read every row, in order and under the
\* columns of its own statement, one or at most one where the call promises that,
\* of one column for a scalar; a portal answers as many as were asked for; a count
\* is that of the command.
ResultExact ==
  result = "ok" =>
    /\ op \in RowOps \cup {"simple_query", "copy_out"} => seen.rows = AllRows
    /\ op \in One => Len(seen.rows) = 1
    /\ op \in Opt => Len(seen.rows) <= 1
    /\ op \in Scalar /\ seen.rows # <<>> => sql[1].columns = 1
    /\ op = "query_portal" => Len(seen.rows) <= PortalRows
    /\ op \in {"execute", "execute_typed"} =>
         seen.affected = IF sql[1].kind = "empty" THEN 0 ELSE sql[1].rows

Fits ==
  CASE op = "copy_in" -> sql[1].kind = "copyIn"
    [] op = "copy_out" -> sql[1].kind = "copyOut"
    [] op \in {"prepare", "bind", "sync"} -> TRUE
    [] OTHER -> \A i \in DOMAIN sql : sql[i].kind \notin {"copyIn", "copyOut"}

\* No call takes an answer to a text it is meant for as unexpected, whatever the
\* text's kind, the portal's limit or the point at which the server fails.
NoFalseAlarm == result = "unexpected" => ~Fits
=============================================================================
