------------------------------- MODULE Statements -------------------------------
(***************************************************************************)
(* Prepared statements and the types of their columns: prepare.rs,         *)
(* statement.rs, query.rs and the cache of client.rs.                      *)
(*                                                                         *)
(* A call is a stack of nested calls.  prepare looks up the types it does  *)
(* not know; get_type runs a statement of its own, which it may have to    *)
(* prepare first, and recurs into the parts of a type.  Statements are     *)
(* counted references: dropping the last sends a Close.  Calls run         *)
(* concurrently, share the cache, and may be cancelled while they wait.    *)
(* The server executes requests in the order sent and its responses are    *)
(* delivered in that order, each into a small channel: what module         *)
(* Connection shows.                                                       *)
(***************************************************************************)
EXTENDS Naturals, Sequences, FiniteSets

CONSTANTS
  Callers,
  Oids,         \* types that are not built in
  Kind,         \* what pg_type says of each: simple, nested, enum or composite
  Parts,        \* the types it is made of
  Columns,      \* lists of such types that a prepared query may need
  TypedColumns, \* the same for query_typed
  MaxCalls,     \* calls made
  MaxFaults,    \* errors answered, calls cancelled and caches cleared
  MaxRest,      \* batches of rows after the first batch of an answer
  ChanCap       \* batches an mpsc::channel(1) holds

ASSUME StatementsAssumption ==
  /\ "none" \notin Oids
  /\ Kind \in [Oids -> {"simple", "nested", "enum", "composite"}]
  /\ Parts \in [Oids -> Seq(Oids)]
  /\ Columns \subseteq Seq(Oids) /\ TypedColumns \subseteq Seq(Oids)
  /\ MaxCalls \in Nat /\ MaxFaults \in Nat /\ MaxRest \in Nat /\ ChanCap \in Nat \ {0}

VARIABLES
  stack,     \* the nested calls of each caller, the innermost last
  owned,     \* the statements each caller has
  slots,     \* CachedTypeInfo: the statements that look types up
  types,     \* CachedTypeInfo: the types known
  live,      \* statements some Statement refers to
  nextName,  \* NEXT_ID
  calls,     \* calls made so far
  faults,    \* errors, cancellations and clearings so far
  sendq,     \* requests sent and not yet executed
  flight,    \* responses not yet delivered
  names,     \* the statements the server has
  abandoned  \* history: names given up before there was a Statement

vars == <<stack, owned, slots, types, live, nextName, calls, faults, sendq, flight, names, abandoned>>

Slots == {"info", "enum", "composite"}
None == <<>>

\* A call in progress: `at' says that its statement is still to be found, is held, its
\* request sent or answered; `buf' counts the batches in its channel, `whole' says that
\* the last has been delivered, `ans' is what the first one says.
Frame == [fn : {"prepare", "lookup", "detail", "query", "typed"},
          slot : Slots \cup {"user"}, name : Nat, oid : Oids \cup {"none"},
          todo : Seq(Oids), at : {"start", "holding", "sent", "answered"}, fallback : BOOLEAN,
          buf : 0..ChanCap, whole : BOOLEAN, ans : {"none", "ok", "undefined", "error"}]

NewFrame(fn, slot, name, at) ==
  [fn |-> fn, slot |-> slot, name |-> name, oid |-> "none", todo |-> <<>>, at |-> at,
   fallback |-> FALSE, buf |-> 0, whole |-> FALSE, ans |-> "none"]

\* A request, owned by the frame of a caller that reads its response.
Request(op, slot, name, owner) == [op |-> op, slot |-> slot, name |-> name, owner |-> owner]

Depth(c) == Len(stack[c])
Top(c) == stack[c][Depth(c)]
Below(c) == stack[c][Depth(c) - 1]
Busy(c) == stack[c] # <<>>

WithTop(c, f) == [stack EXCEPT ![c][Depth(c)] = f]
Pushed(c, f, g) == [stack EXCEPT ![c] = Append([@ EXCEPT ![Depth(c)] = f], g)]
Popped(c, f) == [stack EXCEPT ![c] = SubSeq(@, 1, Depth(c) - 2) \o <<f>>]

Init ==
  /\ stack = [c \in Callers |-> <<>>]
  /\ owned = [c \in Callers |-> {}]
  /\ slots = [s \in Slots |-> 0]
  /\ types = {}
  /\ live = {}
  /\ nextName = 1
  /\ calls = 0 /\ faults = 0
  /\ sendq = <<>> /\ flight = <<>>
  /\ names = {}
  /\ abandoned = {}

-----------------------------------------------------------------------------
(* References                                                              *)

Frames(c) == {stack[c][i] : i \in 1..Depth(c)}

\* A Statement is held by its owners, by the queries that run it and by the cache.
Owned == UNION {owned[c] : c \in Callers}
Running == UNION {{f.name : f \in {g \in Frames(c) : g.fn # "prepare"}} : c \in Callers}
Cached == {slots[s] : s \in Slots}

\* (HeldByNoQuery: a mutant in which a running query keeps no reference.)
HeldByNoQuery == Owned \cup Cached
Held == Owned \cup Running \cup Cached

\* Dropping an unread Responses: whatever still comes for it is discarded.
Disown(q) == [i \in 1..Len(q) |-> IF q[i].owner # None /\ q[i].owner[2] > Len(stack'[q[i].owner[1]])
                                  THEN [q[i] EXCEPT !.owner = None] ELSE q[i]]
Expected(h) == h.owner[2] <= Len(stack'[h.owner[1]])

Orders(S) == {q \in [1..Cardinality(S) -> S] : \A i, j \in DOMAIN q : q[i] = q[j] => i = j}
Close(n) == Request("close", "user", n, None)

\* StatementInner::drop, for every Statement that nothing refers to any more.
\* (Forgets: a mutant that drops it without a Close.)
Forgets(gone) == {<<>>}
Closes(gone) == {[i \in DOMAIN q |-> Close(q[i])] : q \in Orders(gone)}

\* What every step of a caller ends with: the Statements created, those dropped,
\* the requests sent, and the response no longer awaited (Execute lets no two of
\* them be in flight).
Settle(created, sent) ==
  LET all == live \cup created IN
    /\ live' = all \cap Held'
    /\ \E closes \in Closes(all \ Held') : sendq' = Disown(sendq) \o closes \o sent
    /\ flight' = IF flight # <<>> /\ ~Expected(Head(flight)) THEN <<>> ELSE flight
    /\ UNCHANGED names

-----------------------------------------------------------------------------
(* Calls                                                                   *)

Call(c) == ~Busy(c) /\ calls < MaxCalls /\ calls' = calls + 1

Start(c, f, sent) ==
  /\ Call(c)
  /\ stack' = [stack EXCEPT ![c] = <<f>>]
  /\ UNCHANGED <<owned, slots, types, faults, abandoned>>
  /\ Settle({}, sent)

CallPrepare(c) ==
  /\ Start(c, NewFrame("prepare", "user", nextName, "sent"),
           <<Request("parse", "user", nextName, <<c, 1>>)>>)
  /\ nextName' = nextName + 1

CallQuery(c) ==
  /\ \E n \in owned[c] : Start(c, NewFrame("query", "user", n, "holding"), <<>>)
  /\ UNCHANGED nextName

CallTyped(c) ==
  /\ Start(c, NewFrame("typed", "user", 0, "sent"), <<Request("typed", "user", 0, <<c, 1>>)>>)
  /\ UNCHANGED nextName

\* A caller drops a statement it has, also while it is running a query with it.
DropStatement(c) ==
  /\ \E n \in owned[c] : owned' = [owned EXCEPT ![c] = @ \ {n}]
  /\ UNCHANGED stack
  /\ UNCHANGED <<slots, types, nextName, calls, faults, abandoned>>
  /\ Settle({}, <<>>)

Fault == faults < MaxFaults /\ faults' = faults + 1

ClearTypeCache ==
  /\ types # {}
  /\ types' = {}
  /\ Fault
  /\ UNCHANGED <<stack, owned, slots, live, nextName, calls, sendq, flight, names, abandoned>>

\* The whole call ends, with an error or because its future is dropped.
GiveUp(c) ==
  /\ stack' = [stack EXCEPT ![c] = <<>>]
  /\ abandoned' = abandoned \cup {f.name : f \in {g \in Frames(c) : g.fn = "prepare"}}
  /\ UNCHANGED <<owned, slots, types, nextName, calls>>
  /\ Settle({}, <<>>)

Cancel(c) == Busy(c) /\ Fault /\ GiveUp(c)

-----------------------------------------------------------------------------
(* Looking types up: get_type, typeinfo_statement and its like             *)

\* The statement is in the cache, or has to be prepared.
Begin(c) ==
  /\ Busy(c) /\ Top(c).at = "start"
  /\ UNCHANGED <<owned, slots, types, calls, faults, abandoned>>
  /\ LET f == Top(c)
         n == slots[f.slot] IN
       IF n # 0 /\ ~f.fallback
       THEN /\ stack' = WithTop(c, [f EXCEPT !.name = n, !.at = "holding"])
            /\ Settle({}, <<>>)
            /\ UNCHANGED nextName
       ELSE /\ stack' = Pushed(c, f, NewFrame("prepare", f.slot, nextName, "sent"))
            /\ Settle({}, <<Request("parse", f.slot, nextName, <<c, Depth(c) + 1>>)>>)
            /\ nextName' = nextName + 1

\* The query is encoded and sent; other callers may have run since it got hold of
\* its statement.
Run(c) ==
  /\ Busy(c) /\ Top(c).at = "holding"
  /\ stack' = WithTop(c, [Top(c) EXCEPT !.at = "sent"])
  /\ UNCHANGED <<owned, slots, types, nextName, calls, faults, abandoned>>
  /\ Settle({}, <<Request("run", Top(c).slot, Top(c).name, <<c, Depth(c)>>)>>)

Has(c) == Busy(c) /\ Top(c).at = "sent" /\ Top(c).ans # "none"

\* The typeinfo queries have fallbacks for older servers; composite has none.
HasFallback(f) == f.fn = "prepare" /\ f.slot \in {"info", "enum"} /\ f.ans = "undefined"

FallBack(c) ==
  /\ Has(c) /\ HasFallback(Top(c)) /\ ~Below(c).fallback
  /\ stack' = Popped(c, [Below(c) EXCEPT !.fallback = TRUE])
  /\ abandoned' = abandoned \cup {Top(c).name}
  /\ UNCHANGED <<owned, slots, types, nextName, calls, faults>>
  /\ Settle({}, <<>>)

Failed(c) ==
  /\ Has(c) /\ Top(c).ans # "ok"
  /\ ~(HasFallback(Top(c)) /\ ~Below(c).fallback)
  /\ UNCHANGED faults
  /\ GiveUp(c)

\* The types to look up once the first batch of an answer has come, and whether
\* a type has variants or fields to be asked for first.
Wanted(f) ==
  IF f.fn = "typed" THEN TypedColumns
  ELSE IF f.fn = "prepare" /\ f.slot = "user" THEN Columns
  ELSE IF f.fn = "lookup" /\ Kind[f.oid] = "nested" THEN {Parts[f.oid]}
  ELSE {<<>>}
HasDetail(f) == f.fn = "lookup" /\ Kind[f.oid] \in {"enum", "composite"}

Answered(c) ==
  /\ Has(c) /\ Top(c).ans = "ok"
  /\ LET f == [Top(c) EXCEPT !.at = "answered", !.buf = @ - 1] IN
       IF HasDetail(f)
       THEN stack' = Pushed(c, f, NewFrame("detail", Kind[f.oid], 0, "start"))
       ELSE \E cols \in Wanted(f) : stack' = WithTop(c, [f EXCEPT !.todo = cols])
  /\ UNCHANGED <<owned, slots, types, nextName, calls, faults, abandoned>>
  /\ Settle({}, <<>>)

Ready(c) == Busy(c) /\ Top(c).at = "answered"

\* The next type: builtin or known, or to be looked up.
Resolve(c) ==
  /\ Ready(c) /\ Top(c).todo # <<>>
  /\ LET f == Top(c)
         o == Head(f.todo) IN
       stack' = IF o \in types THEN WithTop(c, [f EXCEPT !.todo = Tail(@)])
                ELSE Pushed(c, f, [NewFrame("lookup", "info", 0, "start") EXCEPT !.oid = o])
  /\ UNCHANGED <<owned, slots, types, nextName, calls, faults, abandoned>>
  /\ Settle({}, <<>>)

\* Rows are read to the end of the response.
Drain(c) ==
  /\ Ready(c) /\ Top(c).todo = <<>> /\ Top(c).fn \in {"query", "detail", "typed"}
  /\ Top(c).buf > 0
  /\ stack' = WithTop(c, [Top(c) EXCEPT !.buf = @ - 1])
  /\ UNCHANGED <<owned, slots, types, nextName, calls, faults, abandoned>>
  /\ Settle({}, <<>>)

Complete(c) == Ready(c) /\ Top(c).todo = <<>>
Drained(c) == Complete(c) /\ Top(c).whole /\ Top(c).buf = 0

PrepareDone(c) ==
  /\ Complete(c) /\ Top(c).fn = "prepare" /\ Top(c).slot = "user"
  /\ owned' = [owned EXCEPT ![c] = @ \cup {Top(c).name}]
  /\ stack' = [stack EXCEPT ![c] = <<>>]
  /\ UNCHANGED <<slots, types, nextName, calls, faults, abandoned>>
  /\ Settle({Top(c).name}, <<>>)

\* A statement of the cache is stored, which may drop another.
StatementCached(c) ==
  /\ Complete(c) /\ Top(c).fn = "prepare" /\ Top(c).slot \in Slots
  /\ slots' = [slots EXCEPT ![Below(c).slot] = Top(c).name]
  /\ stack' = Popped(c, [Below(c) EXCEPT !.name = Top(c).name, !.at = "holding"])
  /\ UNCHANGED <<owned, types, nextName, calls, faults, abandoned>>
  /\ Settle({Top(c).name}, <<>>)

\* get_type stores the type; the rows it has not read are dropped.
LookupDone(c) ==
  /\ Complete(c) /\ Top(c).fn = "lookup"
  /\ types' = types \cup {Top(c).oid}
  /\ stack' = Popped(c, [Below(c) EXCEPT !.todo = Tail(@)])
  /\ UNCHANGED <<owned, slots, nextName, calls, faults, abandoned>>
  /\ Settle({}, <<>>)

\* The variants of an enum, or the fields of a composite, whose types come next.
DetailDone(c) ==
  /\ Drained(c) /\ Top(c).fn = "detail"
  /\ stack' = Popped(c, [Below(c) EXCEPT !.todo = Parts[Below(c).oid]])
  /\ UNCHANGED <<owned, slots, types, nextName, calls, faults, abandoned>>
  /\ Settle({}, <<>>)

RowsDone(c) ==
  /\ Drained(c) /\ Top(c).fn \in {"query", "typed"}
  /\ stack' = [stack EXCEPT ![c] = <<>>]
  /\ UNCHANGED <<owned, slots, types, nextName, calls, faults, abandoned>>
  /\ Settle({}, <<>>)

-----------------------------------------------------------------------------
(* The server, and the delivery of its responses                           *)

\* Batches after the first, at the most: the end of the request, or of the only row and
\* of the request, or rows.  Fewer, fuller batches reach no state that these do not.
Rest(m) == IF m.op = "parse" \/ m.op = "close" THEN 1
           ELSE IF m.op = "run" /\ m.slot = "info" THEN 2
           ELSE MaxRest

\* An error of its own tells the prepare of a typeinfo query that the server is old.
Errors(m) == IF m.op = "parse" /\ m.slot \in {"info", "enum"} THEN {"error", "undefined"}
             ELSE {"error"}

Respond(m, ans, rest) ==
  flight' = IF m.owner = None THEN flight
            ELSE Append(flight, [owner |-> m.owner, ans |-> ans, left |-> 1 + rest])

\* The server takes the next request once its last response has been delivered: it may
\* well be earlier, but what it does is seen only through that order.
Execute ==
  /\ sendq # <<>> /\ flight = <<>>
  /\ sendq' = Tail(sendq)
  /\ LET m == Head(sendq) IN
       \/ /\ Respond(m, "ok", Rest(m))
          /\ names' = CASE m.op = "parse" -> names \cup {m.name}
                        [] m.op = "close" -> names \ {m.name}
                        [] OTHER -> names
          /\ UNCHANGED faults
       \/ /\ m.op # "close" /\ Fault
          /\ \E ans \in Errors(m) : Respond(m, ans, 1)
          /\ UNCHANGED names
  /\ UNCHANGED <<stack, owned, slots, types, live, nextName, calls, abandoned>>

\* (TightRoom: a mutant in which a channel holds one batch less.)
TightRoom(f) == f.buf + 1 < ChanCap
Room(f) == f.buf < ChanCap

Deliver ==
  /\ flight # <<>>
  /\ LET h == Head(flight)
         c == h.owner[1]
         d == h.owner[2]
         f == stack[c][d] IN
       /\ Room(f)
       /\ stack' = [stack EXCEPT ![c][d] =
                      [f EXCEPT !.buf = @ + 1, !.whole = (h.left = 1),
                                !.ans = IF @ = "none" THEN h.ans ELSE @]]
       /\ flight' = IF h.left = 1 THEN Tail(flight)
                    ELSE [flight EXCEPT ![1].left = @ - 1]
  /\ UNCHANGED <<owned, slots, types, live, nextName, calls, faults, sendq, names, abandoned>>

-----------------------------------------------------------------------------
Advance(c) == Begin(c) \/ Run(c) \/ FallBack(c) \/ Failed(c) \/ Answered(c) \/ Resolve(c) \/ Drain(c)
                \/ PrepareDone(c) \/ StatementCached(c) \/ LookupDone(c)
                \/ DetailDone(c) \/ RowsDone(c)

Next ==
  \/ \E c \in Callers : \/ CallPrepare(c) \/ CallQuery(c) \/ CallTyped(c)
                        \/ DropStatement(c) \/ Cancel(c) \/ Advance(c)
  \/ ClearTypeCache \/ Execute \/ Deliver

Spec == Init /\ [][Next]_vars

\* Callers poll their futures; the task and the server go on.
Fairness == WF_vars(Execute) /\ WF_vars(Deliver) /\ \A c \in Callers : WF_vars(Advance(c))

FairSpec == Spec /\ Fairness

-----------------------------------------------------------------------------
(* Properties                                                              *)

\* A statement is on the server when a request that runs it gets there: no Close
\* overtakes it, whichever of its holders let go first (query.rs, statement.rs).
RunFindsStatement ==
  \A i \in 1..Len(sendq) : sendq[i].op = "run" =>
    /\ sendq[i].name \in names
    /\ \A j \in 1..i - 1 : sendq[j].op = "close" => sendq[j].name # sendq[i].name

Preparing == {f.name : f \in UNION {{g \in Frames(c) : g.fn = "prepare"} : c \in Callers}}
Closing == {sendq[i].name : i \in {j \in 1..Len(sendq) : sendq[j].op = "close"}}

\* Every statement the server has is in use, being prepared or about to be closed,
\* or its prepare was given up before there was a Statement to close it.
NamesAccounted ==
  names \subseteq live \cup Preparing \cup Closing \cup abandoned

\* A response that cannot be delivered is one its caller is reading: a call never
\* waits for an answer while one it has left unread, and too long for the channel,
\* stands before it and before every other answer (prepare.rs, query.rs).
FullIsBeingRead ==
  flight # <<>> =>
    LET c == Head(flight).owner[1]
        d == Head(flight).owner[2] IN
      Room(stack[c][d]) \/ d = Depth(c)

\* Every call ends, however many look types up at once (CHANGELOG of 0.7.3: a deadlock
\* when pipelined requests concurrently prepare the typeinfo queries).
Settles == \A c \in Callers : Busy(c) ~> ~Busy(c)
=============================================================================
