------------------------------- MODULE Blocking -------------------------------
(***************************************************************************)
(* The blocking client (crate postgres).  It owns the connection task and  *)
(* has no thread of its own: the task runs only inside a call, where       *)
(* poll_block_on polls it until it has nothing more to do and then polls   *)
(* what the call waits for (`f').  Notifications that any call happens to  *)
(* read are kept in a queue, for three iterators to take them from.        *)
(*                                                                         *)
(* One call runs at a time, and a RowIter or a TimeoutIter borrows the     *)
(* client until it is dropped.  Requests are numbered in the order sent;   *)
(* a part of a response carries its request's number, which only the       *)
(* properties look at.                                                     *)
(***************************************************************************)
EXTENDS Naturals, Sequences

CONSTANTS
  MaxRequests, \* requests the caller makes
  MaxParts,    \* batches in a response
  MaxNotes,    \* notifications the server sends
  ChanCap      \* batches the channel of a response holds

ASSUME BlockingAssumption ==
  /\ MaxRequests \in Nat \ {0} /\ MaxParts \in Nat \ {0}
  /\ MaxNotes \in Nat /\ ChanCap \in Nat \ {0}

VARIABLES
  \* the caller
  holds,    \* what borrows the Client, or "client" when nothing does
  op,       \* the call in progress, or the last one
  stage,    \* "out" of any call, else where poll_block_on has got to
  outcome,  \* what the last call returned
  got,      \* parts of its response a call has read
  timer,    \* the Sleep of is_valid or of a TimeoutIter
  queue,    \* Connection::notifications
  handed,   \* notifications the iterators have returned
  \* the async client and its connection task
  sent,     \* requests sent so far
  reading,  \* the request whose Responses is alive, or 0
  chan,     \* the channel of that Responses
  sendq,    \* requests the task has not taken
  waiting,  \* requests written and not answered in full
  closing,  \* "open", "closed" by the client, "sent" a Terminate
  ended,    \* poll_message has returned None or an error
  lost,     \* a write has failed
  \* the server
  toServer, inbound, srv, noted, notes

callVars == <<holds, op, stage, outcome, got, timer, queue, handed>>
taskVars == <<sent, reading, chan, sendq, waiting, closing, ended, lost>>
serverVars == <<toServer, inbound, srv, noted, notes>>
vars == <<callVars, taskVars, serverVars>>

Part(r, n, last) == [type |-> "part", n |-> n, req |-> r, last |-> last]
Item(t, n) == [type |-> t, n |-> n, req |-> 0, last |-> FALSE]
\* The end of the stream is never taken off it.
Eof == Item("eof", 0)

Requests == {"query", "open", "valid"}
Iterators == {"iter", "blocking", "timed"}
Timed == {"valid", "timed"}
Closes == {"close", "drop"}

Init ==
  /\ holds = "client" /\ op = "none" /\ stage = "out" /\ outcome = "none"
  /\ got = <<>> /\ timer = "off" /\ queue = <<>> /\ handed = <<>>
  /\ sent = 0 /\ reading = 0 /\ chan = <<>> /\ sendq = <<>> /\ waiting = <<>>
  /\ closing = "open" /\ ended = FALSE /\ lost = FALSE
  /\ toServer = <<>> /\ inbound = <<>> /\ srv = "up" /\ noted = 0 /\ notes = 0

-----------------------------------------------------------------------------
(* Calls.  Each begins by polling the connection.                          *)

Enter(o, read) ==
  /\ op' = o /\ stage' = "poll" /\ outcome' = "none" /\ got' = read

\* query, execute, prepare, batch_execute and the rest: one request and the whole
\* of its response; query_raw, copy_out: its first part, then a RowIter.
CallRequest(o) ==
  /\ stage = "out" /\ holds = "client" /\ sent < MaxRequests
  /\ Enter(o, <<>>)
  /\ timer' = IF o = "valid" THEN "armed" ELSE "off"
  /\ UNCHANGED <<holds, queue, handed, taskVars, serverVars>>

NextRow ==
  /\ stage = "out" /\ holds = "rows"
  /\ Enter("next", got)
  /\ UNCHANGED <<holds, timer, queue, handed, taskVars, serverVars>>

\* timeout_iter arms its timer when it is made.
TimeoutIter ==
  /\ stage = "out" /\ holds = "client"
  /\ holds' = "timed" /\ timer' = "armed"
  /\ UNCHANGED <<op, stage, outcome, got, queue, handed, taskVars, serverVars>>

\* A RowIter may be dropped with rows still to come.
DropBorrow ==
  /\ stage = "out" /\ holds \in {"rows", "timed"}
  /\ holds' = "client" /\ timer' = "off"
  /\ reading' = 0 /\ chan' = <<>>
  /\ UNCHANGED <<op, stage, outcome, got, queue, handed,
                 sent, sendq, waiting, closing, ended, lost, serverVars>>

\* A notification restarts the timer of a TimeoutIter.
\* (LatestFirst: a mutant that takes the newest.)
LatestFirst == <<queue[Len(queue)], SubSeq(queue, 1, Len(queue) - 1)>>
OldestFirst == <<Head(queue), Tail(queue)>>

Take(o) ==
  /\ handed' = Append(handed, OldestFirst[1])
  /\ queue' = OldestFirst[2]
  /\ timer' = IF o = "timed" THEN "armed" ELSE timer

MayIterate(o) == stage = "out" /\ holds = IF o = "timed" THEN "timed" ELSE "client"

\* Buffered notifications are returned without a look at the connection.
NextBuffered(o) ==
  /\ MayIterate(o) /\ queue # <<>>
  /\ Take(o)
  /\ op' = o /\ outcome' = "item"
  /\ UNCHANGED <<holds, stage, got, taskVars, serverVars>>

NextNotification(o) ==
  /\ MayIterate(o) /\ queue = <<>>
  /\ Enter(o, <<>>)
  /\ UNCHANGED <<holds, timer, queue, handed, taskVars, serverVars>>

\* close_inner, from close or from Drop.
CloseInner(o) ==
  /\ stage = "out" /\ holds = "client"
  /\ Enter(o, <<>>)
  /\ closing' = IF closing = "open" THEN "closed" ELSE closing
  /\ UNCHANGED <<holds, timer, queue, handed,
                 sent, reading, chan, sendq, waiting, ended, lost, serverVars>>

\* A call returns; close consumes the client, which then drops it.  A request's
\* Responses goes with its future, a RowIter keeps it, also after an error.
Release(result) ==
  IF op = "next" \/ (op = "open" /\ result = "ok")
    THEN UNCHANGED <<reading, chan>>
    ELSE reading' = 0 /\ chan' = <<>>

Return(result) ==
  /\ outcome' = result
  /\ stage' = IF op = "close" THEN "poll" ELSE "out"
  /\ op' = IF op = "close" THEN "drop" ELSE op
  /\ holds' = CASE op = "drop" -> "gone"
                [] op = "open" /\ result = "ok" -> "rows"
                [] OTHER -> holds

-----------------------------------------------------------------------------
(* poll_block_on: the connection, until it is Pending or over.             *)

Active == stage = "poll" /\ closing # "sent"

Terminal ==
  /\ ended' = TRUE
  /\ Return("error") /\ Release("error")

\* The head of the line is for the call that reads, or for nobody any more; an error
\* is an answer while there is a request to answer.
\* (DeliverAny: a mutant that takes whatever comes for its own.)
DeliverAny == reading # 0
Wanted == reading # 0 /\ waiting # <<>> /\ Head(waiting) = reading
Blocked == Wanted /\ Len(chan) = ChanCap

AtPart ==
  /\ inbound # <<>>
  /\ Head(inbound).type = "part" \/ (Head(inbound).type = "fatal" /\ waiting # <<>>)
AtNote == inbound # <<>> /\ Head(inbound).type = "note"
Idle == inbound = <<>> \/ (AtPart /\ Blocked)

ReadPart ==
  /\ Active /\ AtPart /\ ~Blocked
  /\ chan' = IF Wanted THEN Append(chan, Head(inbound)) ELSE chan
  /\ waiting' = IF Head(inbound).last THEN Tail(waiting) ELSE waiting
  /\ inbound' = Tail(inbound)
  /\ UNCHANGED <<callVars, sent, reading, sendq, closing, ended, lost,
                 toServer, srv, noted, notes>>

\* poll_write and poll_flush, which follow what poll_read returned: the requests
\* are written, to nobody when the server has gone.
Written ==
  /\ lost = FALSE /\ UNCHANGED lost
  /\ waiting' = waiting \o sendq /\ sendq' = <<>>
  /\ toServer' = IF srv = "gone" THEN toServer ELSE toServer \o sendq

ReadNote ==
  /\ Active /\ AtNote /\ Written
  /\ inbound' = Tail(inbound)
  /\ queue' = Append(queue, Head(inbound).n)
  /\ UNCHANGED <<holds, op, stage, outcome, got, timer, handed, sent, reading, chan,
                 closing, ended, srv, noted, notes>>

\* A write that fails comes after the read, whose message is dropped with it.
WriteFails ==
  /\ Active /\ srv = "gone" /\ (sendq # <<>> \/ lost)
  /\ AtNote \/ Idle
  /\ lost' = TRUE
  /\ inbound' = IF AtNote THEN Tail(inbound) ELSE inbound
  /\ Terminal
  /\ UNCHANGED <<got, timer, queue, handed, sent, sendq, waiting, closing,
                 toServer, srv, noted, notes>>

\* An ErrorResponse that answers no request is the connection's own.
ReadFatal ==
  /\ Active /\ inbound # <<>> /\ Head(inbound).type = "fatal" /\ waiting = <<>>
  /\ inbound' = Tail(inbound)
  /\ Terminal
  /\ UNCHANGED <<got, timer, queue, handed, sent, sendq, waiting, closing,
                 lost, toServer, srv, noted, notes>>

ReadEof ==
  /\ Active /\ inbound # <<>> /\ Head(inbound).type = "eof"
  /\ Terminal
  /\ UNCHANGED <<got, timer, queue, handed, sent, sendq, waiting, closing,
                 lost, serverVars>>

\* Nothing to read.  At the end of its requests, with none outstanding, the task
\* writes Terminate and shuts the socket down, and is done.
ReadPending ==
  /\ Active /\ Idle /\ Written
  /\ closing' = IF closing = "closed" /\ waiting \o sendq = <<>> THEN "sent" ELSE closing
  /\ ended' = (ended \/ closing' = "sent")
  /\ stage' = "f"
  /\ UNCHANGED <<holds, op, outcome, got, timer, queue, handed,
                 sent, reading, chan, inbound, srv, noted, notes>>

\* Polled once more after that, it shuts the socket down again.
PollAfterClose ==
  /\ stage = "poll" /\ closing = "sent"
  /\ stage' = "f"
  /\ UNCHANGED <<holds, op, outcome, got, timer, queue, handed,
                 taskVars, serverVars>>

-----------------------------------------------------------------------------
(* poll_block_on: f.                                                       *)

\* A request is sent when its future is first polled.
Unsent == op \in Requests /\ reading = 0

Refused ==
  /\ stage = "f" /\ Unsent /\ ended
  /\ Return("error")
  /\ UNCHANGED <<got, timer, queue, handed, taskVars, serverVars>>

Send ==
  /\ stage = "f" /\ Unsent /\ ~ended
  /\ sent' = sent + 1 /\ reading' = sent + 1
  /\ sendq' = Append(sendq, sent + 1)
  /\ UNCHANGED <<callVars, chan, waiting, closing, ended, lost, serverVars>>

Failed(parts) == \E i \in DOMAIN parts : parts[i].type = "fatal"
Complete(parts) == parts # <<>> /\ parts[Len(parts)].last

Await == stage = "f" /\ ~Unsent

\* A request reads all there is, a RowIter the next part.
Answered ==
  /\ Await /\ op \in {"query", "valid"}
  /\ Failed(chan) \/ Complete(got \o chan)
  /\ got' = got \o chan
  /\ Return(IF Failed(chan) THEN "error" ELSE "ok")
  /\ reading' = 0 /\ chan' = <<>>
  /\ UNCHANGED <<timer, queue, handed, sent, sendq, waiting, closing, ended, lost,
                 serverVars>>

RowsOpened ==
  /\ Await /\ op = "open" /\ chan # <<>>
  /\ got' = <<Head(chan)>>
  /\ IF Failed(got') THEN Return("error") /\ Release("error")
     ELSE Return("ok") /\ chan' = Tail(chan) /\ UNCHANGED reading
  /\ UNCHANGED <<timer, queue, handed, sent, sendq, waiting, closing, ended, lost,
                 serverVars>>

RowRead ==
  /\ Await /\ op = "next" /\ chan # <<>>
  /\ got' = Append(got, Head(chan)) /\ chan' = Tail(chan)
  /\ Return(IF Failed(<<Head(chan)>>) THEN "error"
            ELSE IF Complete(got') THEN "end" ELSE "item")
  /\ UNCHANGED <<timer, queue, handed, sent, reading, sendq, waiting, closing,
                 ended, lost, serverVars>>

\* The channel of a complete response is closed: reading on is an error.
RowsOver ==
  /\ Await /\ op = "next" /\ chan = <<>> /\ Complete(got)
  /\ Return("error")
  /\ UNCHANGED <<got, timer, queue, handed, taskVars, serverVars>>

Notified ==
  /\ stage = "f" /\ op \in Iterators /\ queue # <<>>
  /\ Take(op) /\ Return("item")
  /\ UNCHANGED <<got, taskVars, serverVars>>

Pending ==
  \/ op \in {"query", "valid"} /\ ~Failed(chan) /\ ~Complete(got \o chan)
  \/ op = "open" /\ chan = <<>>
  \/ op = "next" /\ chan = <<>> /\ ~Complete(got)
  \/ op \in {"blocking", "timed"} /\ queue = <<>>
  \/ op \in Closes /\ closing # "sent"

\* (NeverTimesOut: a mutant that does not poll the timer.)
NeverTimesOut == FALSE
TimedOut == op \in Timed /\ timer = "fired"

\* Iter gives up at once, TimeoutIter and is_valid when their timer has fired.
GivesUp ==
  /\ stage = "f" /\ ~Unsent
  /\ \/ op = "iter" /\ queue = <<>> /\ Return("end")
     \/ op = "timed" /\ queue = <<>> /\ TimedOut /\ Return("end")
     \/ op = "valid" /\ Pending /\ TimedOut /\ Return("timeout")
  /\ reading' = 0 /\ chan' = <<>>
  /\ UNCHANGED <<got, timer, queue, handed, sent, sendq, waiting, closing,
                 ended, lost, serverVars>>

Closed ==
  /\ stage = "f" /\ op \in Closes /\ closing = "sent"
  /\ Return("ok")
  /\ UNCHANGED <<got, timer, queue, handed, taskVars, serverVars>>

FPending ==
  /\ stage = "f" /\ ~Unsent /\ Pending /\ ~TimedOut
  /\ stage' = "pending"
  /\ got' = IF op \in {"query", "valid"} THEN got \o chan ELSE got
  /\ chan' = IF op \in {"query", "valid"} THEN <<>> ELSE chan
  /\ UNCHANGED <<holds, op, outcome, timer, queue, handed,
                 sent, reading, sendq, waiting, closing, ended, lost, serverVars>>

\* What wakes the thread: requests to write, something to read, the timer.
\* (Deaf: a mutant that is woken by answers alone.)
Deaf == AtPart /\ ~Blocked
Readable == ~Idle

Woken ==
  /\ stage = "pending"
  /\ \/ sendq # <<>>
     \/ Readable
     \/ TimedOut
  /\ stage' = "poll"
  /\ UNCHANGED <<holds, op, outcome, got, timer, queue, handed,
                 taskVars, serverVars>>

Fire ==
  /\ timer = "armed" /\ (holds = "timed" \/ (op = "valid" /\ stage # "out"))
  /\ timer' = "fired"
  /\ UNCHANGED <<holds, op, stage, outcome, got, queue, handed,
                 taskVars, serverVars>>

-----------------------------------------------------------------------------
(* The server.                                                             *)

Answer ==
  /\ srv = "up" /\ toServer # <<>>
  /\ \E last \in BOOLEAN :
       /\ noted + 1 = MaxParts => last
       /\ inbound' = Append(inbound, Part(Head(toServer), noted + 1, last))
       /\ noted' = IF last THEN 0 ELSE noted + 1
       /\ toServer' = IF last THEN Tail(toServer) ELSE toServer
  /\ UNCHANGED <<callVars, taskVars, srv, notes>>

Notify ==
  /\ srv = "up" /\ notes < MaxNotes
  /\ notes' = notes + 1
  /\ inbound' = Append(inbound, Item("note", notes + 1))
  /\ UNCHANGED <<callVars, taskVars, toServer, srv, noted>>

\* It may fall silent, or announce its end, or go at once.
Hang ==
  /\ srv \in {"up", "dying"} /\ srv' = "hung"
  /\ UNCHANGED <<callVars, taskVars, toServer, inbound, noted, notes>>

Announce ==
  /\ srv = "up" /\ srv' = "dying"
  /\ inbound' = Append(inbound, Item("fatal", 0))
  /\ UNCHANGED <<callVars, taskVars, toServer, noted, notes>>

Vanish ==
  /\ srv # "gone" /\ srv' = "gone"
  /\ inbound' = Append(inbound, Eof)
  /\ UNCHANGED <<callVars, taskVars, toServer, noted, notes>>

-----------------------------------------------------------------------------
Call ==
  \/ \E o \in Requests : CallRequest(o)
  \/ NextRow \/ TimeoutIter \/ DropBorrow
  \/ \E o \in Iterators : NextBuffered(o) \/ NextNotification(o)
  \/ \E o \in Closes : CloseInner(o)

Poll ==
  \/ ReadPart \/ ReadNote \/ WriteFails \/ ReadFatal \/ ReadEof \/ ReadPending
  \/ PollAfterClose

PollF ==
  \/ Refused \/ Send \/ Answered \/ RowsOpened \/ RowRead \/ RowsOver \/ Notified
  \/ GivesUp \/ Closed \/ FPending

Server == Answer \/ Notify \/ Hang \/ Announce \/ Vanish

Next == Call \/ Poll \/ PollF \/ Woken \/ Fire \/ Server

Spec == Init /\ [][Next]_vars

\* The thread runs whenever it can; time passes; a server that is up answers, and
\* one that has announced its end goes.
FairSpec ==
  /\ Spec
  /\ WF_vars(Poll \/ PollF \/ Woken)
  /\ WF_vars(Fire) /\ WF_vars(Answer) /\ WF_vars(srv = "dying" /\ Vanish)

-----------------------------------------------------------------------------
(* Properties.                                                             *)

\* Notifications come out of the iterators in the order the server sent them, none
\* twice, whichever call happened to read them off the socket, and none is missing
\* unless a write has failed (poll_block_on, Notifications).
NotificationsKept ==
  LET seen == handed \o queue
      coming == {i \in DOMAIN inbound : inbound[i].type = "note"}
  IN /\ \A i, j \in DOMAIN seen : i < j => seen[i] < seen[j]
     /\ ~lost => /\ \A i \in DOMAIN seen : seen[i] = i
                 /\ \A i, j \in coming : i < j => inbound[i].n < inbound[j].n
                 /\ {inbound[i].n : i \in coming} = (Len(seen) + 1)..notes

\* What a call returns is its own response from the first part to the last, though
\* earlier ones were abandoned by is_valid at its timeout or with a RowIter.
OwnAnswer ==
  (op \in Requests \cup {"next"} /\ ~Failed(got)) =>
     /\ \A i \in DOMAIN got : got[i].req = sent /\ got[i].n = i
     /\ ((outcome = "ok" /\ op # "open") \/ outcome = "end") => Complete(got)

\* Every call returns, also after the connection has ended and however often it is
\* polled again, but for one that waits for a notification or for an answer that a
\* silent server owes (also to an earlier call, when the client is dropped); is_valid and
\* timeout_iter return even then.
CallsReturn ==
  (stage # "out") ~>
     \/ stage = "out" \/ op = "blocking"
     \/ srv = "hung" /\ waiting # <<>> /\ op \notin Timed

\* blocking_iter returns once a notification has been sent.
NotificationWakes ==
  (op = "blocking" /\ stage # "out" /\ Len(handed) < notes) ~> (stage = "out")
=============================================================================
