------------------------------ MODULE Connection ------------------------------
(***************************************************************************)
(* The connection task of tokio-postgres (connection.rs) with the two      *)
(* sides it joins: the callers that hold a Client (client.rs, copy_in.rs)  *)
(* and the server.                                                         *)
(*                                                                         *)
(* Callers pipeline requests: InnerClient::send puts a request on an       *)
(* unbounded queue and returns at once with a Responses, the receiving     *)
(* half of a small bounded channel.  One task owns the socket.  Nothing on *)
(* the wire says which request a response belongs to: the task routes by   *)
(* position alone, with a queue of the requests it has written and not yet *)
(* seen completed.  The model numbers requests in the order they are sent, *)
(* and a server message carries the number of the request it answers,      *)
(* which the task never looks at and the properties do.                    *)
(***************************************************************************)
EXTENDS Naturals, Sequences

CONSTANTS
  MaxRequests, \* requests the callers send
  MaxChunks,   \* batches in a response, the last one included
  MaxAsync,    \* notices and parameter changes the server sends
  ChanCap,     \* batches (or copy messages) an mpsc::channel(1) holds
  WriteCap,    \* messages at which the write buffer asks to be flushed first
  SocketCap,   \* messages in flight in each direction
  CopyRejects  \* may the server refuse a COPY before entering copy mode

ASSUME BoundsAssumption ==
  /\ MaxRequests \in Nat \ {0}
  /\ MaxChunks \in Nat \ {0}
  /\ MaxAsync \in Nat
  /\ ChanCap \in Nat \ {0}
  /\ WriteCap \in Nat \ {0}
  /\ SocketCap \in Nat \ {0}
  /\ CopyRejects \in BOOLEAN

Req == 1..MaxRequests

VARIABLES
  \* the callers
  open,     \* is a Client (an Arc<InnerClient>) still alive
  sent,     \* number of requests sent so far
  rcv,      \* what became of the Responses of each request
  got,      \* batches taken from the Responses, while it is open
  sink,     \* stage of a COPY FROM STDIN; "none" for any other request
  copyq,    \* the channel from a CopyInSink to its CopyInReceiver
  \* shared by callers and task
  sendq,    \* the unbounded queue of requests
  chan,     \* the response channel of each request
  \* the fields of Connection, and where its poll has got to
  receiverClosed, pendingRequest, copyDone, pendingResponses, responses, state,
  pc,       \* phase of the poll; "done" resolved, "dropped" freed
  waiting,  \* what the task asked to be woken by
  yielded,  \* poll_read returned a notice, so poll goes round once more
  handled,  \* number of the last asynchronous message acted on
  \* the wire: Framed's write buffer and the socket's two directions
  wbuf, toServer, inbound,
  \* the server
  srv, eof, asyncs

clientVars == <<open, sent, rcv, got, sink, copyq>>
connVars == <<receiverClosed, pendingRequest, copyDone, pendingResponses,
              responses, state, pc, waiting, yielded, handled>>
wireVars == <<wbuf, toServer, inbound>>
serverVars == <<srv, eof, asyncs>>
vars == <<clientVars, sendq, chan, connVars, wireVars, serverVars>>

-----------------------------------------------------------------------------
(* Messages.  A backend item is what the codec hands over: a batch of the  *)
(* response to `req', or an asynchronous message that arrived while the    *)
(* server was at `req'.                                                    *)

Chunk(r, n, last) == [type |-> "Normal", req |-> r, part |-> n, complete |-> last]
Async(t, r, n) == [type |-> t, req |-> r, part |-> n, complete |-> FALSE]
Front(t, r) == [type |-> t, req |-> r]

CopyMessage == {"CopyStart", "CopyData", "CopyEnd"}
FrontMessage == [type : CopyMessage \cup {"Single", "Terminate"}, req : Nat]
BackMessage == [type : {"Normal", "Notice", "Parameter"}, req : Nat,
                part : Nat, complete : BOOLEAN]

ClientTypeOK ==
  /\ open \in BOOLEAN
  /\ sent \in 0..MaxRequests
  /\ rcv \in [Req -> {"unsent", "open", "finished", "closed", "dropped"}]
  /\ got \in [Req -> Nat]
  /\ sink \in [Req -> {"none", "start", "await", "data", "done", "dropped"}]
  /\ copyq \in [Req -> Seq(CopyMessage)]
  /\ \A r \in Req : Len(copyq[r]) <= ChanCap

QueueTypeOK ==
  /\ sendq \in Seq(Req)
  /\ chan \in [Req -> Seq(BackMessage)]
  /\ \A r \in Req : Len(chan[r]) <= ChanCap

TaskTypeOK ==
  /\ receiverClosed \in BOOLEAN
  /\ pendingRequest \in 0..MaxRequests
  /\ copyDone \in BOOLEAN
  /\ pendingResponses \in Seq(BackMessage)
  /\ responses \in Seq(Req)
  /\ state \in {"Active", "Closing"}
  /\ pc \in {"idle", "read", "write", "flush", "shutdown", "done", "dropped"}
  /\ waiting \subseteq {"stream", "sender", "receiver", "copy", "socket"}
  /\ yielded \in BOOLEAN
  /\ handled \in Nat

WireTypeOK ==
  /\ wbuf \in Seq(FrontMessage)
  /\ toServer \in Seq(FrontMessage)
  /\ Len(toServer) <= SocketCap
  /\ inbound \in Seq(BackMessage)
  /\ Len(inbound) <= SocketCap

ServerTypeOK ==
  /\ srv \in [mode : {"idle", "busy", "copy", "skip", "closed"},
              req : Nat, part : Nat]
  /\ eof \in BOOLEAN
  /\ asyncs \in 0..MaxAsync

TypeOK == ClientTypeOK /\ QueueTypeOK /\ TaskTypeOK /\ WireTypeOK /\ ServerTypeOK

\* Notices read during the handshake are delayed into the new Connection.
Init ==
  /\ open = TRUE /\ sent = 0
  /\ rcv = [r \in Req |-> "unsent"]
  /\ got = [r \in Req |-> 0]
  /\ sink = [r \in Req |-> "none"]
  /\ copyq = [r \in Req |-> <<>>]
  /\ sendq = <<>>
  /\ chan = [r \in Req |-> <<>>]
  /\ asyncs \in 0..MaxAsync
  /\ pendingResponses = [i \in 1..asyncs |-> Async("Notice", 1, i)]
  /\ receiverClosed = FALSE /\ pendingRequest = 0 /\ copyDone = FALSE
  /\ responses = <<>> /\ state = "Active"
  /\ pc = "read" /\ waiting = {} /\ yielded = FALSE /\ handled = 0
  /\ wbuf = <<>> /\ toServer = <<>> /\ inbound = <<>>
  /\ srv = [mode |-> "idle", req |-> 1, part |-> 1] /\ eof = FALSE

-----------------------------------------------------------------------------
(* Polling.  A pending source keeps the task's waker; the task is polled   *)
(* again when one of the sources it is registered with has become ready.   *)

\* poll_ready of the sender of request r: room, or nobody to read any more.
\* (IgnoresRoom: a mutant that sends without asking.)
IgnoresRoom(r) == TRUE
CanTake(r) == rcv[r] # "open" \/ Len(chan[r]) < ChanCap

\* The request queue is ready with a request, or at its end when the last
\* sender is gone.  (SleepsAtEnd: a mutant that is not woken by the latter.)
SleepsAtEnd == sendq # <<>>
RequestReady == sendq # <<>> \/ ~open

Ready(source) ==
  CASE source = "stream"   -> inbound # <<>> \/ eof
    [] source = "sender"   -> responses # <<>> /\ CanTake(Head(responses))
    [] source = "receiver" -> RequestReady
    [] source = "copy"     -> /\ pendingRequest # 0
                              /\ \/ copyq[pendingRequest] # <<>>
                                 \/ sink[pendingRequest] = "dropped"
    [] source = "socket"   -> Len(toServer) < SocketCap \/ eof

Wake ==
  /\ pc = "idle"
  /\ \E s \in waiting : Ready(s)
  /\ pc' = "read"
  /\ waiting' = {}
  /\ UNCHANGED <<clientVars, sendq, chan, receiverClosed, pendingRequest, copyDone,
                 pendingResponses, responses, state, yielded, handled,
                 wireVars, serverVars>>

\* A terminal result closes the request queue to senders and resolves the task.
Resolve ==
  /\ receiverClosed' = TRUE
  /\ pc' = "done"

\* The end of one poll_message: round again after a notice, else shut down if
\* the terminate message has been written, else return Pending.
Return(st) ==
  /\ yielded' = FALSE
  /\ pc' = IF yielded THEN "read" ELSE IF st = "Closing" THEN "shutdown" ELSE "idle"

-----------------------------------------------------------------------------
(* poll_read                                                               *)

\* poll_response: what was parked comes before what is on the wire.
\* (WireFirst: a mutant that prefers the wire.)
WireFirst == pendingResponses # <<>> /\ inbound = <<>>
FromPending == pendingResponses # <<>>
HasItem == FromPending \/ inbound # <<>>
Item == IF FromPending THEN Head(pendingResponses) ELSE Head(inbound)
PendingRest == IF FromPending THEN Tail(pendingResponses) ELSE pendingResponses
InboundRest == IF FromPending THEN inbound ELSE Tail(inbound)

TakeItem ==
  /\ pendingResponses' = PendingRest
  /\ inbound' = InboundRest

Reading == pc = "read" /\ state = "Active"

ReadNotice ==
  /\ Reading /\ HasItem /\ Item.type = "Notice"
  /\ TakeItem
  /\ handled' = Item.part
  /\ yielded' = TRUE
  /\ pc' = "write"
  /\ UNCHANGED <<clientVars, sendq, chan, receiverClosed, pendingRequest, copyDone,
                 responses, state, waiting, wbuf, toServer, serverVars>>

ReadParameter ==
  /\ Reading /\ HasItem /\ Item.type = "Parameter"
  /\ TakeItem
  /\ handled' = Item.part
  /\ UNCHANGED <<clientVars, sendq, chan, receiverClosed, pendingRequest, copyDone,
                 responses, state, pc, waiting, yielded, wbuf, toServer, serverVars>>

\* The head response is popped, and pushed back to the front until its request
\* is complete.
\* Mutants: requeued at the wrong end; popped with every batch; popped as soon as
\* its receiver has hung up.
RequeueAtBack(m) == IF m.complete THEN Tail(responses)
                                  ELSE Append(Tail(responses), Head(responses))
PopAlways(m) == Tail(responses)
PopHungUp(m) == IF m.complete \/ rcv[Head(responses)] # "open"
                THEN Tail(responses) ELSE responses
ResponsesAfter(m) == IF m.complete THEN Tail(responses) ELSE responses

ReadResponse ==
  /\ Reading /\ HasItem /\ Item.type = "Normal"
  /\ responses # <<>> /\ CanTake(Head(responses))
  /\ TakeItem
  /\ chan' = IF rcv[Head(responses)] = "open"
             THEN [chan EXCEPT ![Head(responses)] = Append(@, Item)]
             ELSE chan
  /\ responses' = ResponsesAfter(Item)
  /\ UNCHANGED <<clientVars, sendq, receiverClosed, pendingRequest, copyDone, state,
                 pc, waiting, yielded, handled, wbuf, toServer, serverVars>>

\* A batch the receiver has no room for waits in pending_responses.
\* (ParkedLost: a mutant that forgets the batch.)
ParkedLost(m) == PendingRest
Parked(m) == Append(PendingRest, m)

ReadBlocked ==
  /\ Reading /\ HasItem /\ Item.type = "Normal"
  /\ responses # <<>> /\ ~CanTake(Head(responses))
  /\ pendingResponses' = Parked(Item)
  /\ inbound' = InboundRest
  /\ waiting' = waiting \cup {"sender"}
  /\ pc' = "write"
  /\ UNCHANGED <<clientVars, sendq, chan, receiverClosed, pendingRequest, copyDone,
                 responses, state, yielded, handled, wbuf, toServer, serverVars>>

ReadUnexpected ==
  /\ Reading /\ HasItem /\ Item.type = "Normal" /\ responses = <<>>
  /\ TakeItem
  /\ Resolve
  /\ UNCHANGED <<clientVars, sendq, chan, pendingRequest, copyDone, responses, state,
                 waiting, yielded, handled, wbuf, toServer, serverVars>>

ReadPending ==
  /\ Reading /\ ~HasItem /\ ~eof
  /\ waiting' = waiting \cup {"stream"}
  /\ pc' = "write"
  /\ UNCHANGED <<clientVars, sendq, chan, receiverClosed, pendingRequest, copyDone,
                 pendingResponses, responses, state, yielded, handled,
                 wireVars, serverVars>>

ReadEof ==
  /\ Reading /\ ~HasItem /\ eof
  /\ Resolve
  /\ UNCHANGED <<clientVars, sendq, chan, pendingRequest, copyDone, pendingResponses,
                 responses, state, waiting, yielded, handled, wireVars, serverVars>>

ReadDone ==
  /\ pc = "read" /\ state = "Closing"
  /\ pc' = "write"
  /\ UNCHANGED <<clientVars, sendq, chan, receiverClosed, pendingRequest, copyDone,
                 pendingResponses, responses, state, waiting, yielded, handled,
                 wireVars, serverVars>>

Read == ReadNotice \/ ReadParameter \/ ReadResponse \/ ReadBlocked
          \/ ReadUnexpected \/ ReadPending \/ ReadEof \/ ReadDone

-----------------------------------------------------------------------------
(* poll_write, poll_flush and poll_shutdown                                *)

Room == SocketCap - Len(toServer)
Flushes == Len(wbuf) <= Room
Flushable == IF Flushes THEN Len(wbuf) ELSE Room

\* Hand the socket what it takes; what it does not take stays, and the task
\* waits for it.
Drain ==
  /\ toServer' = toServer \o SubSeq(wbuf, 1, Flushable)
  /\ wbuf' = SubSeq(wbuf, Flushable + 1, Len(wbuf))
  /\ waiting' = IF Flushes THEN waiting ELSE waiting \cup {"socket"}
  /\ UNCHANGED inbound

Writing == pc = "write" /\ state = "Active"
Writable == Writing /\ Len(wbuf) < WriteCap

\* poll_ready of a full write buffer flushes it, and stops poll_write (without
\* a further flush) when the socket does not take all of it.
WriteBackpressure ==
  /\ Writing /\ Len(wbuf) >= WriteCap
  /\ Flushes \/ ~eof
  /\ Drain
  /\ IF Flushes THEN UNCHANGED <<pc, yielded>> ELSE Return(state)
  /\ UNCHANGED <<clientVars, sendq, chan, receiverClosed, pendingRequest, copyDone,
                 pendingResponses, responses, state, handled, serverVars>>

\* poll_request: a CopyIn that is under way is retried before anything else.
\* (NewRequestFirst: a mutant that looks at the queue first.)
NewRequestFirst == sendq # <<>>
NewRequest == pendingRequest = 0 /\ sendq # <<>>

WriteSingle ==
  /\ Writable /\ NewRequest /\ sink[Head(sendq)] = "none"
  /\ sendq' = Tail(sendq)
  /\ responses' = Append(responses, Head(sendq))
  /\ wbuf' = Append(wbuf, Front("Single", Head(sendq)))
  /\ UNCHANGED <<clientVars, chan, receiverClosed, pendingRequest, copyDone,
                 pendingResponses, state, pc, waiting, yielded, handled,
                 toServer, inbound, serverVars>>

WriteBeginCopy ==
  /\ Writable /\ NewRequest /\ sink[Head(sendq)] # "none"
  /\ sendq' = Tail(sendq)
  /\ responses' = Append(responses, Head(sendq))
  /\ pendingRequest' = Head(sendq)
  /\ UNCHANGED <<clientVars, chan, receiverClosed, copyDone, pendingResponses, state,
                 pc, waiting, yielded, handled, wireVars, serverVars>>

\* CopyInReceiver::poll_next: the next message of the sink; CopyDone and Sync
\* after Done; CopyFail and Sync when the sink went away without it.
WriteCopy ==
  /\ Writable /\ pendingRequest # 0 /\ ~copyDone
  /\ \/ /\ copyq[pendingRequest] # <<>>
        /\ wbuf' = Append(wbuf, Front(Head(copyq[pendingRequest]), pendingRequest))
        /\ copyDone' = (Head(copyq[pendingRequest]) = "CopyEnd")
        /\ copyq' = [copyq EXCEPT ![pendingRequest] = Tail(@)]
     \/ /\ copyq[pendingRequest] = <<>> /\ sink[pendingRequest] = "dropped"
        /\ wbuf' = Append(wbuf, Front("CopyEnd", pendingRequest))
        /\ copyDone' = TRUE
        /\ UNCHANGED copyq
  /\ UNCHANGED <<open, sent, rcv, got, sink, sendq, chan, receiverClosed,
                 pendingRequest, pendingResponses, responses, state, pc, waiting,
                 yielded, handled, toServer, inbound, serverVars>>

WriteCopyFinished ==
  /\ Writable /\ pendingRequest # 0 /\ copyDone
  /\ pendingRequest' = 0
  /\ copyDone' = FALSE
  /\ UNCHANGED <<clientVars, sendq, chan, receiverClosed, pendingResponses, responses,
                 state, pc, waiting, yielded, handled, wireVars, serverVars>>

\* poll_message_inner flushes when poll_write has nothing left to write.
\* (SkipFlush: a mutant that does not.)
SkipFlush == "idle"
AfterWrite == "flush"

WriteCopyPending ==
  /\ Writable /\ pendingRequest # 0 /\ ~copyDone
  /\ copyq[pendingRequest] = <<>> /\ sink[pendingRequest] # "dropped"
  /\ waiting' = waiting \cup {"copy"}
  /\ pc' = AfterWrite
  /\ UNCHANGED <<clientVars, sendq, chan, receiverClosed, pendingRequest, copyDone,
                 pendingResponses, responses, state, yielded, handled,
                 wireVars, serverVars>>

WritePending ==
  /\ Writable /\ pendingRequest = 0 /\ sendq = <<>> /\ open
  /\ waiting' = waiting \cup {"receiver"}
  /\ pc' = AfterWrite
  /\ UNCHANGED <<clientVars, sendq, chan, receiverClosed, pendingRequest, copyDone,
                 pendingResponses, responses, state, yielded, handled,
                 wireVars, serverVars>>

AtEof == pendingRequest = 0 /\ sendq = <<>> /\ ~open
\* (MayTerminateEarly: a mutant that does not wait for outstanding responses.)
MayTerminateEarly == AtEof
MayTerminate == AtEof /\ responses = <<>>

WriteTerminate ==
  /\ Writable /\ MayTerminate
  /\ wbuf' = Append(wbuf, Front("Terminate", 0))
  /\ state' = "Closing"
  /\ Return("Closing")
  /\ UNCHANGED <<clientVars, sendq, chan, receiverClosed, pendingRequest, copyDone,
                 pendingResponses, responses, waiting, handled,
                 toServer, inbound, serverVars>>

WriteEof ==
  /\ Writable /\ AtEof /\ ~MayTerminate
  /\ pc' = AfterWrite
  /\ UNCHANGED <<clientVars, sendq, chan, receiverClosed, pendingRequest, copyDone,
                 pendingResponses, responses, state, waiting, yielded, handled,
                 wireVars, serverVars>>

WriteDone ==
  /\ pc = "write" /\ state = "Closing"
  /\ Return(state)
  /\ UNCHANGED <<clientVars, sendq, chan, receiverClosed, pendingRequest, copyDone,
                 pendingResponses, responses, state, waiting, handled,
                 wireVars, serverVars>>

Flush ==
  /\ pc = "flush"
  /\ Flushes \/ ~eof
  /\ Drain
  /\ Return(state)
  /\ UNCHANGED <<clientVars, sendq, chan, receiverClosed, pendingRequest, copyDone,
                 pendingResponses, responses, state, handled, serverVars>>

Shutdown ==
  /\ pc = "shutdown"
  /\ Flushes \/ ~eof
  /\ Drain
  /\ IF Flushes THEN Resolve ELSE pc' = "idle" /\ UNCHANGED receiverClosed
  /\ UNCHANGED <<clientVars, sendq, chan, pendingRequest, copyDone, pendingResponses,
                 responses, state, yielded, handled, serverVars>>

\* Once the server has gone a write may still land in a kernel buffer, or fail.
WriteError ==
  /\ eof /\ wbuf # <<>>
  /\ pc \in {"flush", "shutdown"} \/ (Writing /\ Len(wbuf) >= WriteCap)
  /\ Resolve
  /\ UNCHANGED <<clientVars, sendq, chan, pendingRequest, copyDone, pendingResponses,
                 responses, state, waiting, yielded, handled, wireVars, serverVars>>

Write == WriteBackpressure \/ WriteSingle \/ WriteBeginCopy \/ WriteCopy
           \/ WriteCopyFinished \/ WriteCopyPending \/ WritePending
           \/ WriteTerminate \/ WriteEof \/ WriteDone \/ Flush \/ Shutdown
           \/ WriteError

\* The executor frees a resolved task, and with it every sender and receiver.
DropConnection ==
  /\ pc = "done"
  /\ pc' = "dropped"
  /\ sendq' = <<>> /\ responses' = <<>> /\ pendingResponses' = <<>>
  /\ pendingRequest' = 0 /\ copyDone' = FALSE /\ waiting' = {}
  /\ copyq' = [r \in Req |-> <<>>]
  /\ wbuf' = <<>> /\ inbound' = <<>>
  /\ UNCHANGED <<open, sent, rcv, got, sink, chan, receiverClosed, state, yielded,
                 handled, toServer, serverVars>>

-----------------------------------------------------------------------------
(* The callers                                                             *)

\* InnerClient::send; once the queue is closed it returns an error instead.
Send(copy) ==
  /\ open /\ ~receiverClosed /\ sent < MaxRequests
  /\ sent' = sent + 1
  /\ rcv' = [rcv EXCEPT ![sent'] = "open"]
  /\ sink' = [sink EXCEPT ![sent'] = IF copy THEN "start" ELSE "none"]
  /\ sendq' = Append(sendq, sent')
  /\ UNCHANGED <<open, got, copyq, chan, connVars, wireVars, serverVars>>

\* The Responses of r stops being read: nothing of it is kept.
Leave(r, how) ==
  /\ rcv' = [rcv EXCEPT ![r] = how]
  /\ got' = [got EXCEPT ![r] = 0]
  /\ chan' = [chan EXCEPT ![r] = <<>>]

\* Dropping a CopyInSink, or the copy_in future, before Done has been sent.
AbandonCopy(r) ==
  sink' = IF sink[r] \in {"await", "data"} THEN [sink EXCEPT ![r] = "dropped"] ELSE sink

\* Responses::poll_next hands over one batch.  copy_in reads up to the
\* CopyInResponse and then not again before poll_finish.
Recv(r) ==
  /\ rcv[r] = "open" /\ sink[r] \in {"none", "await", "done"} /\ chan[r] # <<>>
  /\ IF Head(chan[r]).complete
     THEN /\ Leave(r, "finished")
          /\ AbandonCopy(r)
     ELSE IF sink[r] = "done"
     THEN /\ Leave(r, "dropped")
          /\ UNCHANGED sink
     ELSE /\ got' = [got EXCEPT ![r] = @ + 1]
          /\ chan' = [chan EXCEPT ![r] = Tail(@)]
          /\ sink' = IF sink[r] = "await" THEN [sink EXCEPT ![r] = "data"] ELSE sink
          /\ UNCHANGED rcv
  /\ UNCHANGED <<open, sent, copyq, sendq, connVars, wireVars, serverVars>>

InSeq(x, s) == \E i \in 1..Len(s) : s[i] = x

\* The channel ends when its sender is gone: Responses reports Error::closed.
RecvClosed(r) ==
  /\ rcv[r] = "open" /\ sink[r] \in {"none", "await", "done"} /\ chan[r] = <<>>
  /\ ~InSeq(r, sendq) /\ ~InSeq(r, responses)
  /\ Leave(r, "closed")
  /\ AbandonCopy(r)
  /\ UNCHANGED <<open, sent, copyq, sendq, connVars, wireVars, serverVars>>

\* A caller cancels the future that holds the Responses.
DropResponses(r) ==
  /\ rcv[r] = "open" /\ sink[r] # "start"
  /\ Leave(r, "dropped")
  /\ AbandonCopy(r)
  /\ UNCHANGED <<open, sent, copyq, sendq, connVars, wireVars, serverVars>>

\* The sink's sender is ready: the receiver is alive and the channel has room.
SinkReady(r) == pc # "dropped" /\ Len(copyq[r]) < ChanCap

\* copy_in queues Bind, Execute and Sync for the receiver it has just sent.
CopyStart(r) ==
  /\ sink[r] = "start" /\ SinkReady(r)
  /\ copyq' = [copyq EXCEPT ![r] = Append(@, "CopyStart")]
  /\ sink' = [sink EXCEPT ![r] = "await"]
  /\ UNCHANGED <<open, sent, rcv, got, sendq, chan, connVars, wireVars, serverVars>>

CopyData(r) ==
  /\ sink[r] = "data" /\ SinkReady(r)
  /\ copyq' = [copyq EXCEPT ![r] = Append(@, "CopyData")]
  /\ UNCHANGED <<open, sent, rcv, got, sink, sendq, chan, connVars, wireVars, serverVars>>

\* poll_finish sends Done, closes its sender and goes on to read the result.
CopyFinish(r) ==
  /\ sink[r] = "data" /\ SinkReady(r)
  /\ copyq' = [copyq EXCEPT ![r] = Append(@, "CopyEnd")]
  /\ sink' = [sink EXCEPT ![r] = "done"]
  /\ UNCHANGED <<open, sent, rcv, got, sendq, chan, connVars, wireVars, serverVars>>

\* The CopyInReceiver is gone: the sink's next call reports Error::closed.
CopyClosed(r) ==
  /\ sink[r] \in {"start", "data"} /\ pc = "dropped"
  /\ Leave(r, "closed")
  /\ sink' = [sink EXCEPT ![r] = "dropped"]
  /\ UNCHANGED <<open, sent, copyq, sendq, connVars, wireVars, serverVars>>

CloseClient ==
  /\ open
  /\ open' = FALSE
  /\ UNCHANGED <<sent, rcv, got, sink, copyq, sendq, chan, connVars, wireVars, serverVars>>

Client ==
  \/ \E copy \in BOOLEAN : Send(copy)
  \/ \E r \in Req : Recv(r) \/ RecvClosed(r) \/ DropResponses(r) \/ CopyStart(r)
                      \/ CopyData(r) \/ CopyFinish(r) \/ CopyClosed(r)
  \/ CloseClient

-----------------------------------------------------------------------------
(* The server, as far as the protocol fixes it.  It answers requests in    *)
(* order, one or more batches each, the last one ending in ReadyForQuery.  *)
(* In copy mode the Sync that came with the Execute is ignored; after an   *)
(* error it discards messages up to the next Sync.                         *)

CanReply == Len(inbound) < SocketCap /\ ~eof
Reply(m) == inbound' = Append(inbound, m)
Goes(mode, r, n) == srv' = [mode |-> mode, req |-> r, part |-> n]
Arrives(types) == ~eof /\ toServer # <<>> /\ Head(toServer).type \in types
Consume == toServer' = Tail(toServer)
serverFrame == <<clientVars, sendq, chan, connVars, wbuf>>

SrvTake ==
  /\ srv.mode = "idle" /\ Arrives({"Single"})
  /\ Consume
  /\ Goes("busy", Head(toServer).req, 1)
  /\ UNCHANGED <<serverFrame, inbound, eof, asyncs>>

SrvChunk ==
  /\ srv.mode = "busy" /\ CanReply /\ srv.part < MaxChunks
  /\ Reply(Chunk(srv.req, srv.part, FALSE))
  /\ Goes("busy", srv.req, srv.part + 1)
  /\ UNCHANGED <<serverFrame, toServer, eof, asyncs>>

SrvReady ==
  /\ srv.mode = "busy" /\ CanReply
  /\ Reply(Chunk(srv.req, srv.part, TRUE))
  /\ Goes("idle", srv.req + 1, 1)
  /\ UNCHANGED <<serverFrame, toServer, eof, asyncs>>

SrvCopyStart ==
  /\ srv.mode = "idle" /\ Arrives({"CopyStart"}) /\ CanReply
  /\ Consume
  /\ \/ /\ Reply(Chunk(Head(toServer).req, 1, FALSE))
        /\ Goes("copy", Head(toServer).req, 2)
     \/ /\ CopyRejects
        /\ Reply(Chunk(Head(toServer).req, 1, TRUE))
        /\ Goes("idle", Head(toServer).req + 1, 1)
  /\ UNCHANGED <<serverFrame, eof, asyncs>>

\* A row is stored, or fails with an ErrorResponse.
SrvCopyData ==
  /\ srv.mode = "copy" /\ Arrives({"CopyData"}) /\ CanReply
  /\ Consume
  /\ \/ UNCHANGED <<inbound, srv>>
     \/ /\ Reply(Chunk(srv.req, srv.part, FALSE))
        /\ Goes("skip", srv.req, srv.part + 1)
  /\ UNCHANGED <<serverFrame, eof, asyncs>>

SrvCopySkip ==
  /\ srv.mode = "skip" /\ Arrives({"CopyData"})
  /\ Consume
  /\ UNCHANGED <<serverFrame, inbound, srv, eof, asyncs>>

SrvCopyEnd ==
  /\ srv.mode \in {"copy", "skip"} /\ Arrives({"CopyEnd"}) /\ CanReply
  /\ Consume
  /\ Reply(Chunk(srv.req, srv.part, TRUE))
  /\ Goes("idle", srv.req + 1, 1)
  /\ UNCHANGED <<serverFrame, eof, asyncs>>

\* Out of copy mode CopyData, CopyDone and CopyFail are ignored; a Sync is not.
SrvStrayCopy ==
  /\ srv.mode = "idle"
  /\ \/ /\ Arrives({"CopyData"})
        /\ UNCHANGED inbound
     \/ /\ Arrives({"CopyEnd"}) /\ CanReply
        /\ Reply(Chunk(Head(toServer).req, 2, TRUE))
  /\ Consume
  /\ UNCHANGED <<serverFrame, srv, eof, asyncs>>

SrvTerminate ==
  /\ srv.mode = "idle" /\ Arrives({"Terminate"})
  /\ Consume
  /\ srv' = [srv EXCEPT !.mode = "closed"]
  /\ eof' = TRUE
  /\ UNCHANGED <<serverFrame, inbound, asyncs>>

SrvAsync ==
  /\ srv.mode # "closed" /\ CanReply /\ asyncs < MaxAsync
  /\ asyncs' = asyncs + 1
  /\ \E t \in {"Notice", "Parameter"} : Reply(Async(t, srv.req, asyncs'))
  /\ UNCHANGED <<serverFrame, toServer, srv, eof>>

\* The server, or the network, goes away without a word.
SrvCrash ==
  /\ ~eof
  /\ eof' = TRUE
  /\ srv' = [srv EXCEPT !.mode = "closed"]
  /\ UNCHANGED <<serverFrame, toServer, inbound, asyncs>>

Serve == SrvTake \/ SrvChunk \/ SrvReady \/ SrvCopyStart \/ SrvCopyData
           \/ SrvCopySkip \/ SrvCopyEnd \/ SrvStrayCopy \/ SrvTerminate

-----------------------------------------------------------------------------
Poll == Wake \/ Read \/ Write

\* The callers are done and the task has been freed.
Terminated ==
  /\ pc = "dropped" /\ ~open /\ \A r \in Req : rcv[r] # "open"
  /\ UNCHANGED vars

Next == Poll \/ DropConnection \/ Client \/ Serve \/ SrvAsync \/ SrvCrash \/ Terminated

Spec == Init /\ [][Next]_vars

\* The executor runs the task when it has been woken and frees it when it is
\* over; a live server goes on serving; callers poll what they await, and a
\* caller with a CopyInSink stops sending at some point and finishes.
Fairness ==
  /\ WF_vars(Poll)
  /\ WF_vars(DropConnection)
  /\ WF_vars(Serve)
  /\ \A r \in Req : /\ WF_vars(Recv(r)) /\ WF_vars(RecvClosed(r))
                    /\ WF_vars(CopyStart(r)) /\ WF_vars(CopyClosed(r))
                    /\ SF_vars(CopyFinish(r))

FairSpec == Spec /\ Fairness

-----------------------------------------------------------------------------
(* Properties                                                              *)

\* Positional routing is right: whatever is cancelled, parked or aborted, a
\* response channel only ever holds batches the server sent for its request.
Routing ==
  \A r \in Req : \A i \in 1..Len(chan[r]) : chan[r][i].req = r

\* A caller sees the batches of its response in the order the server sent them,
\* none lost and none twice, also when one was parked for want of room.
GapFree ==
  \A r \in Req : \A i \in 1..Len(chan[r]) : chan[r][i].part = got[r] + i

\* While the server is copying, the next message it finds belongs to that copy:
\* requests sent meanwhile do not cut into a CopyIn request.
CopyExclusive ==
  srv.mode \in {"copy", "skip"} /\ toServer # <<>> =>
    /\ Head(toServer).type \in {"CopyData", "CopyEnd"}
    /\ Head(toServer).req = srv.req

\* A caller is told that the connection is closed only when it is: not because
\* the task lost track of its response channel.
ClosedMeansResolved ==
  \A r \in Req : rcv[r] = "closed" => pc = "dropped"

\* Without a fatal error the task ends only when its Client is gone and the
\* server has completed every request sent: it never terminates over work that
\* is still outstanding.
ResolvesWhenDone ==
  state = "Closing" => ~open /\ srv.req = sent + 1

\* Notices and parameter changes are acted on in the order the server sent them,
\* those delayed by the handshake first, and none is skipped.
AsyncInOrder == [][handled' \in {handled, handled + 1}]_vars

\* Every request settles: its caller gets the whole response, or an error.  No
\* wakeup is lost between sockets, channels and queues.
Settles == \A r \in Req : rcv[r] = "open" ~> rcv[r] # "open"

\* It has written Terminate over an answer, which it will not read any more: the
\* server's to a Sync too many, or one still due behind that.
Misled ==
  state = "Closing" /\ (srv.req # sent + 1 \/ \E i \in 1..Len(inbound) : inbound[i].type = "Normal")

\* When the last Client is gone the task drains its work and resolves, unless it is
\* misled by the second completion of a COPY that was refused.
CloseCompletes == ~open ~> pc = "dropped" \/ Misled
=============================================================================
