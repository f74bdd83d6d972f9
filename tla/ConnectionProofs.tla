---------------------------- MODULE ConnectionProofs ----------------------------
(***************************************************************************)
(* The connection task, for every number of requests, batches and          *)
(* asynchronous messages and every capacity.  First its types: the         *)
(* response channels, the copy channels and the socket never hold more     *)
(* than they can, whoever reads or does not.  Then the queues between a    *)
(* caller and the server as chains: what taking, adding and moving         *)
(* messages does to them.  Then, from a server that does not refuse a      *)
(* COPY: positional routing is right, the task terminates only when the    *)
(* server has completed every request, and no request cuts into a COPY.    *)
(* Last what the callers are promised: notices and parameter changes in    *)
(* order, an error only from a connection that is over, each response      *)
(* without a gap, and the refinement of Pipeline.                          *)
(***************************************************************************)
EXTENDS MCConnection, SequenceTheorems, TLAPS

-----------------------------------------------------------------------------
(* Messages                                                                *)

LEMMA ChunkType ==
  ASSUME NEW r \in Nat, NEW n \in Nat, NEW last \in BOOLEAN
  PROVE  /\ Chunk(r, n, last) \in BackMessage
         /\ Chunk(r, n, last).req = r
         /\ Chunk(r, n, last).complete = last
         /\ Chunk(r, n, last).type = "Normal"
BY DEF Chunk, BackMessage

LEMMA AsyncType ==
  ASSUME NEW t \in {"Notice", "Parameter"}, NEW r \in Nat, NEW n \in Nat
  PROVE  /\ Async(t, r, n) \in BackMessage
         /\ Async(t, r, n).req = r
         /\ Async(t, r, n).complete = FALSE
         /\ Async(t, r, n).type = t
BY DEF Async, BackMessage

LEMMA FrontType ==
  ASSUME NEW t \in CopyMessage \cup {"Single", "Terminate"}, NEW r \in Nat
  PROVE  /\ Front(t, r) \in FrontMessage
         /\ Front(t, r).type = t
         /\ Front(t, r).req = r
BY DEF Front, FrontMessage

-----------------------------------------------------------------------------
(* Frames: what an action leaves alone keeps its type.                     *)

LEMMA ClientFrame == ClientTypeOK /\ UNCHANGED clientVars => ClientTypeOK'
BY DEF ClientTypeOK, clientVars

LEMMA QueueFrame == QueueTypeOK /\ UNCHANGED <<sendq, chan>> => QueueTypeOK'
BY DEF QueueTypeOK

LEMMA TaskFrame == TaskTypeOK /\ UNCHANGED connVars => TaskTypeOK'
BY DEF TaskTypeOK, connVars

LEMMA WireFrame == WireTypeOK /\ UNCHANGED wireVars => WireTypeOK'
BY DEF WireTypeOK, wireVars

LEMMA ServerFrame == ServerTypeOK /\ UNCHANGED serverVars => ServerTypeOK'
BY DEF ServerTypeOK, serverVars

-----------------------------------------------------------------------------
(* The task                                                                *)

\* The next item of poll_read is a message, and so is everything left behind it.
LEMMA ItemType ==
  ASSUME TaskTypeOK, WireTypeOK, HasItem
  PROVE  /\ Item \in BackMessage
         /\ PendingRest \in Seq(BackMessage)
         /\ InboundRest \in Seq(BackMessage)
         /\ Len(InboundRest) <= SocketCap
<1>1. CASE FromPending
  <2>1. pendingResponses \in Seq(BackMessage) /\ pendingResponses # <<>>
    BY <1>1 DEF TaskTypeOK, FromPending
  <2>2. Head(pendingResponses) \in BackMessage /\ Tail(pendingResponses) \in Seq(BackMessage)
    BY <2>1, HeadTailProperties
  <2> QED
    BY <1>1, <2>2 DEF Item, PendingRest, InboundRest, WireTypeOK
<1>2. CASE ~FromPending
  <2>1. inbound \in Seq(BackMessage) /\ inbound # <<>>
    BY <1>2 DEF WireTypeOK, HasItem
  <2>2. /\ Head(inbound) \in BackMessage /\ Tail(inbound) \in Seq(BackMessage)
        /\ Len(Tail(inbound)) = Len(inbound) - 1
    BY <2>1, HeadTailProperties
  <2>3. Len(inbound) \in Nat /\ Len(inbound) <= SocketCap /\ SocketCap \in Nat
    BY <2>1, LenProperties, BoundsAssumption DEF WireTypeOK
  <2> QED
    BY <1>2, <2>2, <2>3 DEF Item, PendingRest, InboundRest, TaskTypeOK
<1> QED
  BY <1>1, <1>2

\* What a flush moves is bounded by the room there is in the socket.
LEMMA DrainType ==
  ASSUME WireTypeOK, waiting \subseteq {"stream", "sender", "receiver", "copy", "socket"},
         Drain
  PROVE  /\ WireTypeOK'
         /\ waiting' \subseteq {"stream", "sender", "receiver", "copy", "socket"}
         /\ Flushable \in 0..Len(wbuf)
<1>1. /\ wbuf \in Seq(FrontMessage) /\ toServer \in Seq(FrontMessage)
      /\ Len(wbuf) \in Nat /\ Len(toServer) \in Nat
      /\ SocketCap \in Nat /\ Len(toServer) <= SocketCap
  BY LenProperties, BoundsAssumption DEF WireTypeOK
<1>2. Flushable \in 0..Len(wbuf) /\ Flushable <= Room /\ Room \in Nat
  BY <1>1 DEF Flushable, Flushes, Room
<1>3. \A i \in 1..Len(wbuf) : wbuf[i] \in FrontMessage
  BY <1>1, ElementOfSeq
<1>4. /\ SubSeq(wbuf, 1, Flushable) \in Seq(FrontMessage)
      /\ Len(SubSeq(wbuf, 1, Flushable)) = Flushable
  <2>1. \A i \in 1..Flushable : wbuf[i] \in FrontMessage
    BY <1>1, <1>2, <1>3
  <2> QED
    BY <1>2, <2>1, SubSeqProperties
<1>5. SubSeq(wbuf, Flushable + 1, Len(wbuf)) \in Seq(FrontMessage)
  <2>1. \A i \in (Flushable + 1)..Len(wbuf) : wbuf[i] \in FrontMessage
    BY <1>1, <1>2, <1>3
  <2> QED
    BY <1>1, <1>2, <2>1, SubSeqProperties
<1>6. /\ toServer \o SubSeq(wbuf, 1, Flushable) \in Seq(FrontMessage)
      /\ Len(toServer \o SubSeq(wbuf, 1, Flushable)) = Len(toServer) + Flushable
  BY <1>1, <1>4, ConcatProperties
<1>7. Len(toServer) + Flushable <= SocketCap
  BY <1>1, <1>2 DEF Room
<1>8. WireTypeOK'
  BY <1>5, <1>6, <1>7 DEF Drain, WireTypeOK
<1> QED
  BY <1>2, <1>8 DEF Drain

LEMMA ReadTypeStep ==
  ASSUME TypeOK, Read
  PROVE  TypeOK'
<1> USE DEF TypeOK
<1>1. CASE ReadNotice \/ ReadParameter
  <2>1. HasItem /\ TakeItem /\ handled' = Item.part
    BY <1>1 DEF ReadNotice, ReadParameter
  <2>2. ClientTypeOK' /\ QueueTypeOK' /\ ServerTypeOK'
    BY <1>1, ClientFrame, QueueFrame, ServerFrame DEF ReadNotice, ReadParameter
  <2>3. WireTypeOK'
    BY <1>1, <2>1, ItemType DEF ReadNotice, ReadParameter, TakeItem, WireTypeOK
  <2>4. handled' \in Nat /\ pendingResponses' \in Seq(BackMessage)
    BY <2>1, ItemType DEF TakeItem, BackMessage
  <2>5. TaskTypeOK'
    BY <1>1, <2>4 DEF ReadNotice, ReadParameter, TaskTypeOK
  <2> QED
    BY <2>2, <2>3, <2>5
<1>2. CASE ReadResponse
  <2> DEFINE h == Head(responses)
  <2>1. HasItem /\ TakeItem /\ responses # <<>> /\ CanTake(h)
    BY <1>2 DEF ReadResponse
  <2>2. h \in Req /\ Tail(responses) \in Seq(Req)
    BY <2>1, HeadTailProperties DEF TaskTypeOK
  <2>3. ClientTypeOK' /\ ServerTypeOK'
    BY <1>2, ClientFrame, ServerFrame DEF ReadResponse
  <2>4. WireTypeOK'
    BY <1>2, <2>1, ItemType DEF ReadResponse, TakeItem, WireTypeOK
  <2>5. pendingResponses' \in Seq(BackMessage) /\ responses' \in Seq(Req)
    BY <1>2, <2>1, <2>2, ItemType DEF ReadResponse, ResponsesAfter, TakeItem, TaskTypeOK
  <2>6. TaskTypeOK'
    BY <1>2, <2>5 DEF ReadResponse, TaskTypeOK
  <2>7. QueueTypeOK'
    <3>1. CASE rcv[h] = "open"
      <4>1. /\ Len(chan[h]) < ChanCap /\ chan[h] \in Seq(BackMessage)
            /\ Len(chan[h]) \in Nat
        BY <2>1, <2>2, <3>1, LenProperties DEF CanTake, QueueTypeOK
      <4>2. /\ Append(chan[h], Item) \in Seq(BackMessage)
            /\ Len(Append(chan[h], Item)) <= ChanCap
        BY <2>1, <4>1, ItemType, AppendProperties, BoundsAssumption
      <4>3. chan' = [chan EXCEPT ![h] = Append(chan[h], Item)] /\ sendq' = sendq
        BY <1>2, <3>1 DEF ReadResponse
      <4> HIDE DEF h
      <4> QED
        BY <2>2, <4>2, <4>3 DEF QueueTypeOK
    <3>2. CASE rcv[h] # "open"
      BY <1>2, <3>2, QueueFrame DEF ReadResponse
    <3> QED
      BY <3>1, <3>2
  <2> QED
    BY <2>3, <2>4, <2>6, <2>7
<1>3. CASE ReadBlocked
  <2>1. HasItem
    BY <1>3 DEF ReadBlocked
  <2>2. ClientTypeOK' /\ QueueTypeOK' /\ ServerTypeOK'
    BY <1>3, ClientFrame, QueueFrame, ServerFrame DEF ReadBlocked
  <2>3. WireTypeOK'
    BY <1>3, <2>1, ItemType DEF ReadBlocked, WireTypeOK
  <2>4. Parked(Item) \in Seq(BackMessage)
    BY <2>1, ItemType, AppendProperties DEF Parked
  <2>5. TaskTypeOK'
    BY <1>3, <2>4 DEF ReadBlocked, TaskTypeOK
  <2> QED
    BY <2>2, <2>3, <2>5
<1>4. CASE ReadUnexpected
  <2>1. HasItem /\ TakeItem
    BY <1>4 DEF ReadUnexpected
  <2>2. ClientTypeOK' /\ QueueTypeOK' /\ ServerTypeOK'
    BY <1>4, ClientFrame, QueueFrame, ServerFrame DEF ReadUnexpected
  <2>3. WireTypeOK'
    BY <1>4, <2>1, ItemType DEF ReadUnexpected, TakeItem, WireTypeOK
  <2>4. pendingResponses' \in Seq(BackMessage)
    BY <2>1, ItemType DEF TakeItem
  <2>5. TaskTypeOK'
    BY <1>4, <2>4 DEF ReadUnexpected, Resolve, TaskTypeOK
  <2> QED
    BY <2>2, <2>3, <2>5
<1>5. CASE ReadPending \/ ReadEof \/ ReadDone
  <2>1. ClientTypeOK' /\ QueueTypeOK' /\ WireTypeOK' /\ ServerTypeOK'
    BY <1>5, ClientFrame, QueueFrame, WireFrame, ServerFrame
    DEF ReadPending, ReadEof, ReadDone
  <2>2. TaskTypeOK'
    BY <1>5 DEF ReadPending, ReadEof, ReadDone, Resolve, TaskTypeOK
  <2> QED
    BY <2>1, <2>2
<1> QED
  BY <1>1, <1>2, <1>3, <1>4, <1>5 DEF Read

LEMMA ZeroType == 0 \in 0..MaxRequests
BY BoundsAssumption

LEMMA WriteTypeStep ==
  ASSUME TypeOK, Write
  PROVE  TypeOK'
<1> USE DEF TypeOK
<1>1. CASE WriteBackpressure \/ Flush \/ Shutdown
  <2>1. Drain
    BY <1>1 DEF WriteBackpressure, Flush, Shutdown
  <2>2. ClientTypeOK' /\ QueueTypeOK' /\ ServerTypeOK'
    BY <1>1, ClientFrame, QueueFrame, ServerFrame DEF WriteBackpressure, Flush, Shutdown
  <2>3. /\ WireTypeOK'
        /\ waiting' \subseteq {"stream", "sender", "receiver", "copy", "socket"}
    BY <2>1, DrainType DEF TaskTypeOK
  <2>4. TaskTypeOK'
    BY <1>1, <2>3 DEF WriteBackpressure, Flush, Shutdown, Return, Resolve, TaskTypeOK
  <2> QED
    BY <2>2, <2>3, <2>4
<1>2. CASE WriteSingle \/ WriteBeginCopy
  <2>1. /\ sendq # <<>> /\ sendq' = Tail(sendq) /\ chan' = chan
        /\ responses' = Append(responses, Head(sendq))
    BY <1>2 DEF WriteSingle, WriteBeginCopy, NewRequest
  <2>2. Head(sendq) \in Req /\ Tail(sendq) \in Seq(Req)
    BY <2>1, HeadTailProperties DEF QueueTypeOK
  <2>3. Head(sendq) \in Nat /\ Head(sendq) \in 0..MaxRequests
    BY <2>2 DEF Req
  <2>4. ClientTypeOK' /\ ServerTypeOK'
    BY <1>2, ClientFrame, ServerFrame DEF WriteSingle, WriteBeginCopy
  <2>5. QueueTypeOK'
    BY <2>1, <2>2 DEF QueueTypeOK
  <2>6. responses' \in Seq(Req)
    BY <2>1, <2>2, AppendProperties DEF TaskTypeOK
  <2>7. TaskTypeOK'
    BY <1>2, <2>3, <2>6 DEF WriteSingle, WriteBeginCopy, TaskTypeOK
  <2>8. Append(wbuf, Front("Single", Head(sendq))) \in Seq(FrontMessage)
    BY <2>3, FrontType, AppendProperties DEF WireTypeOK
  <2>9. WireTypeOK'
    BY <1>2, <2>8 DEF WriteSingle, WriteBeginCopy, WireTypeOK, wireVars
  <2> QED
    BY <2>4, <2>5, <2>7, <2>9
<1>3. CASE WriteCopy
  <2> DEFINE q == copyq[pendingRequest]
  <2>1. pendingRequest \in Req /\ pendingRequest \in Nat
    BY <1>3 DEF WriteCopy, TaskTypeOK, Req
  <2>2. q \in Seq(CopyMessage) /\ Len(q) <= ChanCap /\ Len(q) \in Nat
    BY <2>1, LenProperties DEF ClientTypeOK
  <2>3. QueueTypeOK' /\ ServerTypeOK'
    BY <1>3, QueueFrame, ServerFrame DEF WriteCopy
  <2>4. TaskTypeOK'
    BY <1>3 DEF WriteCopy, TaskTypeOK
  <2>5. CASE q # <<>>
    <3>1. /\ Head(q) \in CopyMessage /\ Tail(q) \in Seq(CopyMessage)
          /\ Len(Tail(q)) <= ChanCap
      BY <2>2, <2>5, HeadTailProperties, BoundsAssumption
    <3>2. Append(wbuf, Front(Head(q), pendingRequest)) \in Seq(FrontMessage)
      BY <2>1, <3>1, FrontType, AppendProperties DEF WireTypeOK
    <3>3. /\ copyq' = [copyq EXCEPT ![pendingRequest] = Tail(q)]
          /\ wbuf' = Append(wbuf, Front(Head(q), pendingRequest))
          /\ UNCHANGED <<open, sent, rcv, got, sink, toServer, inbound>>
      BY <1>3, <2>5 DEF WriteCopy
    <3> HIDE DEF q
    <3>4. ClientTypeOK'
      BY <2>1, <3>1, <3>3 DEF ClientTypeOK
    <3>5. WireTypeOK'
      BY <3>2, <3>3 DEF WireTypeOK
    <3> QED
      BY <2>3, <2>4, <3>4, <3>5
  <2>6. CASE q = <<>>
    <3>1. Append(wbuf, Front("CopyEnd", pendingRequest)) \in Seq(FrontMessage)
      BY <2>1, FrontType, AppendProperties DEF CopyMessage, WireTypeOK
    <3>2. ClientTypeOK'
      BY <1>3, <2>6, ClientFrame DEF WriteCopy, clientVars
    <3>3. WireTypeOK'
      BY <1>3, <2>6, <3>1 DEF WriteCopy, WireTypeOK
    <3> QED
      BY <2>3, <2>4, <3>2, <3>3
  <2> QED
    BY <2>5, <2>6
<1>4. CASE WriteCopyFinished \/ WriteCopyPending \/ WritePending
  <2>1. ClientTypeOK' /\ QueueTypeOK' /\ WireTypeOK' /\ ServerTypeOK'
    BY <1>4, ClientFrame, QueueFrame, WireFrame, ServerFrame
    DEF WriteCopyFinished, WriteCopyPending, WritePending
  <2>2. TaskTypeOK'
    BY <1>4, ZeroType
    DEF WriteCopyFinished, WriteCopyPending, WritePending, AfterWrite, TaskTypeOK
  <2> QED
    BY <2>1, <2>2
<1>5. CASE WriteTerminate
  <2>1. ClientTypeOK' /\ QueueTypeOK' /\ ServerTypeOK'
    BY <1>5, ClientFrame, QueueFrame, ServerFrame DEF WriteTerminate
  <2>2. Append(wbuf, Front("Terminate", 0)) \in Seq(FrontMessage)
    BY FrontType, AppendProperties DEF WireTypeOK
  <2>3. WireTypeOK'
    BY <1>5, <2>2 DEF WriteTerminate, WireTypeOK
  <2>4. TaskTypeOK'
    BY <1>5 DEF WriteTerminate, Return, TaskTypeOK
  <2> QED
    BY <2>1, <2>3, <2>4
<1>6. CASE WriteEof \/ WriteDone \/ WriteError
  <2>1. ClientTypeOK' /\ QueueTypeOK' /\ WireTypeOK' /\ ServerTypeOK'
    BY <1>6, ClientFrame, QueueFrame, WireFrame, ServerFrame
    DEF WriteEof, WriteDone, WriteError
  <2>2. TaskTypeOK'
    BY <1>6 DEF WriteEof, WriteDone, WriteError, AfterWrite, Return, Resolve, TaskTypeOK
  <2> QED
    BY <2>1, <2>2
<1> QED
  BY <1>1, <1>2, <1>3, <1>4, <1>5, <1>6 DEF Write

LEMMA WakeDropTypeStep ==
  ASSUME TypeOK, Wake \/ DropConnection
  PROVE  TypeOK'
<1> USE DEF TypeOK
<1>1. CASE Wake
  <2>1. ClientTypeOK' /\ QueueTypeOK' /\ WireTypeOK' /\ ServerTypeOK'
    BY <1>1, ClientFrame, QueueFrame, WireFrame, ServerFrame DEF Wake
  <2>2. TaskTypeOK'
    BY <1>1 DEF Wake, TaskTypeOK
  <2> QED
    BY <2>1, <2>2
<1>2. CASE DropConnection
  <2>1. /\ <<>> \in Seq(Req) /\ <<>> \in Seq(BackMessage)
        /\ <<>> \in Seq(FrontMessage) /\ <<>> \in Seq(CopyMessage) /\ Len(<<>>) = 0
    BY EmptySeq
  <2>2. ClientTypeOK'
    BY <1>2, <2>1, BoundsAssumption DEF DropConnection, ClientTypeOK
  <2>3. QueueTypeOK'
    BY <1>2, <2>1 DEF DropConnection, QueueTypeOK
  <2>4. TaskTypeOK'
    BY <1>2, <2>1, ZeroType DEF DropConnection, TaskTypeOK
  <2>5. WireTypeOK'
    BY <1>2, <2>1, BoundsAssumption DEF DropConnection, WireTypeOK
  <2>6. ServerTypeOK'
    BY <1>2, ServerFrame DEF DropConnection
  <2> QED
    BY <2>2, <2>3, <2>4, <2>5, <2>6
<1> QED
  BY <1>1, <1>2

-----------------------------------------------------------------------------
(* The callers                                                             *)

LEMMA LeaveType ==
  ASSUME TypeOK, NEW r \in Req, NEW how \in {"finished", "closed", "dropped"},
         Leave(r, how), sendq' = sendq
  PROVE  /\ rcv' \in [Req -> {"unsent", "open", "finished", "closed", "dropped"}]
         /\ got' \in [Req -> Nat]
         /\ QueueTypeOK'
<1>1. <<>> \in Seq(BackMessage) /\ Len(<<>>) = 0 /\ ChanCap \in Nat
  BY EmptySeq, BoundsAssumption
<1>2. QueueTypeOK'
  BY <1>1 DEF Leave, TypeOK, QueueTypeOK
<1>3. rcv' \in [Req -> {"unsent", "open", "finished", "closed", "dropped"}]
  BY DEF Leave, TypeOK, ClientTypeOK
<1>4. got' \in [Req -> Nat]
  BY DEF Leave, TypeOK, ClientTypeOK
<1> QED
  BY <1>2, <1>3, <1>4

LEMMA ClientTypeStep ==
  ASSUME TypeOK, Client
  PROVE  TypeOK'
<1> USE DEF TypeOK
<1>1. ASSUME NEW copy \in BOOLEAN, Send(copy)
      PROVE  TypeOK'
  <2>1. sent' \in Req /\ sent' \in 0..MaxRequests
    BY <1>1, BoundsAssumption DEF Send, Req, ClientTypeOK
  <2>2. Append(sendq, sent') \in Seq(Req)
    BY <2>1, AppendProperties DEF QueueTypeOK
  <2>3. QueueTypeOK'
    BY <1>1, <2>2 DEF Send, QueueTypeOK
  <2>4. ClientTypeOK'
    BY <1>1, <2>1 DEF Send, ClientTypeOK
  <2> QED
    BY <1>1, <2>3, <2>4, TaskFrame, WireFrame, ServerFrame DEF Send
<1>2. ASSUME NEW r \in Req, Recv(r)
      PROVE  TypeOK'
  <2>1. TaskTypeOK' /\ WireTypeOK' /\ ServerTypeOK'
    BY <1>2, TaskFrame, WireFrame, ServerFrame DEF Recv
  <2>2. sendq' = sendq /\ UNCHANGED <<open, sent, copyq>>
    BY <1>2 DEF Recv
  <2>3. CASE Head(chan[r]).complete
    <3>1. Leave(r, "finished") /\ AbandonCopy(r)
      BY <1>2, <2>3 DEF Recv
    <3>2. ClientTypeOK'
      BY <2>2, <3>1, LeaveType DEF AbandonCopy, ClientTypeOK
    <3> QED
      BY <2>1, <2>2, <3>1, <3>2, LeaveType
  <2>4. CASE ~Head(chan[r]).complete /\ sink[r] = "done"
    <3>1. Leave(r, "dropped") /\ sink' = sink
      BY <1>2, <2>4 DEF Recv
    <3>2. ClientTypeOK'
      BY <2>2, <3>1, LeaveType DEF ClientTypeOK
    <3> QED
      BY <2>1, <2>2, <3>1, <3>2, LeaveType
  <2>5. CASE ~Head(chan[r]).complete /\ sink[r] # "done"
    <3>1. chan[r] \in Seq(BackMessage) /\ chan[r] # <<>>
      BY <1>2 DEF Recv, QueueTypeOK
    <3>2. /\ Tail(chan[r]) \in Seq(BackMessage)
          /\ Len(Tail(chan[r])) <= ChanCap
      BY <3>1, HeadTailProperties, LenProperties, BoundsAssumption DEF QueueTypeOK
    <3>3. /\ chan' = [chan EXCEPT ![r] = Tail(chan[r])]
          /\ got' = [got EXCEPT ![r] = got[r] + 1]
          /\ rcv' = rcv
          /\ sink' = IF sink[r] = "await" THEN [sink EXCEPT ![r] = "data"] ELSE sink
      BY <1>2, <2>5 DEF Recv
    <3>4. QueueTypeOK'
      BY <2>2, <3>2, <3>3 DEF QueueTypeOK
    <3>5. ClientTypeOK'
      BY <2>2, <3>3 DEF ClientTypeOK
    <3> QED
      BY <2>1, <3>4, <3>5
  <2> QED
    BY <2>3, <2>4, <2>5
<1>3. ASSUME NEW r \in Req, RecvClosed(r) \/ DropResponses(r) \/ CopyClosed(r)
      PROVE  TypeOK'
  <2>1. TaskTypeOK' /\ WireTypeOK' /\ ServerTypeOK'
    BY <1>3, TaskFrame, WireFrame, ServerFrame DEF RecvClosed, DropResponses, CopyClosed
  <2>2. /\ \E how \in {"finished", "closed", "dropped"} : Leave(r, how)
        /\ sendq' = sendq /\ UNCHANGED <<open, sent, copyq>>
    BY <1>3 DEF RecvClosed, DropResponses, CopyClosed
  <2>3. sink' \in [Req -> {"none", "start", "await", "data", "done", "dropped"}]
    BY <1>3 DEF RecvClosed, DropResponses, CopyClosed, AbandonCopy, ClientTypeOK
  <2>4. ClientTypeOK' /\ QueueTypeOK'
    BY <2>2, <2>3, LeaveType DEF ClientTypeOK
  <2> QED
    BY <2>1, <2>4
<1>4. ASSUME NEW r \in Req, CopyStart(r) \/ CopyData(r) \/ CopyFinish(r)
      PROVE  TypeOK'
  <2> DEFINE q(m) == Append(copyq[r], m)
  <2>1. /\ copyq[r] \in Seq(CopyMessage) /\ Len(copyq[r]) < ChanCap
        /\ Len(copyq[r]) \in Nat
    BY <1>4, LenProperties DEF CopyStart, CopyData, CopyFinish, SinkReady, ClientTypeOK
  <2>2. \A m \in CopyMessage : q(m) \in Seq(CopyMessage) /\ Len(q(m)) <= ChanCap
    BY <2>1, AppendProperties, BoundsAssumption
  <2>3. PICK m \in CopyMessage : copyq' = [copyq EXCEPT ![r] = q(m)]
    BY <1>4 DEF CopyStart, CopyData, CopyFinish, CopyMessage
  <2>4. sink' \in [Req -> {"none", "start", "await", "data", "done", "dropped"}]
    BY <1>4 DEF CopyStart, CopyData, CopyFinish, ClientTypeOK
  <2>5. q(m) \in Seq(CopyMessage) /\ Len(q(m)) <= ChanCap
    BY <2>2
  <2> HIDE DEF q
  <2>6. ClientTypeOK'
    BY <1>4, <2>3, <2>4, <2>5 DEF CopyStart, CopyData, CopyFinish, ClientTypeOK
  <2> QED
    BY <1>4, <2>6, QueueFrame, TaskFrame, WireFrame, ServerFrame
    DEF CopyStart, CopyData, CopyFinish
<1>5. CASE CloseClient
  <2>1. ClientTypeOK'
    BY <1>5 DEF CloseClient, ClientTypeOK
  <2> QED
    BY <1>5, <2>1, QueueFrame, TaskFrame, WireFrame, ServerFrame DEF CloseClient
<1> QED
  BY <1>1, <1>2, <1>3, <1>4, <1>5 DEF Client

-----------------------------------------------------------------------------
(* The server                                                              *)

\* A reply is a message more on the wire, within the room there is for it.
LEMMA ReplyType ==
  ASSUME WireTypeOK, CanReply, NEW m \in BackMessage, Reply(m)
  PROVE  inbound' \in Seq(BackMessage) /\ Len(inbound') <= SocketCap
<1>1. /\ inbound \in Seq(BackMessage) /\ Len(inbound) < SocketCap
      /\ SocketCap \in Nat /\ Len(inbound) \in Nat
  BY LenProperties, BoundsAssumption DEF WireTypeOK, CanReply
<1> QED
  BY <1>1, AppendProperties DEF Reply

LEMMA ConsumeType ==
  ASSUME WireTypeOK, toServer # <<>>
  PROVE  /\ Tail(toServer) \in Seq(FrontMessage) /\ Len(Tail(toServer)) <= SocketCap
         /\ Head(toServer) \in FrontMessage
         /\ Head(toServer).req \in Nat
<1>1. /\ toServer \in Seq(FrontMessage) /\ Len(toServer) <= SocketCap
      /\ SocketCap \in Nat /\ Len(toServer) \in Nat
  BY LenProperties, BoundsAssumption DEF WireTypeOK
<1>2. /\ Head(toServer) \in FrontMessage /\ Tail(toServer) \in Seq(FrontMessage)
      /\ Len(Tail(toServer)) = Len(toServer) - 1
  BY <1>1, HeadTailProperties
<1> QED
  BY <1>1, <1>2 DEF FrontMessage

LEMMA GoesType ==
  ASSUME NEW mode \in {"idle", "busy", "copy", "skip", "closed"},
         NEW r \in Nat, NEW n \in Nat, Goes(mode, r, n)
  PROVE  srv' \in [mode : {"idle", "busy", "copy", "skip", "closed"},
                   req : Nat, part : Nat]
BY DEF Goes

LEMMA ServerTypeStep ==
  ASSUME TypeOK, Serve \/ SrvAsync \/ SrvCrash
  PROVE  TypeOK'
<1> USE DEF TypeOK
<1> DEFINE F == ClientTypeOK' /\ QueueTypeOK' /\ TaskTypeOK'
<1>0. UNCHANGED serverFrame => F
  BY ClientFrame, QueueFrame, TaskFrame DEF serverFrame
<1>1. UNCHANGED serverFrame
  BY DEF Serve, SrvTake, SrvChunk, SrvReady, SrvCopyStart, SrvCopyData, SrvCopySkip,
         SrvCopyEnd, SrvStrayCopy, SrvTerminate, SrvAsync, SrvCrash
<1>2. srv.req \in Nat /\ srv.part \in Nat
  BY DEF ServerTypeOK
<1>3. ASSUME Consume, Arrives({"Single", "CopyStart", "CopyData", "CopyEnd", "Terminate"})
      PROVE  /\ toServer' \in Seq(FrontMessage) /\ Len(toServer') <= SocketCap
             /\ Head(toServer).req \in Nat
  BY <1>3, ConsumeType DEF Consume, Arrives
<1>4. WireTypeOK'
  <2>1. CASE Serve
    <3>1. CASE SrvTake \/ SrvCopySkip \/ SrvTerminate
      BY <1>1, <1>3, <3>1
      DEF SrvTake, SrvCopySkip, SrvTerminate, Arrives, serverFrame, WireTypeOK
    <3>2. CASE SrvChunk \/ SrvReady
      <4>1. CanReply /\ \E last \in BOOLEAN : Reply(Chunk(srv.req, srv.part, last))
        BY <3>2 DEF SrvChunk, SrvReady
      <4> QED
        BY <1>1, <1>2, <3>2, <4>1, ChunkType, ReplyType
        DEF SrvChunk, SrvReady, serverFrame, WireTypeOK
    <3>3. CASE SrvCopyStart \/ SrvCopyData \/ SrvCopyEnd \/ SrvStrayCopy
      <4>1. /\ toServer' \in Seq(FrontMessage) /\ Len(toServer') <= SocketCap
            /\ Head(toServer).req \in Nat
        BY <1>3, <3>3 DEF SrvCopyStart, SrvCopyData, SrvCopyEnd, SrvStrayCopy, Arrives
      <4>2. \/ inbound' = inbound
            \/ CanReply /\ \E r \in Nat, n \in Nat, last \in BOOLEAN :
                             Reply(Chunk(r, n, last))
        BY <1>2, <3>3, <4>1 DEF SrvCopyStart, SrvCopyData, SrvCopyEnd, SrvStrayCopy
      <4>3. inbound' \in Seq(BackMessage) /\ Len(inbound') <= SocketCap
        BY <4>2, ChunkType, ReplyType DEF WireTypeOK
      <4> QED
        BY <1>1, <4>1, <4>3 DEF serverFrame, WireTypeOK
    <3> QED
      BY <2>1, <3>1, <3>2, <3>3 DEF Serve
  <2>2. CASE SrvAsync
    <3>1. asyncs' \in Nat
      BY <2>2, BoundsAssumption DEF SrvAsync, ServerTypeOK
    <3>2. PICK t \in {"Notice", "Parameter"} : Reply(Async(t, srv.req, asyncs'))
      BY <2>2 DEF SrvAsync
    <3>3. Async(t, srv.req, asyncs') \in BackMessage
      BY <1>2, <3>1 DEF Async, BackMessage
    <3>4. inbound' \in Seq(BackMessage) /\ Len(inbound') <= SocketCap
      BY <2>2, <3>2, <3>3, ReplyType DEF SrvAsync
    <3> QED
      BY <1>1, <2>2, <3>4 DEF SrvAsync, serverFrame, WireTypeOK
  <2>3. CASE SrvCrash
    BY <1>1, <2>3 DEF SrvCrash, serverFrame, WireTypeOK
  <2> QED
    BY <2>1, <2>2, <2>3
<1>5. ServerTypeOK'
  <2>1. CASE SrvTake \/ SrvCopyStart
    <3>0. Head(toServer).req \in Nat
      BY <1>3, <2>1 DEF SrvTake, SrvCopyStart, Arrives
    <3>1. Head(toServer).req \in Nat /\ Head(toServer).req + 1 \in Nat
      BY <3>0
    <3>2. \/ Goes("busy", Head(toServer).req, 1)
          \/ Goes("copy", Head(toServer).req, 2)
          \/ Goes("idle", Head(toServer).req + 1, 1)
      <4>1. CASE SrvTake
        BY <4>1 DEF SrvTake
      <4>2. CASE SrvCopyStart
        BY <4>2 DEF SrvCopyStart
      <4> QED
        BY <2>1, <4>1, <4>2
    <3>3. UNCHANGED <<eof, asyncs>>
      BY <2>1 DEF SrvTake, SrvCopyStart
    <3> QED
      BY <3>1, <3>2, <3>3, GoesType DEF ServerTypeOK
  <2>2. CASE SrvChunk \/ SrvReady \/ SrvCopyData \/ SrvCopyEnd
    <3>1. \/ Goes("busy", srv.req, srv.part + 1)
          \/ Goes("idle", srv.req + 1, 1)
          \/ Goes("skip", srv.req, srv.part + 1)
          \/ srv' = srv
      BY <2>2 DEF SrvChunk, SrvReady, SrvCopyData, SrvCopyEnd
    <3>2. srv.req + 1 \in Nat /\ srv.part + 1 \in Nat
      BY <1>2
    <3>3. UNCHANGED <<eof, asyncs>>
      BY <2>2 DEF SrvChunk, SrvReady, SrvCopyData, SrvCopyEnd
    <3> QED
      BY <1>2, <3>1, <3>2, <3>3, GoesType DEF ServerTypeOK
  <2>3. CASE SrvCopySkip \/ SrvStrayCopy
    BY <2>3 DEF SrvCopySkip, SrvStrayCopy, ServerTypeOK
  <2>4. CASE SrvTerminate \/ SrvCrash
    BY <2>4 DEF SrvTerminate, SrvCrash, ServerTypeOK
  <2>5. CASE SrvAsync
    BY <2>5, BoundsAssumption DEF SrvAsync, ServerTypeOK
  <2> QED
    BY <2>1, <2>2, <2>3, <2>4, <2>5 DEF Serve
<1> QED
  BY <1>0, <1>1, <1>4, <1>5

-----------------------------------------------------------------------------
LEMMA TypeInit == Init => TypeOK
<1> SUFFICES ASSUME Init PROVE TypeOK
  OBVIOUS
<1>1. /\ <<>> \in Seq(Req) /\ <<>> \in Seq(BackMessage)
      /\ <<>> \in Seq(FrontMessage) /\ <<>> \in Seq(CopyMessage) /\ Len(<<>>) = 0
  BY EmptySeq
<1>2. pendingResponses \in Seq(BackMessage)
  <2>1. asyncs \in Nat
    BY BoundsAssumption DEF Init
  <2>2. \A i \in 1..asyncs : Async("Notice", 1, i) \in BackMessage
    BY <2>1 DEF Async, BackMessage
  <2>3. pendingResponses \in [1..asyncs -> BackMessage]
    BY <2>2 DEF Init
  <2> QED
    BY <2>1, <2>3, SeqDef
<1>3. ClientTypeOK
  BY <1>1, BoundsAssumption DEF Init, ClientTypeOK
<1>4. QueueTypeOK
  BY <1>1, BoundsAssumption DEF Init, QueueTypeOK
<1>5. TaskTypeOK
  BY <1>1, <1>2, ZeroType DEF Init, TaskTypeOK
<1>6. WireTypeOK
  BY <1>1, BoundsAssumption DEF Init, WireTypeOK
<1>7. ServerTypeOK
  BY DEF Init, ServerTypeOK
<1> QED
  BY <1>3, <1>4, <1>5, <1>6, <1>7 DEF TypeOK

\* Every step of every process preserves the types.
LEMMA TypeStep ==
  ASSUME TypeOK, [Next]_vars
  PROVE  TypeOK'
<1>1. CASE UNCHANGED vars
  BY <1>1, ClientFrame, QueueFrame, TaskFrame, WireFrame, ServerFrame DEF TypeOK, vars
<1> QED
  BY <1>1, ReadTypeStep, WriteTypeStep, WakeDropTypeStep, ClientTypeStep, ServerTypeStep
  DEF Next, Poll, Terminated

\* Type correctness: every variable keeps to its type, and the response channels,
\* the copy channels and the two directions of the socket to their capacities.
THEOREM TypeCorrect == Spec => []TypeOK
<1>1. TypeOK /\ [Next]_vars => TypeOK'
  BY TypeStep
<1> QED
  BY <1>1, TypeInit, PTL DEF Spec

-----------------------------------------------------------------------------
(* Chains of responses                                                     *)

LEMMA BackToType ==
  ASSUME NEW m \in BackMessage
  PROVE  /\ BackTo(m) \in Nat /\ m.req \in Nat
         /\ m.req <= BackTo(m)
BY DEF BackTo, BackMessage

LEMMA BackChainEmpty ==
  ASSUME NEW b \in Int
  PROVE  BackChain(<<>>, b, b)
<1>1. Len(<<>>) = 0
  BY EmptySeq
<1> QED
  BY <1>1 DEF BackChain

\* An item that starts where a chain ends makes it longer.
LEMMA BackChainAppend ==
  ASSUME NEW s \in Seq(BackMessage), NEW m \in BackMessage, NEW b \in Int, NEW e \in Int,
         BackChain(s, b, e), m.req = e
  PROVE  BackChain(Append(s, m), b, BackTo(m))
<1> DEFINE t == Append(s, m)
<1>1. /\ Len(s) \in Nat /\ Len(t) = Len(s) + 1 /\ t # <<>>
      /\ \A i \in 1..Len(s) : t[i] = s[i]
      /\ t[Len(s) + 1] = m
  BY AppendProperties, LenProperties
<1>2. \A i \in 1..Len(s) : s[i] \in BackMessage
  BY ElementOfSeq
<1>3. e <= BackTo(m) /\ BackTo(m) \in Nat
  BY BackToType
<1> HIDE DEF t
<1>4. t[1].req = b
  <2>1. CASE s = <<>>
    BY <1>1, <2>1, EmptySeq DEF BackChain
  <2>2. CASE s # <<>>
    <3>1. 1 \in 1..Len(s)
      BY <1>1, <2>2, EmptySeq
    <3> QED
      BY <1>1, <2>2, <3>1 DEF BackChain
  <2> QED
    BY <2>1, <2>2
<1>5. ASSUME NEW i \in 1..Len(t) - 1
      PROVE  BackTo(t[i]) = t[i + 1].req
  <2>1. i \in 1..Len(s) /\ t[i] = s[i]
    BY <1>1
  <2>2. CASE i = Len(s)
    <3>1. s # <<>>
      BY <2>1, EmptySeq
    <3> QED
      BY <1>1, <2>1, <2>2, <3>1 DEF BackChain
  <2>3. CASE i # Len(s)
    <3>1. i \in 1..Len(s) - 1 /\ i + 1 \in 1..Len(s)
      BY <1>1, <2>1, <2>3
    <3> QED
      BY <1>1, <2>1, <3>1 DEF BackChain
  <2> QED
    BY <2>2, <2>3
<1>6. ASSUME NEW i \in 1..Len(t)
      PROVE  BackTo(t[i]) <= BackTo(m)
  <2>1. CASE i \in 1..Len(s)
    <3>1. t[i] = s[i] /\ BackTo(s[i]) <= e /\ BackTo(s[i]) \in Nat
      BY <1>1, <1>2, <2>1, BackToType DEF BackChain
    <3> QED
      BY <1>3, <3>1
  <2>2. CASE i = Len(s) + 1
    BY <1>1, <1>3, <2>2
  <2> QED
    BY <1>1, <2>1, <2>2
<1>7. b <= BackTo(m)
  BY <1>3 DEF BackChain
<1> QED
  BY <1>1, <1>4, <1>5, <1>6, <1>7 DEF BackChain, t

\* Taking the first item of a chain leaves a chain that starts where it ended.
LEMMA BackChainTail ==
  ASSUME NEW s \in Seq(BackMessage), s # <<>>, NEW b \in Int, NEW e \in Int,
         BackChain(s, b, e)
  PROVE  Head(s).req = b /\ BackChain(Tail(s), BackTo(Head(s)), e)
<1> DEFINE t == Tail(s)
<1>1. /\ Len(s) \in Nat /\ Len(s) >= 1 /\ Len(t) = Len(s) - 1
      /\ t \in Seq(BackMessage)
      /\ \A i \in 1..Len(t) : t[i] = s[i + 1]
      /\ Head(s) = s[1]
  BY HeadTailProperties, LenProperties, EmptySeq
<1> HIDE DEF t
<1>2. s[1].req = b /\ BackTo(s[Len(s)]) = e
  BY DEF BackChain
<1>3. BackTo(s[1]) <= e
  BY <1>1 DEF BackChain
<1>4. t = <<>> => BackTo(s[1]) = e
  <2>1. SUFFICES ASSUME t = <<>> PROVE BackTo(s[1]) = e
    OBVIOUS
  <2>2. Len(s) = 1
    BY <1>1, <2>1, EmptySeq
  <2> QED
    BY <1>2, <2>2
<1>5. t # <<>> => t[1].req = BackTo(s[1]) /\ BackTo(t[Len(t)]) = e
  <2>1. SUFFICES ASSUME t # <<>> PROVE t[1].req = BackTo(s[1]) /\ BackTo(t[Len(t)]) = e
    OBVIOUS
  <2>2. Len(t) \in Nat \ {0}
    BY <1>1, <2>1, EmptySeq
  <2>3. 1 \in 1..Len(s) - 1 /\ t[1] = s[1 + 1] /\ t[Len(t)] = s[Len(t) + 1]
    BY <1>1, <2>2
  <2>4. Len(t) + 1 = Len(s)
    BY <1>1, <2>2
  <2> QED
    BY <1>2, <2>3, <2>4 DEF BackChain
<1>6. ASSUME NEW i \in 1..Len(t) - 1
      PROVE  BackTo(t[i]) = t[i + 1].req
  <2>1. t[i] = s[i + 1] /\ t[i + 1] = s[(i + 1) + 1] /\ i + 1 \in 1..Len(s) - 1
    BY <1>1
  <2> QED
    BY <2>1 DEF BackChain
<1>7. ASSUME NEW i \in 1..Len(t)
      PROVE  BackTo(t[i]) <= e
  <2>1. t[i] = s[i + 1] /\ i + 1 \in 1..Len(s)
    BY <1>1
  <2> QED
    BY <2>1 DEF BackChain
<1> QED
  BY <1>1, <1>2, <1>3, <1>4, <1>5, <1>6, <1>7 DEF BackChain, t

-----------------------------------------------------------------------------
(* Chains of requests                                                      *)

LEMMA FrontToType ==
  ASSUME NEW m \in FrontMessage
  PROVE  /\ FrontTo(m) \in Nat /\ FrontFrom(m) \in Nat /\ m.req \in Nat
         /\ FrontFrom(m) <= FrontTo(m)
BY DEF FrontTo, FrontFrom, FrontMessage

LEMMA FrontChainEmpty ==
  ASSUME NEW b \in Int
  PROVE  FrontChain(<<>>, b, b)
<1>1. Len(<<>>) = 0
  BY EmptySeq
<1> QED
  BY <1>1 DEF FrontChain

\* Every message of a chain lies between its ends.
LEMMA FrontChainBounds ==
  ASSUME NEW s \in Seq(FrontMessage), NEW b \in Int, NEW e \in Int, FrontChain(s, b, e),
         NEW i \in 1..Len(s)
  PROVE  /\ s[i] \in FrontMessage
         /\ b <= FrontFrom(s[i]) /\ FrontTo(s[i]) <= e
<1>1. Len(s) \in Nat /\ i \in Nat
  BY LenProperties
<1>2. s # <<>> /\ 1 \in 1..Len(s) /\ Len(s) \in 1..Len(s)
  BY <1>1, EmptySeq
<1>3. s[i] \in FrontMessage /\ s[1] \in FrontMessage /\ s[Len(s)] \in FrontMessage
  BY <1>2, ElementOfSeq
<1>4. FrontFrom(s[1]) = b /\ FrontTo(s[Len(s)]) = e
  BY <1>2 DEF FrontChain
<1>5. /\ FrontFrom(s[1]) \in Nat /\ FrontTo(s[1]) \in Nat
      /\ FrontFrom(s[1]) <= FrontTo(s[1])
      /\ FrontFrom(s[i]) \in Nat /\ FrontTo(s[i]) \in Nat
      /\ FrontFrom(s[Len(s)]) \in Nat /\ FrontTo(s[Len(s)]) \in Nat
      /\ FrontFrom(s[Len(s)]) <= FrontTo(s[Len(s)])
  BY <1>3, FrontToType
<1>6. b <= FrontFrom(s[i])
  <2>1. CASE i = 1
    BY <1>4, <1>5, <2>1
  <2>2. CASE i # 1
    <3>1. FrontTo(s[1]) <= FrontFrom(s[i])
      BY <1>1, <1>2, <2>2 DEF FrontChain
    <3> QED
      BY <1>4, <1>5, <3>1
  <2> QED
    BY <2>1, <2>2
<1>7. FrontTo(s[i]) <= e
  <2>1. CASE i = Len(s)
    BY <1>4, <1>5, <2>1
  <2>2. CASE i # Len(s)
    <3>1. FrontTo(s[i]) <= FrontFrom(s[Len(s)])
      BY <1>1, <1>2, <2>2 DEF FrontChain
    <3> QED
      BY <1>4, <1>5, <3>1
  <2> QED
    BY <2>1, <2>2
<1> QED
  BY <1>3, <1>6, <1>7

LEMMA FrontChainAppend ==
  ASSUME NEW s \in Seq(FrontMessage), NEW m \in FrontMessage, NEW b \in Int, NEW e \in Int,
         FrontChain(s, b, e), FrontFrom(m) = e, m.type # "Terminate"
  PROVE  FrontChain(Append(s, m), b, FrontTo(m))
<1> DEFINE t == Append(s, m)
<1>1. /\ Len(s) \in Nat /\ Len(t) = Len(s) + 1 /\ t # <<>>
      /\ \A i \in 1..Len(s) : t[i] = s[i]
      /\ t[Len(s) + 1] = m
  BY AppendProperties, LenProperties
<1>2. e <= FrontTo(m) /\ FrontTo(m) \in Nat
  BY FrontToType
<1> HIDE DEF t
<1>3. FrontFrom(t[1]) = b
  <2>1. CASE s = <<>>
    BY <1>1, <2>1, EmptySeq DEF FrontChain
  <2>2. CASE s # <<>>
    <3>1. 1 \in 1..Len(s)
      BY <1>1, <2>2, EmptySeq
    <3> QED
      BY <1>1, <2>2, <3>1 DEF FrontChain
  <2> QED
    BY <2>1, <2>2
<1>4. ASSUME NEW i \in 1..Len(t) - 1
      PROVE  FrontTo(t[i]) = FrontFrom(t[i + 1])
  <2>1. i \in 1..Len(s) /\ t[i] = s[i]
    BY <1>1
  <2>2. CASE i = Len(s)
    <3>1. s # <<>>
      BY <2>1, EmptySeq
    <3> QED
      BY <1>1, <2>1, <2>2, <3>1 DEF FrontChain
  <2>3. CASE i # Len(s)
    <3>1. i \in 1..Len(s) - 1 /\ i + 1 \in 1..Len(s)
      BY <1>1, <2>1, <2>3
    <3> QED
      BY <1>1, <2>1, <3>1 DEF FrontChain
  <2> QED
    BY <2>2, <2>3
<1>5. ASSUME NEW i \in 1..Len(t), NEW j \in 1..Len(t), i < j
      PROVE  FrontTo(t[i]) <= FrontFrom(t[j])
  <2>1. i \in 1..Len(s) /\ t[i] = s[i]
    BY <1>1, <1>5
  <2>2. CASE j = Len(s) + 1
    BY <1>1, <2>1, <2>2, FrontChainBounds
  <2>3. CASE j # Len(s) + 1
    <3>1. j \in 1..Len(s) /\ t[j] = s[j]
      BY <1>1, <2>3
    <3> QED
      BY <1>5, <2>1, <3>1 DEF FrontChain
  <2> QED
    BY <2>2, <2>3
<1>6. ASSUME NEW i \in 1..Len(t)
      PROVE  t[i].type # "Terminate"
  BY <1>1 DEF FrontChain
<1>7. b <= FrontTo(m)
  BY <1>2 DEF FrontChain
<1> QED
  BY <1>1, <1>3, <1>4, <1>5, <1>6, <1>7 DEF FrontChain, t

LEMMA FrontChainTail ==
  ASSUME NEW s \in Seq(FrontMessage), s # <<>>, NEW b \in Int, NEW e \in Int,
         FrontChain(s, b, e)
  PROVE  /\ FrontFrom(Head(s)) = b /\ Head(s).type # "Terminate"
         /\ FrontChain(Tail(s), FrontTo(Head(s)), e)
<1> DEFINE t == Tail(s)
<1>1. /\ Len(s) \in Nat /\ Len(s) >= 1 /\ Len(t) = Len(s) - 1
      /\ t \in Seq(FrontMessage)
      /\ \A i \in 1..Len(t) : t[i] = s[i + 1]
      /\ Head(s) = s[1]
  BY HeadTailProperties, LenProperties, EmptySeq
<1> HIDE DEF t
<1>2. FrontFrom(s[1]) = b /\ FrontTo(s[Len(s)]) = e
  BY DEF FrontChain
<1>3. FrontTo(s[1]) <= e /\ s[1].type # "Terminate"
  <2>1. 1 \in 1..Len(s)
    BY <1>1
  <2> QED
    BY <2>1, FrontChainBounds DEF FrontChain
<1>4. t = <<>> => FrontTo(s[1]) = e
  <2>1. SUFFICES ASSUME t = <<>> PROVE FrontTo(s[1]) = e
    OBVIOUS
  <2>2. Len(s) = 1
    BY <1>1, <2>1, EmptySeq
  <2> QED
    BY <1>2, <2>2
<1>5. t # <<>> => FrontFrom(t[1]) = FrontTo(s[1]) /\ FrontTo(t[Len(t)]) = e
  <2>1. SUFFICES ASSUME t # <<>>
                 PROVE  FrontFrom(t[1]) = FrontTo(s[1]) /\ FrontTo(t[Len(t)]) = e
    OBVIOUS
  <2>2. Len(t) \in Nat \ {0}
    BY <1>1, <2>1, EmptySeq
  <2>3. 1 \in 1..Len(s) - 1 /\ t[1] = s[1 + 1] /\ t[Len(t)] = s[Len(t) + 1]
    BY <1>1, <2>2
  <2>4. Len(t) + 1 = Len(s)
    BY <1>1, <2>2
  <2> QED
    BY <1>2, <2>3, <2>4 DEF FrontChain
<1>6. ASSUME NEW i \in 1..Len(t) - 1
      PROVE  FrontTo(t[i]) = FrontFrom(t[i + 1])
  <2>1. t[i] = s[i + 1] /\ t[i + 1] = s[(i + 1) + 1] /\ i + 1 \in 1..Len(s) - 1
    BY <1>1
  <2> QED
    BY <2>1 DEF FrontChain
<1>7. ASSUME NEW i \in 1..Len(t), NEW j \in 1..Len(t), i < j
      PROVE  FrontTo(t[i]) <= FrontFrom(t[j])
  <2>1. /\ t[i] = s[i + 1] /\ t[j] = s[j + 1] /\ i + 1 < j + 1
        /\ i + 1 \in 1..Len(s) /\ j + 1 \in 1..Len(s)
    BY <1>1, <1>7
  <2> QED
    BY <2>1 DEF FrontChain
<1>8. ASSUME NEW i \in 1..Len(t)
      PROVE  t[i].type # "Terminate"
  <2>1. t[i] = s[i + 1] /\ i + 1 \in 1..Len(s)
    BY <1>1
  <2> QED
    BY <2>1 DEF FrontChain
<1> QED
  BY <1>1, <1>2, <1>3, <1>4, <1>5, <1>6, <1>7, <1>8 DEF FrontChain, t

\* The messages before position k move from the start of one chain to the end of
\* the chain before it; the two now meet in front of the message at k + 1.
LEMMA FrontChainMove ==
  ASSUME NEW s \in Seq(FrontMessage), NEW w \in Seq(FrontMessage),
         NEW b \in Int, NEW m \in Int, NEW e \in Int,
         FrontChain(s, b, m), FrontChain(w, m, e), NEW k \in 0..Len(w),
         NEW n \in Int, n = IF k = Len(w) THEN e ELSE FrontFrom(w[k + 1])
  PROVE  /\ FrontChain(s \o SubSeq(w, 1, k), b, n)
         /\ FrontChain(SubSeq(w, k + 1, Len(w)), n, e)
<1> DEFINE u == SubSeq(w, 1, k)
           t == s \o u
           v == SubSeq(w, k + 1, Len(w))
<1>1. Len(s) \in Nat /\ Len(w) \in Nat /\ k \in Nat /\ k <= Len(w)
  BY LenProperties
<1>2. \A i \in 1..Len(w) : w[i] \in FrontMessage
  BY ElementOfSeq
<1>3. /\ u \in Seq(FrontMessage) /\ Len(u) = k
      /\ \A i \in 1..k : u[i] = w[i]
  <2>1. \A i \in 1..k : w[i] \in FrontMessage
    BY <1>1, <1>2
  <2> QED
    BY <1>1, <2>1, SubSeqProperties
<1>4. /\ v \in Seq(FrontMessage) /\ Len(v) = Len(w) - k
      /\ \A i \in 1..Len(v) : v[i] = w[k + i]
  <2>1. \A i \in (k + 1)..Len(w) : w[i] \in FrontMessage
    BY <1>1, <1>2
  <2>2. /\ v \in Seq(FrontMessage)
        /\ Len(v) = IF k + 1 <= Len(w) THEN Len(w) - (k + 1) + 1 ELSE 0
        /\ \A i \in 1..(Len(w) - (k + 1) + 1) : v[i] = w[(k + 1) + i - 1]
    BY <1>1, <2>1, SubSeqProperties
  <2>3. Len(v) = Len(w) - k
    BY <1>1, <2>2
  <2>4. ASSUME NEW i \in 1..Len(v) PROVE v[i] = w[k + i]
    <3>1. i \in 1..(Len(w) - (k + 1) + 1) /\ (k + 1) + i - 1 = k + i
      BY <1>1, <2>3
    <3> QED
      BY <2>2, <3>1
  <2> QED
    BY <2>2, <2>3, <2>4
<1>5. /\ t \in Seq(FrontMessage) /\ Len(t) = Len(s) + k
      /\ \A i \in 1..Len(s) : t[i] = s[i]
      /\ \A i \in 1..k : t[Len(s) + i] = w[i]
  <2>1. /\ t \in Seq(FrontMessage) /\ Len(t) = Len(s) + Len(u)
        /\ \A i \in 1..Len(s) + Len(u) :
              t[i] = IF i <= Len(s) THEN s[i] ELSE u[i - Len(s)]
    BY <1>3, ConcatProperties
  <2>2. ASSUME NEW i \in 1..k PROVE t[Len(s) + i] = w[i]
    <3>1. /\ Len(s) + i \in 1..Len(s) + Len(u) /\ ~(Len(s) + i <= Len(s))
          /\ (Len(s) + i) - Len(s) = i
      BY <1>1, <1>3
    <3>2. t[Len(s) + i] = u[i]
      BY <2>1, <3>1
    <3> QED
      BY <1>3, <3>2
  <2>3. ASSUME NEW i \in 1..Len(s) PROVE t[i] = s[i]
    <3>1. i \in 1..Len(s) + Len(u) /\ i <= Len(s)
      BY <1>1, <1>3
    <3> QED
      BY <2>1, <3>1
  <2> QED
    BY <1>3, <2>1, <2>2, <2>3
<1> HIDE DEF u, t, v
<1>6. FrontChain(v, n, e)
  <2>1. n <= e
    <3>1. CASE k = Len(w)
      BY <3>1
    <3>2. CASE k # Len(w)
      <4>1. k + 1 \in 1..Len(w)
        BY <1>1, <3>2
      <4>2. FrontTo(w[k + 1]) <= e /\ w[k + 1] \in FrontMessage
        BY <4>1, FrontChainBounds
      <4> QED
        BY <3>2, <4>2, FrontToType
    <3> QED
      BY <3>1, <3>2
  <2>2. v = <<>> => n = e
    <3>1. v = <<>> => k = Len(w)
      BY <1>1, <1>4, EmptySeq
    <3> QED
      BY <3>1
  <2>3. v # <<>> => FrontFrom(v[1]) = n /\ FrontTo(v[Len(v)]) = e
    <3>1. SUFFICES ASSUME v # <<>> PROVE FrontFrom(v[1]) = n /\ FrontTo(v[Len(v)]) = e
      OBVIOUS
    <3>2. Len(v) \in Nat \ {0}
      BY <1>4, <3>1, EmptySeq, LenProperties
    <3>3. /\ k + Len(v) = Len(w) /\ k # Len(w) /\ Len(w) # 0
          /\ 1 \in 1..Len(v) /\ Len(v) \in 1..Len(v)
      BY <1>1, <1>4, <3>2
    <3>5. v[1] = w[k + 1] /\ v[Len(v)] = w[k + Len(v)]
      BY <1>4, <3>3
    <3>4. w # <<>>
      BY <3>3, EmptySeq
    <3> QED
      BY <3>3, <3>4, <3>5 DEF FrontChain
  <2>4. ASSUME NEW i \in 1..Len(v) - 1
        PROVE  FrontTo(v[i]) = FrontFrom(v[i + 1])
    <3>1. /\ k + (i + 1) = (k + i) + 1 /\ k + i \in 1..Len(w) - 1
          /\ i \in 1..Len(v) /\ i + 1 \in 1..Len(v)
      BY <1>1, <1>4
    <3>2. v[i] = w[k + i] /\ v[i + 1] = w[(k + i) + 1]
      BY <1>4, <3>1
    <3> QED
      BY <3>1, <3>2 DEF FrontChain
  <2>5. ASSUME NEW i \in 1..Len(v), NEW j \in 1..Len(v), i < j
        PROVE  FrontTo(v[i]) <= FrontFrom(v[j])
    <3>1. k + i < k + j /\ k + i \in 1..Len(w) /\ k + j \in 1..Len(w)
      BY <1>1, <1>4, <2>5
    <3>2. v[i] = w[k + i] /\ v[j] = w[k + j]
      BY <1>4
    <3> QED
      BY <3>1, <3>2 DEF FrontChain
  <2>6. ASSUME NEW i \in 1..Len(v)
        PROVE  v[i].type # "Terminate"
    <3>1. v[i] = w[k + i] /\ k + i \in 1..Len(w)
      BY <1>1, <1>4
    <3> QED
      BY <3>1 DEF FrontChain
  <2> QED
    BY <2>1, <2>2, <2>3, <2>4, <2>5, <2>6 DEF FrontChain
<1>7. FrontChain(t, b, n)
  <2>1. CASE k = 0
    <3>1. n = m
      <4>1. CASE w = <<>>
        BY <2>1, <4>1, EmptySeq DEF FrontChain
      <4>2. CASE w # <<>>
        <5>1. Len(w) # 0
          BY <4>2, EmptySeq
        <5> QED
          BY <2>1, <4>2, <5>1 DEF FrontChain
      <4> QED
        BY <4>1, <4>2
    <3>2. u = <<>>
      BY <1>3, <2>1, EmptySeq
    <3>3. t = s
      BY <3>2, ConcatEmptySeq DEF t
    <3> QED
      BY <3>1, <3>3
  <2>2. CASE k # 0
    <3>1. /\ w # <<>> /\ 1 \in 1..Len(w) /\ k \in 1..Len(w) /\ 1 \in 1..k
          /\ Len(t) # 0 /\ Len(t) = Len(s) + k
      BY <1>1, <1>5, <2>2, EmptySeq
    <3>2. FrontTo(w[k]) = n
      <4>1. CASE k = Len(w)
        BY <3>1, <4>1 DEF FrontChain
      <4>2. CASE k # Len(w)
        <5>1. k \in 1..Len(w) - 1
          BY <1>1, <3>1, <4>2
        <5> QED
          BY <4>2, <5>1 DEF FrontChain
      <4> QED
        BY <4>1, <4>2
    <3>3. b <= n
      <4>1. w[k] \in FrontMessage /\ m <= FrontFrom(w[k])
        BY <3>1, FrontChainBounds
      <4>2. b <= m
        BY DEF FrontChain
      <4> QED
        BY <3>2, <4>1, <4>2, FrontToType
    <3>4. t # <<>>
      BY <3>1, EmptySeq
    <3>5. FrontFrom(w[1]) = m
      BY <3>1 DEF FrontChain
    <3>6. FrontFrom(t[1]) = b
      <4>1. CASE s = <<>>
        <5>1. Len(s) = 0 /\ b = m
          BY <4>1, EmptySeq DEF FrontChain
        <5>2. t[Len(s) + 1] = w[1]
          BY <1>5, <3>1
        <5>3. t[1] = w[1]
          BY <5>1, <5>2
        <5> QED
          BY <3>5, <5>1, <5>3
      <4>2. CASE s # <<>>
        <5>1. 1 \in 1..Len(s)
          BY <1>1, <4>2, EmptySeq
        <5> QED
          BY <1>5, <4>2, <5>1 DEF FrontChain
      <4> QED
        BY <4>1, <4>2
    <3>7. FrontTo(t[Len(t)]) = n
      <4>1. t[Len(s) + k] = w[k]
        BY <1>1, <1>5, <3>1
      <4> QED
        BY <3>1, <3>2, <4>1
    <3>8. ASSUME NEW i \in 1..Len(t) - 1
          PROVE  FrontTo(t[i]) = FrontFrom(t[i + 1])
      <4>1. CASE i < Len(s)
        <5>1. t[i] = s[i] /\ t[i + 1] = s[i + 1] /\ i \in 1..Len(s) - 1
          BY <1>1, <1>5, <4>1
        <5> QED
          BY <5>1 DEF FrontChain
      <4>2. CASE i = Len(s)
        <5>1. t[i] = s[Len(s)] /\ s # <<>>
          BY <1>1, <1>5, <4>2, EmptySeq
        <5>2. t[i + 1] = w[1]
          BY <1>5, <3>1, <4>2
        <5> QED
          BY <3>5, <5>1, <5>2 DEF FrontChain
      <4>3. CASE i > Len(s)
        <5> DEFINE j == i - Len(s)
        <5>1. /\ j \in 1..k /\ j + 1 \in 1..k /\ j \in 1..Len(w) - 1
              /\ i = Len(s) + j /\ i + 1 = Len(s) + (j + 1)
          BY <1>1, <3>1, <4>3
        <5> HIDE DEF j
        <5>2. t[i] = w[j] /\ t[i + 1] = w[j + 1]
          BY <1>5, <5>1
        <5> QED
          BY <5>1, <5>2 DEF FrontChain
      <4> QED
        BY <1>1, <4>1, <4>2, <4>3
    <3>9. ASSUME NEW i \in 1..Len(t), NEW j \in 1..Len(t), i < j
          PROVE  FrontTo(t[i]) <= FrontFrom(t[j])
      <4> DEFINE p == i - Len(s)
                 q == j - Len(s)
      <4>1. CASE j <= Len(s)
        <5>1. t[i] = s[i] /\ t[j] = s[j] /\ i \in 1..Len(s) /\ j \in 1..Len(s)
          BY <1>1, <1>5, <3>9, <4>1
        <5> QED
          BY <3>9, <5>1 DEF FrontChain
      <4>2. CASE i <= Len(s) /\ j > Len(s)
        <5>1. q \in 1..k /\ q \in 1..Len(w) /\ j = Len(s) + q /\ i \in 1..Len(s)
          BY <1>1, <3>1, <4>2
        <5> HIDE DEF q
        <5>2. t[i] = s[i] /\ t[j] = w[q]
          BY <1>5, <5>1
        <5>3. FrontTo(s[i]) <= m /\ m <= FrontFrom(w[q]) /\ s[i] \in FrontMessage
              /\ w[q] \in FrontMessage
          BY <5>1, FrontChainBounds
        <5>4. FrontTo(s[i]) \in Int /\ FrontFrom(w[q]) \in Int
          BY <5>3, FrontToType
        <5> QED
          BY <5>2, <5>3, <5>4
      <4>3. CASE i > Len(s)
        <5>1. /\ p \in 1..k /\ q \in 1..k /\ p < q
              /\ p \in 1..Len(w) /\ q \in 1..Len(w)
              /\ i = Len(s) + p /\ j = Len(s) + q
          BY <1>1, <3>1, <3>9, <4>3
        <5> HIDE DEF p, q
        <5>2. t[i] = w[p] /\ t[j] = w[q]
          BY <1>5, <5>1
        <5> QED
          BY <5>1, <5>2 DEF FrontChain
      <4> QED
        BY <1>1, <3>1, <4>1, <4>2, <4>3
    <3>10. ASSUME NEW i \in 1..Len(t)
           PROVE  t[i].type # "Terminate"
      <4>1. CASE i <= Len(s)
        <5>1. t[i] = s[i] /\ i \in 1..Len(s)
          BY <1>1, <1>5, <4>1
        <5> QED
          BY <5>1 DEF FrontChain
      <4>2. CASE i > Len(s)
        <5> DEFINE p == i - Len(s)
        <5>1. p \in 1..k /\ p \in 1..Len(w) /\ i = Len(s) + p
          BY <1>1, <3>1, <4>2
        <5> HIDE DEF p
        <5>2. t[i] = w[p]
          BY <1>5, <5>1
        <5> QED
          BY <5>1, <5>2 DEF FrontChain
      <4> QED
        BY <1>1, <3>1, <4>1, <4>2
    <3> QED
      BY <3>3, <3>4, <3>6, <3>7, <3>8, <3>9, <3>10 DEF FrontChain
  <2> QED
    BY <2>1, <2>2
<1> QED
  BY <1>6, <1>7 DEF t, u, v

\* A chain that goes nowhere, at the boundary of a request, is empty.
LEMMA FrontChainStill ==
  ASSUME NEW s \in Seq(FrontMessage), NEW k \in Int, FrontChain(s, 2 * k, 2 * k)
  PROVE  s = <<>>
<1>1. SUFFICES ASSUME s # <<>> PROVE FALSE
  OBVIOUS
<1>2. 1 \in 1..Len(s)
  BY <1>1, EmptySeq, LenProperties
<1>3. s[1] \in FrontMessage /\ FrontTo(s[1]) <= 2 * k
  BY <1>2, FrontChainBounds
<1>4. FrontFrom(s[1]) = 2 * k
  BY <1>1 DEF FrontChain
<1>5. s[1].req \in Nat
  BY <1>3, FrontToType
<1> QED
  BY <1>3, <1>4, <1>5 DEF FrontFrom, FrontTo

-----------------------------------------------------------------------------
(* Numbers along a stream                                                  *)

LEMMA PartChainAppend ==
  ASSUME NEW s \in Seq(BackMessage), NEW m \in BackMessage, NEW b \in Nat, NEW e \in Nat,
         PartChain(s, b, e), m.type = "Normal" => m.part = e
  PROVE  PartChain(Append(s, m), b, IF m.type = "Normal" THEN PartTo(m) ELSE e)
<1> DEFINE t == Append(s, m)
           n == IF m.type = "Normal" THEN PartTo(m) ELSE e
<1>1. /\ Len(s) \in Nat /\ Len(t) = Len(s) + 1
      /\ \A i \in 1..Len(s) : t[i] = s[i]
      /\ t[Len(s) + 1] = m
  BY AppendProperties, LenProperties
<1>2. n \in Nat
  BY DEF PartTo, BackMessage
<1>3. PICK p \in [0..Len(s) -> Nat] :
        /\ p[0] = b /\ p[Len(s)] = e
        /\ \A i \in 1..Len(s) :
             IF s[i].type = "Normal" THEN s[i].part = p[i - 1] /\ p[i] = PartTo(s[i])
                                     ELSE p[i] = p[i - 1]
  BY DEF PartChain
<1> DEFINE q == [i \in 0..Len(t) |-> IF i <= Len(s) THEN p[i] ELSE n]
<1>4. /\ q \in [0..Len(t) -> Nat] /\ q[0] = b /\ q[Len(t)] = n
      /\ \A i \in 0..Len(s) : q[i] = p[i]
  BY <1>1, <1>2, <1>3
<1>5. ASSUME NEW i \in 1..Len(t)
      PROVE  IF t[i].type = "Normal" THEN t[i].part = q[i - 1] /\ q[i] = PartTo(t[i])
                                     ELSE q[i] = q[i - 1]
  <2> HIDE DEF t, q
  <2>1. CASE i <= Len(s)
    <3>1. i \in 1..Len(s) /\ i - 1 \in 0..Len(s) /\ i \in 0..Len(s)
      BY <1>1, <2>1
    <3> QED
      BY <1>1, <1>3, <1>4, <3>1
  <2>2. CASE i = Len(s) + 1
    <3>1. i - 1 = Len(s) /\ t[i] = m /\ q[i] = n /\ q[i - 1] = e
      BY <1>1, <1>3, <1>4, <2>2
    <3> QED
      BY <3>1
  <2> QED
    BY <1>1, <2>1, <2>2
<1> HIDE DEF t, q, n
<1>6. PartChain(t, b, n)
  BY <1>4, <1>5 DEF PartChain
<1> QED
  BY <1>6 DEF t, n

LEMMA PartChainTail ==
  ASSUME NEW s \in Seq(BackMessage), s # <<>>, NEW b \in Nat, NEW e \in Nat,
         PartChain(s, b, e)
  PROVE  /\ Head(s).type = "Normal" => Head(s).part = b
         /\ PartChain(Tail(s), IF Head(s).type = "Normal" THEN PartTo(Head(s)) ELSE b, e)
<1> DEFINE t == Tail(s)
           n == IF Head(s).type = "Normal" THEN PartTo(Head(s)) ELSE b
<1>1. /\ Len(s) \in Nat /\ Len(s) >= 1 /\ Len(t) = Len(s) - 1 /\ Head(s) = s[1]
      /\ \A i \in 1..Len(t) : t[i] = s[i + 1]
  BY HeadTailProperties, LenProperties, EmptySeq
<1>2. PICK p \in [0..Len(s) -> Nat] :
        /\ p[0] = b /\ p[Len(s)] = e
        /\ \A i \in 1..Len(s) :
             IF s[i].type = "Normal" THEN s[i].part = p[i - 1] /\ p[i] = PartTo(s[i])
                                     ELSE p[i] = p[i - 1]
  BY DEF PartChain
<1>3. p[1] = n /\ (Head(s).type = "Normal" => Head(s).part = b)
  <2>1. 1 \in 1..Len(s) /\ 1 - 1 = 0
    BY <1>1
  <2> QED
    BY <1>1, <1>2, <2>1
<1> DEFINE q == [i \in 0..Len(t) |-> p[i + 1]]
<1>4. /\ q \in [0..Len(t) -> Nat] /\ q[0] = n /\ q[Len(t)] = e
      /\ \A i \in 0..Len(t) : q[i] = p[i + 1]
  BY <1>1, <1>2, <1>3
<1>5. ASSUME NEW i \in 1..Len(t)
      PROVE  IF t[i].type = "Normal" THEN t[i].part = q[i - 1] /\ q[i] = PartTo(t[i])
                                     ELSE q[i] = q[i - 1]
  <2> HIDE DEF t, q
  <2>1. /\ i + 1 \in 1..Len(s) /\ i - 1 \in 0..Len(t) /\ i \in 0..Len(t)
        /\ (i + 1) - 1 = i /\ (i - 1) + 1 = i
    BY <1>1
  <2>2. t[i] = s[i + 1] /\ q[i - 1] = p[i] /\ q[i] = p[i + 1]
    BY <1>1, <1>4, <2>1
  <2>3. IF s[i + 1].type = "Normal"
        THEN s[i + 1].part = p[(i + 1) - 1] /\ p[i + 1] = PartTo(s[i + 1])
        ELSE p[i + 1] = p[(i + 1) - 1]
    BY <1>2, <2>1
  <2> QED
    BY <2>1, <2>2, <2>3
<1> HIDE DEF t, q, n
<1>6. PartChain(t, n, e)
  BY <1>4, <1>5 DEF PartChain
<1> QED
  BY <1>3, <1>6 DEF t, n
LEMMA AsyncChainAppend ==
  ASSUME NEW s \in Seq(BackMessage), NEW m \in BackMessage, NEW b \in Nat, NEW e \in Nat,
         AsyncChain(s, b, e), m.type # "Normal" => m.part = e + 1
  PROVE  AsyncChain(Append(s, m), b, IF m.type = "Normal" THEN e ELSE m.part)
<1> DEFINE t == Append(s, m)
           n == IF m.type = "Normal" THEN e ELSE m.part
<1>1. /\ Len(s) \in Nat /\ Len(t) = Len(s) + 1
      /\ \A i \in 1..Len(s) : t[i] = s[i]
      /\ t[Len(s) + 1] = m
  BY AppendProperties, LenProperties
<1>2. n \in Nat
  BY DEF BackMessage
<1>3. PICK p \in [0..Len(s) -> Nat] :
        /\ p[0] = b /\ p[Len(s)] = e
        /\ \A i \in 1..Len(s) :
             IF s[i].type = "Normal" THEN p[i] = p[i - 1]
                                     ELSE s[i].part = p[i - 1] + 1 /\ p[i] = s[i].part
  BY DEF AsyncChain
<1> DEFINE q == [i \in 0..Len(t) |-> IF i <= Len(s) THEN p[i] ELSE n]
<1>4. /\ q \in [0..Len(t) -> Nat] /\ q[0] = b /\ q[Len(t)] = n
      /\ \A i \in 0..Len(s) : q[i] = p[i]
  BY <1>1, <1>2, <1>3
<1>5. ASSUME NEW i \in 1..Len(t)
      PROVE  IF t[i].type = "Normal" THEN q[i] = q[i - 1]
                                     ELSE t[i].part = q[i - 1] + 1 /\ q[i] = t[i].part
  <2> HIDE DEF t, q
  <2>1. CASE i <= Len(s)
    <3>1. i \in 1..Len(s) /\ i - 1 \in 0..Len(s) /\ i \in 0..Len(s)
      BY <1>1, <2>1
    <3> QED
      BY <1>1, <1>3, <1>4, <3>1
  <2>2. CASE i = Len(s) + 1
    <3>1. i - 1 = Len(s) /\ t[i] = m /\ q[i] = n /\ q[i - 1] = e
      BY <1>1, <1>3, <1>4, <2>2
    <3> QED
      BY <3>1
  <2> QED
    BY <1>1, <2>1, <2>2
<1> HIDE DEF t, q, n
<1>6. AsyncChain(t, b, n)
  BY <1>4, <1>5 DEF AsyncChain
<1> QED
  BY <1>6 DEF t, n

LEMMA AsyncChainTail ==
  ASSUME NEW s \in Seq(BackMessage), s # <<>>, NEW b \in Nat, NEW e \in Nat,
         AsyncChain(s, b, e)
  PROVE  /\ Head(s).type # "Normal" => Head(s).part = b + 1
         /\ AsyncChain(Tail(s), IF Head(s).type = "Normal" THEN b ELSE Head(s).part, e)
<1> DEFINE t == Tail(s)
           n == IF Head(s).type = "Normal" THEN b ELSE Head(s).part
<1>1. /\ Len(s) \in Nat /\ Len(s) >= 1 /\ Len(t) = Len(s) - 1 /\ Head(s) = s[1]
      /\ \A i \in 1..Len(t) : t[i] = s[i + 1]
  BY HeadTailProperties, LenProperties, EmptySeq
<1>2. PICK p \in [0..Len(s) -> Nat] :
        /\ p[0] = b /\ p[Len(s)] = e
        /\ \A i \in 1..Len(s) :
             IF s[i].type = "Normal" THEN p[i] = p[i - 1]
                                     ELSE s[i].part = p[i - 1] + 1 /\ p[i] = s[i].part
  BY DEF AsyncChain
<1>3. p[1] = n /\ (Head(s).type # "Normal" => Head(s).part = b + 1)
  <2>1. 1 \in 1..Len(s) /\ 1 - 1 = 0
    BY <1>1
  <2> QED
    BY <1>1, <1>2, <2>1
<1> DEFINE q == [i \in 0..Len(t) |-> p[i + 1]]
<1>4. /\ q \in [0..Len(t) -> Nat] /\ q[0] = n /\ q[Len(t)] = e
      /\ \A i \in 0..Len(t) : q[i] = p[i + 1]
  BY <1>1, <1>2, <1>3
<1>5. ASSUME NEW i \in 1..Len(t)
      PROVE  IF t[i].type = "Normal" THEN q[i] = q[i - 1]
                                     ELSE t[i].part = q[i - 1] + 1 /\ q[i] = t[i].part
  <2> HIDE DEF t, q
  <2>1. /\ i + 1 \in 1..Len(s) /\ i - 1 \in 0..Len(t) /\ i \in 0..Len(t)
        /\ (i + 1) - 1 = i /\ (i - 1) + 1 = i
    BY <1>1
  <2>2. t[i] = s[i + 1] /\ q[i - 1] = p[i] /\ q[i] = p[i + 1]
    BY <1>1, <1>4, <2>1
  <2>3. IF s[i + 1].type = "Normal"
        THEN p[i + 1] = p[(i + 1) - 1]
        ELSE s[i + 1].part = p[(i + 1) - 1] + 1 /\ p[i + 1] = s[i + 1].part
    BY <1>2, <2>1
  <2> QED
    BY <2>1, <2>2, <2>3
<1> HIDE DEF t, q, n
<1>6. AsyncChain(t, n, e)
  BY <1>4, <1>5 DEF AsyncChain
<1> QED
  BY <1>3, <1>6 DEF t, n

-----------------------------------------------------------------------------
(* Positions, and the frames of the parts of InStep                        *)

LEMMA Positions ==
  ASSUME TypeOK
  PROVE  /\ sent \in Nat /\ Len(sendq) \in Nat /\ Len(responses) \in Nat
         /\ pendingRequest \in Nat
         /\ srv.req \in Nat /\ srv.part \in Nat
         /\ Accepted \in Int /\ Oldest \in Int /\ Accepted <= sent
         /\ pendingResponses \in Seq(BackMessage) /\ inbound \in Seq(BackMessage)
         /\ wbuf \in Seq(FrontMessage) /\ toServer \in Seq(FrontMessage)
         /\ ServerPos \in Int /\ WritePos \in Int /\ BackMid \in Int /\ FrontMid \in Int
<1>1. sent \in Nat /\ Len(sendq) \in Nat /\ Len(responses) \in Nat /\ pendingRequest \in Nat
  BY LenProperties DEF TypeOK, ClientTypeOK, QueueTypeOK, TaskTypeOK
<1>2. srv.req \in Nat /\ srv.part \in Nat
  BY DEF TypeOK, ServerTypeOK
<1>3. Accepted \in Int /\ Oldest \in Int /\ Accepted <= sent
  BY <1>1 DEF Accepted, Oldest
<1>4. /\ pendingResponses \in Seq(BackMessage) /\ inbound \in Seq(BackMessage)
      /\ wbuf \in Seq(FrontMessage) /\ toServer \in Seq(FrontMessage)
  BY DEF TypeOK, TaskTypeOK, WireTypeOK
<1>5. ServerPos \in Int /\ WritePos \in Int
  BY <1>2, <1>3 DEF ServerPos, WritePos
<1>6. BackMid \in Int
  <2>1. CASE inbound = <<>>
    BY <1>2, <2>1 DEF BackMid
  <2>2. CASE inbound # <<>>
    <3>1. 1 \in 1..Len(inbound)
      BY <1>4, <2>2, EmptySeq, LenProperties
    <3>2. inbound[1] \in BackMessage
      BY <1>4, <3>1, ElementOfSeq
    <3> QED
      BY <2>2, <3>2, BackToType DEF BackMid
  <2> QED
    BY <2>1, <2>2
<1>7. FrontMid \in Int
  <2>1. CASE wbuf = <<>>
    BY <1>5, <2>1 DEF FrontMid
  <2>2. CASE wbuf # <<>>
    <3>1. 1 \in 1..Len(wbuf)
      BY <1>4, <2>2, EmptySeq, LenProperties
    <3>2. wbuf[1] \in FrontMessage
      BY <1>4, <3>1, ElementOfSeq
    <3> QED
      BY <2>2, <3>2, FrontToType DEF FrontMid
  <2> QED
    BY <2>1, <2>2
<1> QED
  BY <1>1, <1>2, <1>3, <1>4, <1>5, <1>6, <1>7

LEMMA RoutingFrame == Routing /\ UNCHANGED chan => Routing'
BY DEF Routing

LEMMA NumberedFrame ==
  Numbered /\ UNCHANGED <<sent, sendq, responses>> => Numbered' /\ Accepted' = Accepted
BY DEF Numbered, Accepted

LEMMA CopyFrame ==
  CopyStages /\ UNCHANGED <<sent, sendq, sink, copyq, pendingRequest, copyDone>>
    => CopyStages'
BY DEF CopyStages, Accepted, Started

LEMMA ParkedFrame == ParkedAlone /\ UNCHANGED pendingResponses => ParkedAlone'
BY DEF ParkedAlone

LEMMA BackFrame ==
  ResponsesChained
    /\ UNCHANGED <<sent, sendq, responses, pendingResponses, inbound, srv>>
    => ResponsesChained'
BY DEF ResponsesChained, Oldest, Accepted, BackMid, BackChain, BackTo

LEMMA FrontFrame ==
  RequestsChained
    /\ UNCHANGED <<sent, sendq, sink, copyq, pendingRequest, copyDone, wbuf, toServer, srv>>
    => RequestsChained'
BY DEF RequestsChained, WritePos, ServerPos, FrontMid, Accepted, Started, FrontChain,
       FrontFrom, FrontTo

\* What InStep speaks of.
chainVars == <<sent, sendq, sink, copyq, pendingRequest, copyDone, pendingResponses,
               responses, wbuf, toServer, inbound, srv>>

LEMMA InStepFrame == InStep /\ UNCHANGED chainVars => InStep'
<1>1. SUFFICES ASSUME InStep, UNCHANGED chainVars PROVE InStep'
  OBVIOUS
<1>2. Numbered' /\ Accepted' = Accepted
  BY <1>1, NumberedFrame DEF InStep, chainVars
<1>3. CopyStages'
  BY <1>1, CopyFrame DEF InStep, chainVars
<1>4. ParkedAlone'
  BY <1>1, ParkedFrame DEF InStep, chainVars
<1>5. ResponsesChained'
  BY <1>1, BackFrame DEF InStep, chainVars
<1>6. RequestsChained'
  BY <1>1, FrontFrame DEF InStep, chainVars
<1>7. (srv.req <= Accepted + 1)'
  BY <1>1, <1>2 DEF InStep, chainVars
<1> QED
  BY <1>2, <1>3, <1>4, <1>5, <1>6, <1>7 DEF InStep

-----------------------------------------------------------------------------
(* Reading                                                                 *)

\* The next item is for the oldest request outstanding, and what is behind it
\* starts where it ends.
LEMMA ItemChained ==
  ASSUME TypeOK, ResponsesChained, HasItem,
         NEW mid, mid = IF InboundRest = <<>> THEN srv.req ELSE InboundRest[1].req
  PROVE  /\ Item.req = Oldest /\ BackTo(Item) \in Int /\ mid \in Int
         /\ BackChain(PendingRest, BackTo(Item), mid)
         /\ BackChain(InboundRest, mid, srv.req)
<1>1. Item \in BackMessage
  BY ItemType DEF TypeOK
<1>2. BackTo(Item) \in Int
  BY <1>1, BackToType
<1>3. CASE FromPending
  <2>1. mid = BackMid /\ InboundRest = inbound
    BY <1>3 DEF InboundRest, BackMid
  <2>2. pendingResponses # <<>> /\ Item = Head(pendingResponses)
        /\ PendingRest = Tail(pendingResponses)
    BY <1>3 DEF FromPending, Item, PendingRest
  <2>3. /\ Head(pendingResponses).req = Oldest
        /\ BackChain(Tail(pendingResponses), BackTo(Head(pendingResponses)), BackMid)
    BY <2>2, Positions, BackChainTail DEF ResponsesChained
  <2> QED
    BY <1>2, <2>1, <2>2, <2>3, Positions DEF ResponsesChained
<1>4. CASE ~FromPending
  <2>1. /\ inbound # <<>> /\ Item = Head(inbound) /\ InboundRest = Tail(inbound)
        /\ PendingRest = <<>> /\ pendingResponses = <<>>
    BY <1>4 DEF FromPending, HasItem, Item, InboundRest, PendingRest
  <2>2. Oldest = BackMid
    BY <2>1 DEF ResponsesChained, BackChain
  <2>3. /\ Head(inbound).req = BackMid
        /\ BackChain(Tail(inbound), BackTo(Head(inbound)), srv.req)
    <3>1. /\ inbound \in Seq(BackMessage) /\ BackMid \in Int /\ srv.req \in Int
          /\ BackChain(inbound, BackMid, srv.req)
      BY Positions DEF ResponsesChained
    <3> QED
      BY <2>1, <3>1, BackChainTail
  <2>4. mid = BackTo(Item)
    BY <2>1, <2>3 DEF BackChain
  <2>5. BackChain(<<>>, mid, mid)
    BY <1>2, <2>4, BackChainEmpty
  <2> QED
    BY <1>2, <2>1, <2>2, <2>3, <2>4, <2>5
<1> QED
  BY <1>3, <1>4

LEMMA ParkedRest ==
  ASSUME TypeOK, ParkedAlone, HasItem
  PROVE  \A i \in 1..Len(PendingRest) : PendingRest[i].type # "Normal"
<1>1. CASE FromPending
  <2>1. /\ pendingResponses \in Seq(BackMessage) /\ pendingResponses # <<>>
        /\ PendingRest = Tail(pendingResponses)
    BY <1>1, Positions DEF FromPending, PendingRest
  <2>2. /\ Len(pendingResponses) \in Nat /\ Len(Tail(pendingResponses)) = Len(pendingResponses) - 1
        /\ \A i \in 1..Len(Tail(pendingResponses)) :
             Tail(pendingResponses)[i] = pendingResponses[i + 1]
    BY <2>1, HeadTailProperties, LenProperties
  <2>3. ASSUME NEW i \in 1..Len(PendingRest) PROVE PendingRest[i].type # "Normal"
    <3>1. i + 1 \in 1..Len(pendingResponses) /\ Len(pendingResponses) # 1
      BY <2>1, <2>2
    <3>2. PendingRest[i] = pendingResponses[i + 1]
      BY <2>1, <2>2
    <3> QED
      BY <3>1, <3>2 DEF ParkedAlone
  <2> QED
    BY <2>3
<1>2. CASE ~FromPending
  <2>1. PendingRest = <<>>
    BY <1>2 DEF FromPending, PendingRest
  <2> QED
    BY <2>1, EmptySeq
<1> QED
  BY <1>1, <1>2

\* After an item has been taken the streams of responses still meet.
LEMMA TakenChained ==
  ASSUME TypeOK, ResponsesChained, ParkedAlone, HasItem, TakeItem, UNCHANGED srv,
         Oldest' = BackTo(Item)
  PROVE  ResponsesChained' /\ ParkedAlone'
<1>1. BackMid' = IF InboundRest = <<>> THEN srv.req ELSE InboundRest[1].req
  BY DEF BackMid, TakeItem
<1>2. /\ BackChain(PendingRest, BackTo(Item), BackMid')
      /\ BackChain(InboundRest, BackMid', srv.req)
  BY <1>1, ItemChained
<1>3. ResponsesChained'
  BY <1>2 DEF ResponsesChained, TakeItem, BackChain, BackTo
<1>4. ParkedAlone'
  BY ParkedRest DEF ParkedAlone, TakeItem
<1> QED
  BY <1>3, <1>4

LEMMA ReadAsyncInStep ==
  ASSUME TypeOK, InStep, ReadNotice \/ ReadParameter
  PROVE  InStep'
<1>1. /\ HasItem /\ TakeItem /\ Item.type # "Normal"
      /\ UNCHANGED <<sent, sendq, sink, copyq, pendingRequest, copyDone, responses,
                     wbuf, toServer, srv>>
  BY DEF ReadNotice, ReadParameter, clientVars, serverVars
<1>2. Numbered' /\ Accepted' = Accepted /\ Oldest' = Oldest
  BY <1>1, NumberedFrame DEF InStep, Oldest
<1>3. CopyStages'
  BY <1>1, CopyFrame DEF InStep
<1>4. Oldest' = BackTo(Item)
  <2>1. Item.req = Oldest
    BY <1>1, ItemChained DEF InStep
  <2> QED
    BY <1>1, <1>2, <2>1 DEF BackTo
<1>5. ResponsesChained' /\ ParkedAlone'
  BY <1>1, <1>4, TakenChained DEF InStep
<1>6. RequestsChained'
  BY <1>1, FrontFrame DEF InStep
<1>7. (srv.req <= Accepted + 1)'
  BY <1>1, <1>2 DEF InStep
<1> QED
  BY <1>2, <1>3, <1>5, <1>6, <1>7 DEF InStep

\* The head of `responses' is the request the next item answers.
LEMMA HeadIsOldest ==
  ASSUME TypeOK, Numbered, responses # <<>>
  PROVE  Head(responses) = Oldest
<1>1. Len(responses) \in Nat /\ responses \in Seq(Req)
  BY LenProperties DEF TypeOK, TaskTypeOK
<1>2. 1 \in 1..Len(responses)
  BY <1>1, EmptySeq
<1>3. responses[1] = Accepted - Len(responses) + 1
  BY <1>2 DEF Numbered
<1> QED
  BY <1>3 DEF Oldest

LEMMA ReadResponseInStep ==
  ASSUME TypeOK, InStep, Routing, ReadResponse
  PROVE  InStep' /\ Routing'
<1> DEFINE h == Head(responses)
<1>1. /\ HasItem /\ TakeItem /\ Item.type = "Normal" /\ responses # <<>>
      /\ UNCHANGED <<sent, sendq, sink, copyq, pendingRequest, copyDone,
                     wbuf, toServer, srv>>
  BY DEF ReadResponse, clientVars, serverVars
<1>2. h = Oldest /\ Item.req = Oldest /\ Item \in BackMessage
  BY <1>1, HeadIsOldest, ItemChained, ItemType DEF InStep, TypeOK
<1>3. Routing'
  <2>1. CASE rcv[h] = "open"
    <3>1. chan' = [chan EXCEPT ![h] = Append(chan[h], Item)]
      BY <2>1 DEF ReadResponse
    <3>2. ASSUME NEW r \in Req, NEW i \in 1..Len(chan'[r])
          PROVE  chan'[r][i].req = r
      <4>1. chan \in [Req -> Seq(BackMessage)] /\ chan[r] \in Seq(BackMessage)
            /\ Len(chan[r]) \in Nat
        BY LenProperties DEF TypeOK, QueueTypeOK
      <4>2. CASE r # h
        <5>1. chan'[r] = chan[r]
          BY <3>1, <4>1, <4>2
        <5> QED
          BY <5>1 DEF Routing
      <4>3. CASE r = h
        <5>1. chan'[r] = Append(chan[r], Item)
          BY <3>1, <4>1, <4>3
        <5>2. /\ Len(chan'[r]) = Len(chan[r]) + 1
              /\ \A j \in 1..Len(chan[r]) : chan'[r][j] = chan[r][j]
              /\ chan'[r][Len(chan[r]) + 1] = Item
          BY <1>2, <4>1, <5>1, AppendProperties
        <5>3. CASE i = Len(chan[r]) + 1
          BY <1>2, <4>3, <5>2, <5>3
        <5>4. CASE i # Len(chan[r]) + 1
          <6>1. i \in 1..Len(chan[r])
            BY <4>1, <5>2, <5>4
          <6> QED
            BY <5>2, <6>1 DEF Routing
        <5> QED
          BY <5>3, <5>4
      <4> QED
        BY <4>2, <4>3
    <3> QED
      BY <3>2 DEF Routing
  <2>2. CASE rcv[h] # "open"
    BY <2>2, RoutingFrame DEF ReadResponse
  <2> QED
    BY <2>1, <2>2
<1>4. Accepted' = Accepted /\ Accepted \in Int
  BY <1>1, Positions DEF Accepted
<1>5. Numbered' /\ Oldest' = BackTo(Item)
  <2>1. CASE Item.complete
    <3>1. responses' = Tail(responses)
      BY <2>1 DEF ReadResponse, ResponsesAfter
    <3>2. /\ Len(responses) \in Nat /\ Len(responses') = Len(responses) - 1
          /\ \A i \in 1..Len(responses') : responses'[i] = responses[i + 1]
      BY <1>1, <3>1, HeadTailProperties, LenProperties DEF TypeOK, TaskTypeOK
    <3>3. Oldest' = Oldest + 1
      BY <1>4, <3>2 DEF Oldest
    <3>4. ASSUME NEW i \in 1..Len(responses')
          PROVE  responses'[i] = Accepted' - Len(responses') + i
      <4>1. i + 1 \in 1..Len(responses) /\ responses'[i] = responses[i + 1]
        BY <3>2
      <4>2. responses[i + 1] = Accepted - Len(responses) + (i + 1)
        BY <4>1 DEF InStep, Numbered
      <4> QED
        BY <1>4, <3>2, <4>1, <4>2
    <3>5. \A i \in 1..Len(sendq') : sendq'[i] = Accepted' + i
      BY <1>1, <1>4 DEF InStep, Numbered
    <3>6. BackTo(Item) = Oldest + 1
      BY <1>1, <1>2, <2>1 DEF BackTo
    <3> QED
      BY <3>3, <3>4, <3>5, <3>6 DEF Numbered
  <2>2. CASE ~Item.complete
    <3>1. responses' = responses
      BY <2>2 DEF ReadResponse, ResponsesAfter
    <3> QED
      BY <1>1, <1>2, <1>4, <2>2, <3>1, NumberedFrame DEF InStep, Oldest, BackTo
  <2> QED
    BY <2>1, <2>2
<1>6. CopyStages'
  BY <1>1, CopyFrame DEF InStep
<1>7. ResponsesChained' /\ ParkedAlone'
  BY <1>1, <1>5, TakenChained DEF InStep
<1>8. RequestsChained'
  BY <1>1, FrontFrame DEF InStep
<1>9. (srv.req <= Accepted + 1)'
  BY <1>1, <1>4 DEF InStep
<1> QED
  BY <1>3, <1>5, <1>6, <1>7, <1>8, <1>9 DEF InStep

\* A batch is only ever parked alone, where it was taken from.
LEMMA ReadBlockedInStep ==
  ASSUME TypeOK, InStep, ReadBlocked
  PROVE  InStep'
<1>1. /\ HasItem /\ Item.type = "Normal" /\ inbound' = InboundRest
      /\ pendingResponses' = Append(PendingRest, Item)
      /\ UNCHANGED <<sent, sendq, sink, copyq, pendingRequest, copyDone, responses,
                     wbuf, toServer, srv>>
  BY DEF ReadBlocked, Parked, clientVars, serverVars
<1>2. Item \in BackMessage /\ PendingRest \in Seq(BackMessage)
  BY <1>1, ItemType DEF TypeOK
<1>3. PendingRest = <<>>
  <2>1. CASE FromPending
    <3>1. pendingResponses # <<>> /\ Item = Head(pendingResponses)
          /\ PendingRest = Tail(pendingResponses)
      BY <2>1 DEF FromPending, Item, PendingRest
    <3>2. /\ Len(pendingResponses) \in Nat /\ Len(pendingResponses) # 0
          /\ Len(PendingRest) = Len(pendingResponses) - 1
      BY <3>1, Positions, HeadTailProperties, LenProperties, EmptySeq
    <3>3. Head(pendingResponses) = pendingResponses[1] /\ 1 \in 1..Len(pendingResponses)
      BY <3>1, <3>2, Positions
    <3>4. Len(pendingResponses) = 1
      BY <1>1, <3>1, <3>3 DEF InStep, ParkedAlone
    <3> QED
      BY <1>2, <3>2, <3>4, EmptySeq
  <2>2. CASE ~FromPending
    BY <2>2 DEF FromPending, PendingRest
  <2> QED
    BY <2>1, <2>2
<1>4. Numbered' /\ Accepted' = Accepted /\ Oldest' = Oldest
  BY <1>1, NumberedFrame DEF InStep, Oldest
<1>5. CopyStages'
  BY <1>1, CopyFrame DEF InStep
<1>6. ParkedAlone'
  <2>1. Len(pendingResponses') = 1
    BY <1>1, <1>2, <1>3, AppendProperties, EmptySeq
  <2> QED
    BY <2>1 DEF ParkedAlone
<1>7. ResponsesChained'
  <2>1. BackMid' = IF InboundRest = <<>> THEN srv.req ELSE InboundRest[1].req
    BY <1>1 DEF BackMid
  <2>2. /\ Item.req = Oldest /\ BackTo(Item) \in Int /\ BackMid' \in Int
        /\ BackChain(PendingRest, BackTo(Item), BackMid')
        /\ BackChain(InboundRest, BackMid', srv.req)
    BY <1>1, <2>1, ItemChained DEF InStep
  <2>3. BackMid' = BackTo(Item)
    BY <1>3, <2>2 DEF BackChain
  <2>4. BackChain(PendingRest, Oldest, Oldest)
    BY <1>3, BackChainEmpty, Positions
  <2>5. BackChain(Append(PendingRest, Item), Oldest, BackTo(Item))
    BY <1>2, <2>2, <2>4, Positions, BackChainAppend
  <2> QED
    BY <1>1, <1>4, <2>2, <2>3, <2>5 DEF ResponsesChained, BackChain, BackTo
<1>8. RequestsChained'
  BY <1>1, FrontFrame DEF InStep
<1>9. (srv.req <= Accepted + 1)'
  BY <1>1, <1>4 DEF InStep
<1> QED
  BY <1>4, <1>5, <1>6, <1>7, <1>8, <1>9 DEF InStep

-----------------------------------------------------------------------------
(* Writing                                                                 *)

\* Handing messages to the socket moves the point where the streams meet.
LEMMA DrainInStep ==
  ASSUME TypeOK, InStep, Drain,
         UNCHANGED <<sent, sendq, sink, copyq, pendingRequest, copyDone, pendingResponses,
                     responses, srv>>
  PROVE  InStep'
<1>1. Numbered' /\ Accepted' = Accepted
  BY NumberedFrame DEF InStep
<1>2. CopyStages' /\ ParkedAlone'
  BY CopyFrame, ParkedFrame DEF InStep
<1>3. ResponsesChained'
  BY BackFrame DEF InStep, Drain
<1>4. RequestsChained'
  <2>1. SUFFICES ASSUME srv.mode # "closed"
                 PROVE  /\ FrontChain(toServer', ServerPos, FrontMid')
                        /\ FrontChain(wbuf', FrontMid', WritePos)
    BY <1>1 DEF RequestsChained, ServerPos, WritePos, Started, FrontChain, FrontFrom, FrontTo
  <2>2. /\ FrontChain(toServer, ServerPos, FrontMid)
        /\ FrontChain(wbuf, FrontMid, WritePos)
    BY <2>1 DEF InStep, RequestsChained
  <2>3. /\ toServer' = toServer \o SubSeq(wbuf, 1, Flushable)
        /\ wbuf' = SubSeq(wbuf, Flushable + 1, Len(wbuf))
    BY DEF Drain
  <2>4. Flushable \in 0..Len(wbuf) /\ Len(wbuf) \in Nat
    BY DrainType, Positions, LenProperties DEF TypeOK, TaskTypeOK
  <2> DEFINE k == Flushable
             n == IF k = Len(wbuf) THEN WritePos ELSE FrontFrom(wbuf[k + 1])
  <2> HIDE DEF k
  <2>5. n \in Int
    <3>1. CASE k = Len(wbuf)
      BY <3>1, Positions
    <3>2. CASE k # Len(wbuf)
      <4>1. k + 1 \in 1..Len(wbuf)
        BY <2>4, <3>2 DEF k
      <4>2. wbuf[k + 1] \in FrontMessage
        BY <4>1, Positions, ElementOfSeq
      <4> QED
        BY <3>2, <4>2, FrontToType
    <3> QED
      BY <3>1, <3>2
  <2>6. /\ FrontChain(toServer \o SubSeq(wbuf, 1, k), ServerPos, n)
        /\ FrontChain(SubSeq(wbuf, k + 1, Len(wbuf)), n, WritePos)
    <3>1. /\ toServer \in Seq(FrontMessage) /\ wbuf \in Seq(FrontMessage)
          /\ ServerPos \in Int /\ FrontMid \in Int /\ WritePos \in Int
      BY Positions
    <3>2. k \in 0..Len(wbuf)
      BY <2>4 DEF k
    <3> HIDE DEF n
    <3>3. n = IF k = Len(wbuf) THEN WritePos ELSE FrontFrom(wbuf[k + 1])
      BY DEF n
    <3> QED
      BY <2>2, <2>5, <3>1, <3>2, <3>3, FrontChainMove
  <2>7. FrontMid' = n
    <3>1. WritePos' = WritePos
      BY <1>1 DEF WritePos, Started
    <3>2. CASE wbuf' = <<>>
      BY <2>3, <2>6, <3>1, <3>2 DEF FrontMid, FrontChain, k
    <3>3. CASE wbuf' # <<>>
      BY <2>3, <2>6, <3>3 DEF FrontMid, FrontChain, k
    <3> QED
      BY <3>2, <3>3
  <2> QED
    BY <2>3, <2>6, <2>7 DEF k
<1>5. (srv.req <= Accepted + 1)'
  BY <1>1 DEF InStep
<1> QED
  BY <1>1, <1>2, <1>3, <1>4, <1>5 DEF InStep

\* A message written where the task is writing prolongs the stream of requests.
LEMMA WriteChained ==
  ASSUME TypeOK, RequestsChained, NEW m \in FrontMessage, m.type # "Terminate",
         FrontFrom(m) = WritePos, FrontTo(m) = WritePos',
         wbuf' = Append(wbuf, m), UNCHANGED <<toServer, srv>>
  PROVE  RequestsChained'
<1>1. SUFFICES ASSUME srv.mode # "closed"
               PROVE  /\ FrontChain(toServer', ServerPos, FrontMid')
                      /\ FrontChain(wbuf', FrontMid', WritePos')
  BY DEF RequestsChained, ServerPos, FrontChain, FrontFrom, FrontTo
<1>2. FrontChain(toServer, ServerPos, FrontMid) /\ FrontChain(wbuf, FrontMid, WritePos)
  BY <1>1 DEF RequestsChained
<1>3. wbuf \in Seq(FrontMessage) /\ FrontMid \in Int /\ WritePos \in Int
  BY Positions
<1>4. FrontChain(wbuf', FrontMid, FrontTo(m))
  BY <1>2, <1>3, FrontChainAppend
<1>5. wbuf' # <<>>
  BY <1>3, AppendProperties
<1>6. FrontMid' = FrontMid
  BY <1>4, <1>5 DEF FrontMid, FrontChain
<1> QED
  BY <1>2, <1>4, <1>6

\* The next request of the queue is the one after the last accepted.
LEMMA NextAccepted ==
  ASSUME TypeOK, InStep, NewRequest, sendq' = Tail(sendq),
         responses' = Append(responses, Head(sendq)), UNCHANGED sent
  PROVE  /\ Head(sendq) \in Req /\ Head(sendq) = Accepted + 1
         /\ Accepted' = Accepted + 1 /\ Oldest' = Oldest
         /\ Numbered'
<1>1. /\ sendq \in Seq(Req) /\ sendq # <<>> /\ responses \in Seq(Req)
      /\ Len(sendq) \in Nat /\ Len(responses) \in Nat /\ sent \in Nat
  BY LenProperties, Positions DEF TypeOK, QueueTypeOK, TaskTypeOK, NewRequest
<1>2. /\ Head(sendq) \in Req /\ Len(sendq') = Len(sendq) - 1
      /\ \A i \in 1..Len(sendq') : sendq'[i] = sendq[i + 1]
  BY <1>1, HeadTailProperties
<1>3. 1 \in 1..Len(sendq) /\ Head(sendq) = sendq[1]
  BY <1>1, EmptySeq
<1>4. Head(sendq) = Accepted + 1
  BY <1>3 DEF InStep, Numbered
<1>5. Accepted' = Accepted + 1 /\ Accepted \in Int
  BY <1>1, <1>2 DEF Accepted
<1>6. /\ Len(responses') = Len(responses) + 1
      /\ \A i \in 1..Len(responses) : responses'[i] = responses[i]
      /\ responses'[Len(responses) + 1] = Head(sendq)
  BY <1>1, <1>2, AppendProperties
<1>7. Oldest' = Oldest
  BY <1>1, <1>5, <1>6 DEF Oldest
<1>8. ASSUME NEW i \in 1..Len(sendq') PROVE sendq'[i] = Accepted' + i
  <2>1. i + 1 \in 1..Len(sendq)
    BY <1>1, <1>2
  <2>2. sendq[i + 1] = Accepted + (i + 1)
    BY <2>1 DEF InStep, Numbered
  <2>3. i \in Int
    OBVIOUS
  <2>4. sendq'[i] = Accepted + (i + 1)
    BY <1>2, <2>2
  <2> QED
    BY <1>5, <2>3, <2>4
<1>9. ASSUME NEW i \in 1..Len(responses')
      PROVE  responses'[i] = Accepted' - Len(responses') + i
  <2>1. CASE i = Len(responses) + 1
    BY <1>1, <1>4, <1>5, <1>6, <2>1
  <2>2. CASE i # Len(responses) + 1
    <3>1. i \in 1..Len(responses)
      BY <1>1, <1>6, <2>2
    <3>2. responses[i] = Accepted - Len(responses) + i
      BY <3>1 DEF InStep, Numbered
    <3> QED
      BY <1>1, <1>5, <1>6, <3>1, <3>2
  <2> QED
    BY <2>1, <2>2
<1> QED
  BY <1>2, <1>4, <1>5, <1>7, <1>8, <1>9 DEF Numbered

\* Accepting a request leaves the stream of responses where it is.
LEMMA AcceptChained ==
  ASSUME ResponsesChained, Oldest' = Oldest, UNCHANGED <<pendingResponses, inbound, srv>>
  PROVE  ResponsesChained'
BY DEF ResponsesChained, BackMid, BackChain, BackTo

LEMMA WriteSingleInStep ==
  ASSUME TypeOK, InStep, WriteSingle
  PROVE  InStep'
<1> DEFINE r == Head(sendq)
           m == Front("Single", r)
<1>1. /\ NewRequest /\ sink[r] = "none" /\ sendq' = Tail(sendq)
      /\ responses' = Append(responses, r) /\ wbuf' = Append(wbuf, m)
      /\ UNCHANGED <<sent, sink, copyq, pendingRequest, copyDone, pendingResponses,
                     toServer, inbound, srv>>
  BY DEF WriteSingle, clientVars, serverVars
<1>2. /\ r \in Req /\ r = Accepted + 1 /\ Accepted' = Accepted + 1 /\ Oldest' = Oldest
      /\ Numbered'
  BY <1>1, NextAccepted
<1>3. Accepted \in Int /\ srv.req \in Int
  BY Positions
<1>4. pendingRequest = 0
  BY <1>1 DEF NewRequest
<1>5. CopyStages'
  <2>1. \A s \in Req : s > Accepted' => s > Accepted
    BY <1>2, <1>3 DEF Req
  <2>2. CopyStages
    BY DEF InStep
  <2> QED
    BY <1>1, <1>4, <2>1, <2>2 DEF CopyStages, Started
<1>6. ResponsesChained' /\ ParkedAlone'
  BY <1>1, <1>2, AcceptChained, ParkedFrame DEF InStep
<1>7. RequestsChained'
  <2>1. r \in Nat
    BY <1>2 DEF Req
  <2>2. m \in FrontMessage /\ m.type = "Single" /\ m.req = r
    BY <2>1, FrontType
  <2> HIDE DEF m
  <2>3. FrontFrom(m) = WritePos
    <3>1. FrontFrom(m) = 2 * r
      BY <2>2 DEF FrontFrom
    <3>2. WritePos = 2 * Accepted + 2
      BY <1>4 DEF WritePos
    <3> QED
      BY <1>2, <1>3, <3>1, <3>2
  <2>4. FrontTo(m) = WritePos'
    <3>1. FrontTo(m) = 2 * r + 2
      BY <2>2 DEF FrontTo
    <3>2. WritePos' = 2 * Accepted' + 2
      BY <1>1, <1>4 DEF WritePos
    <3> QED
      BY <1>2, <3>1, <3>2
  <2> QED
    BY <1>1, <2>2, <2>3, <2>4, WriteChained DEF InStep
<1>8. (srv.req <= Accepted + 1)'
  BY <1>1, <1>2, <1>3 DEF InStep
<1> QED
  BY <1>2, <1>5, <1>6, <1>7, <1>8 DEF InStep

LEMMA WriteBeginCopyInStep ==
  ASSUME TypeOK, InStep, WriteBeginCopy
  PROVE  InStep'
<1> DEFINE r == Head(sendq)
<1>1. /\ NewRequest /\ sink[r] # "none" /\ sendq' = Tail(sendq)
      /\ responses' = Append(responses, r) /\ pendingRequest' = r
      /\ UNCHANGED <<sent, sink, copyq, copyDone, pendingResponses,
                     wbuf, toServer, inbound, srv>>
  BY DEF WriteBeginCopy, clientVars, wireVars, serverVars
<1>2. /\ r \in Req /\ r = Accepted + 1 /\ Accepted' = Accepted + 1 /\ Oldest' = Oldest
      /\ Numbered'
  BY <1>1, NextAccepted
<1>3. Accepted \in Int /\ srv.req \in Nat
  BY Positions
<1>4. pendingRequest = 0 /\ ~copyDone
  BY <1>1 DEF NewRequest, InStep, CopyStages
<1>5. CopyStages'
  <2>1. \A s \in Req : s > Accepted' => s > Accepted
    BY <1>2, <1>3 DEF Req
  <2>2. pendingRequest' = Accepted' /\ pendingRequest' # 0
    BY <1>1, <1>2 DEF Req
  <2> QED
    BY <1>1, <1>4, <2>1, <2>2 DEF InStep, CopyStages, Started
<1>6. ResponsesChained' /\ ParkedAlone'
  BY <1>1, <1>2, AcceptChained, ParkedFrame DEF InStep
<1>7. WritePos' = WritePos
  <2>1. ~Started(r)
    <3>1. r \in Req /\ r > Accepted /\ sink[r] # "none"
      BY <1>1, <1>2, <1>3
    <3>2. \A s \in Req : s > Accepted /\ sink[s] # "none" => ~Started(s)
      BY DEF InStep, CopyStages
    <3> QED
      BY <3>1, <3>2
  <2>2. WritePos' = 2 * Accepted'
    <3>1. pendingRequest' # 0 /\ ~copyDone' /\ ~(Started(pendingRequest))'
      BY <1>1, <1>2, <1>4, <2>1 DEF Started, Req
    <3> QED
      BY <3>1 DEF WritePos
  <2>3. WritePos = 2 * Accepted + 2
    BY <1>4 DEF WritePos
  <2> QED
    BY <1>2, <1>3, <2>2, <2>3
<1>8. RequestsChained'
  BY <1>1, <1>7 DEF InStep, RequestsChained, ServerPos, FrontMid, FrontChain, FrontFrom, FrontTo
<1>9. (srv.req <= Accepted + 1)'
  <2>1. srv' = srv /\ srv.req <= Accepted + 1
    BY <1>1 DEF InStep
  <2> QED
    BY <1>2, <1>3, <2>1
<1> QED
  BY <1>2, <1>5, <1>6, <1>8, <1>9 DEF InStep

LEMMA WriteCopyFinishedInStep ==
  ASSUME TypeOK, InStep, WriteCopyFinished
  PROVE  InStep'
<1>1. /\ pendingRequest' = 0 /\ ~copyDone' /\ copyDone
      /\ UNCHANGED <<sent, sendq, sink, copyq, pendingResponses, responses,
                     wbuf, toServer, inbound, srv>>
  BY DEF WriteCopyFinished, clientVars, wireVars, serverVars
<1>2. Numbered' /\ Accepted' = Accepted
  BY <1>1, NumberedFrame DEF InStep
<1>3. CopyStages'
  BY <1>1, <1>2 DEF InStep, CopyStages, Started
<1>4. ResponsesChained' /\ ParkedAlone'
  BY <1>1, BackFrame, ParkedFrame DEF InStep
<1>5. WritePos' = WritePos
  BY <1>1, <1>2 DEF WritePos
<1>6. RequestsChained'
  BY <1>1, <1>5 DEF InStep, RequestsChained, ServerPos, FrontMid, FrontChain, FrontFrom, FrontTo
<1>7. (srv.req <= Accepted + 1)'
  BY <1>1, <1>2 DEF InStep
<1> QED
  BY <1>2, <1>3, <1>4, <1>6, <1>7 DEF InStep

\* The messages of a copy leave its channel in their order.
LEMMA WriteCopyInStep ==
  ASSUME TypeOK, InStep, WriteCopy
  PROVE  InStep'
<1> DEFINE r == pendingRequest
           q == copyq[r]
           t == IF q # <<>> THEN Head(q) ELSE "CopyEnd"
           m == Front(t, r)
<1>1. /\ r # 0 /\ ~copyDone
      /\ UNCHANGED <<sent, sink, sendq, pendingRequest, pendingResponses, responses,
                     toServer, inbound, srv>>
  BY DEF WriteCopy, serverVars
<1>2. r \in Req /\ r = Accepted /\ r \in Nat
  BY <1>1 DEF InStep, CopyStages, TypeOK, TaskTypeOK, Req
<1>3. /\ q \in Seq(CopyMessage) /\ copyq \in [Req -> Seq(CopyMessage)]
      /\ wbuf' = Append(wbuf, m)
      /\ copyDone' = (t = "CopyEnd")
      /\ q # <<>> => copyq' = [copyq EXCEPT ![r] = Tail(q)]
      /\ q = <<>> => copyq' = copyq /\ sink[r] = "dropped"
  BY <1>2 DEF WriteCopy, TypeOK, ClientTypeOK
<1>4. t \in CopyMessage /\ (q # <<>> => t = q[1])
  BY <1>3, HeadTailProperties DEF CopyMessage
<1>5. sink[r] # "start"
  <2>1. CASE q = <<>>
    BY <1>3, <2>1
  <2>2. CASE q # <<>>
    BY <1>2, <2>2 DEF InStep, CopyStages
  <2> QED
    BY <2>1, <2>2
<1>6. Started(r) <=> t # "CopyStart"
  <2>1. CASE q = <<>>
    BY <1>5, <2>1 DEF Started
  <2>2. CASE q # <<>>
    BY <1>4, <1>5, <2>2 DEF Started
  <2> QED
    BY <2>1, <2>2
<1>7. \A s \in Req : s # r => copyq'[s] = copyq[s]
  BY <1>3
<1>8. /\ copyq'[r] \in Seq(CopyMessage)
      /\ \A i \in 1..Len(copyq'[r]) : copyq'[r][i] # "CopyStart"
  <2>1. CASE q = <<>>
    <3>1. copyq'[r] = <<>> /\ Len(<<>>) = 0
      BY <1>3, <2>1, EmptySeq
    <3> QED
      BY <1>3, <2>1, <3>1
  <2>2. CASE q # <<>>
    <3>1. copyq'[r] = Tail(q)
      BY <1>2, <1>3, <2>2
    <3>2. /\ Tail(q) \in Seq(CopyMessage) /\ Len(Tail(q)) = Len(q) - 1 /\ Len(q) \in Nat
          /\ \A i \in 1..Len(Tail(q)) : Tail(q)[i] = q[i + 1]
      BY <1>3, <2>2, HeadTailProperties, LenProperties
    <3>3. ASSUME NEW i \in 1..Len(Tail(q)) PROVE Tail(q)[i] # "CopyStart"
      <4>1. i + 1 \in 2..Len(q)
        BY <3>2
      <4>2. q[i + 1] # "CopyStart"
        BY <1>2, <4>1 DEF InStep, CopyStages
      <4> QED
        BY <3>2, <4>2
    <3> QED
      BY <3>1, <3>2, <3>3
  <2> QED
    BY <2>1, <2>2
<1>9. (Started(r))'
  <2>1. CASE copyq'[r] = <<>>
    BY <1>1, <1>5, <2>1 DEF Started
  <2>2. CASE copyq'[r] # <<>>
    <3>1. 1 \in 1..Len(copyq'[r])
      BY <1>8, <2>2, EmptySeq, LenProperties
    <3> QED
      BY <1>1, <1>5, <1>8, <3>1 DEF Started
  <2> QED
    BY <2>1, <2>2
<1>10. Numbered' /\ Accepted' = Accepted
  BY <1>1, NumberedFrame DEF InStep
<1>11. CopyStages'
  <2>1. \A s \in Req : sink'[s] \in {"none", "start"} => copyq'[s] = <<>>
    <3>1. sink[r] \notin {"none", "start"}
      <4>1. CASE q = <<>>
        BY <1>3, <4>1
      <4>2. CASE q # <<>>
        BY <1>2, <4>2 DEF InStep, CopyStages
      <4> QED
        BY <4>1, <4>2
    <3> QED
      BY <1>1, <1>7, <3>1 DEF InStep, CopyStages
  <2>2. ASSUME NEW s \in Req, NEW i \in 2..Len(copyq'[s])
        PROVE  copyq'[s][i] # "CopyStart"
    <3>1. CASE s = r
      <4>1. Len(copyq'[r]) \in Nat
        BY <1>8, LenProperties
      <4>2. i \in 1..Len(copyq'[r])
        BY <3>1, <4>1
      <4> QED
        BY <1>8, <3>1, <4>2
    <3>2. CASE s # r
      BY <1>7, <3>2 DEF InStep, CopyStages
    <3> QED
      BY <3>1, <3>2
  <2>3. \A s \in Req : s > Accepted' /\ sink'[s] # "none" => ~(Started(s))'
    <3>1. \A s \in Req : s > Accepted => s # r
      BY <1>2 DEF Req
    <3> QED
      BY <1>1, <1>7, <1>10, <3>1 DEF InStep, CopyStages, Started
  <2>4. \A s \in Req : s > sent' => sink'[s] = "none"
    BY <1>1 DEF InStep, CopyStages
  <2>5. pendingRequest' # 0 /\ pendingRequest' = Accepted'
    BY <1>1, <1>2, <1>10
  <2> HIDE DEF q, r, t, m
  <2> QED
    BY <2>1, <2>2, <2>3, <2>4, <2>5 DEF CopyStages
<1>12. ResponsesChained' /\ ParkedAlone'
  BY <1>1, BackFrame, ParkedFrame DEF InStep
<1>13. RequestsChained'
  <2>1. t \in CopyMessage \cup {"Single", "Terminate"}
    BY <1>4
  <2>2. m \in FrontMessage /\ m.type = t /\ m.req = r
    BY <1>2, <2>1, FrontType
  <2>3. m.type # "Terminate"
    BY <1>4, <2>2 DEF CopyMessage
  <2>4. FrontFrom(m) = WritePos
    <3>1. WritePos = IF t # "CopyStart" THEN 2 * r + 1 ELSE 2 * r
      BY <1>1, <1>2, <1>6 DEF WritePos
    <3>2. FrontFrom(m) = IF t \in {"CopyData", "CopyEnd"} THEN 2 * r + 1 ELSE 2 * r
      BY <2>2 DEF FrontFrom
    <3> HIDE DEF t, m, r
    <3> QED
      BY <1>4, <3>1, <3>2 DEF CopyMessage
  <2>5. FrontTo(m) = WritePos'
    <3>1. WritePos' = IF t = "CopyEnd" THEN 2 * r + 2 ELSE 2 * r + 1
      <4>1. r' = r /\ Accepted' = r /\ copyDone' = (t = "CopyEnd")
        BY <1>1, <1>2, <1>3, <1>10
      <4>2. (Started(pendingRequest))'
        BY <1>9
      <4> HIDE DEF t
      <4> QED
        BY <1>1, <4>1, <4>2 DEF WritePos
    <3>2. FrontTo(m) = IF t \in {"CopyStart", "CopyData"} THEN 2 * r + 1 ELSE 2 * r + 2
      BY <2>2 DEF FrontTo
    <3> HIDE DEF t, m, r
    <3> QED
      BY <1>4, <3>1, <3>2 DEF CopyMessage
  <2> HIDE DEF m
  <2> QED
    BY <1>1, <1>3, <2>2, <2>3, <2>4, <2>5, WriteChained DEF InStep, m
<1>14. (srv.req <= Accepted + 1)'
  BY <1>1, <1>10 DEF InStep
<1> QED
  BY <1>10, <1>11, <1>12, <1>13, <1>14 DEF InStep

\* With no request queued, half written or unanswered, the server has answered
\* everything, and the write buffer and the socket are empty.
LEMMA WriteTerminateStep ==
  ASSUME TypeOK, InStep, WriteTerminate
  PROVE  Terminating'
<1>1. /\ pendingRequest = 0 /\ sendq = <<>> /\ ~open /\ responses = <<>>
      /\ wbuf' = Append(wbuf, Front("Terminate", 0))
      /\ UNCHANGED <<open, sent, toServer, srv>>
  BY DEF WriteTerminate, MayTerminate, AtEof, clientVars, serverVars
<1>2. Accepted = sent /\ Oldest = sent + 1
  BY <1>1, EmptySeq, Positions DEF Accepted, Oldest
<1>3. srv.req = sent + 1
  <2>1. Oldest <= BackMid /\ BackMid <= srv.req
    BY DEF InStep, ResponsesChained, BackChain
  <2>2. srv.req <= sent + 1
    BY <1>2 DEF InStep
  <2>3. BackMid \in Int /\ srv.req \in Int /\ sent \in Int
    BY Positions
  <2> QED
    BY <1>2, <2>1, <2>2, <2>3
<1>4. SUFFICES ASSUME srv.mode # "closed"
               PROVE  /\ srv.mode = "idle" /\ toServer = <<>> /\ wbuf = <<>>
  <2>1. toServer = <<>> => \A i \in 1..Len(toServer) : toServer[i].type = "Terminate"
    BY EmptySeq
  <2>2. wbuf = <<>> => \A i \in 1..Len(wbuf') : wbuf'[i].type = "Terminate"
    <3>1. Front("Terminate", 0) \in FrontMessage /\ Front("Terminate", 0).type = "Terminate"
      BY FrontType
    <3>2. wbuf \in Seq(FrontMessage)
      BY Positions
    <3>3. SUFFICES ASSUME wbuf = <<>>, NEW i \in 1..Len(wbuf')
                   PROVE  wbuf'[i].type = "Terminate"
      OBVIOUS
    <3>4. Len(wbuf) = 0
      BY <3>3, EmptySeq
    <3>5. /\ Len(wbuf') = Len(wbuf) + 1
          /\ wbuf'[Len(wbuf) + 1] = Front("Terminate", 0)
      BY <1>1, <3>1, <3>2, AppendProperties
    <3>6. i = 1 /\ wbuf'[1] = Front("Terminate", 0)
      BY <3>4, <3>5
    <3> QED
      BY <3>1, <3>6
  <2> QED
    BY <1>1, <1>3, <2>1, <2>2 DEF Terminating
<1>5. FrontChain(toServer, ServerPos, FrontMid) /\ FrontChain(wbuf, FrontMid, WritePos)
  BY <1>4 DEF InStep, RequestsChained
<1>6. /\ toServer \in Seq(FrontMessage) /\ wbuf \in Seq(FrontMessage)
      /\ ServerPos \in Int /\ FrontMid \in Int /\ sent \in Int
  BY Positions
<1>7. WritePos = 2 * (sent + 1)
  BY <1>1, <1>2, <1>6 DEF WritePos
<1>8. ServerPos <= FrontMid /\ FrontMid <= 2 * (sent + 1)
  BY <1>5, <1>7 DEF FrontChain
<1>9. srv.mode = "idle"
  BY <1>3, <1>6, <1>8 DEF ServerPos
<1>10. ServerPos = 2 * (sent + 1) /\ FrontMid = 2 * (sent + 1)
  BY <1>3, <1>6, <1>8, <1>9 DEF ServerPos
<1>11. /\ FrontChain(toServer, 2 * (sent + 1), 2 * (sent + 1))
       /\ FrontChain(wbuf, 2 * (sent + 1), 2 * (sent + 1))
  BY <1>5, <1>7, <1>10
<1>12. sent + 1 \in Int
  BY <1>6
<1> QED
  BY <1>6, <1>9, <1>11, <1>12, FrontChainStill

-----------------------------------------------------------------------------
(* The callers                                                             *)

\* Every part of InStep but CopyStages, when only the copy channels change and no
\* copy under way is started or undone by it.
LEMMA CallerInStep ==
  ASSUME TypeOK, InStep, CopyStages', Numbered', Accepted' = Accepted, Oldest' = Oldest,
         pendingRequest # 0 => (Started(pendingRequest))' = Started(pendingRequest),
         UNCHANGED <<pendingRequest, copyDone, pendingResponses, wbuf, toServer, inbound, srv>>
  PROVE  InStep'
<1>1. ResponsesChained' /\ ParkedAlone'
  BY AcceptChained, ParkedFrame DEF InStep
<1>2. WritePos' = WritePos
  <2>1. CASE pendingRequest = 0
    BY <2>1 DEF WritePos
  <2>2. CASE pendingRequest # 0
    BY <2>2 DEF WritePos
  <2> QED
    BY <2>1, <2>2
<1>3. RequestsChained'
  BY <1>2 DEF InStep, RequestsChained, ServerPos, FrontMid, FrontChain, FrontFrom, FrontTo
<1>4. (srv.req <= Accepted + 1)'
  BY DEF InStep
<1> QED
  BY <1>1, <1>3, <1>4 DEF InStep

LEMMA SendInStep ==
  ASSUME TypeOK, InStep, NEW copy \in BOOLEAN, Send(copy)
  PROVE  InStep'
<1> DEFINE n == sent + 1
<1>1. /\ sent' = n /\ sendq' = Append(sendq, n)
      /\ sink' = [sink EXCEPT ![n] = IF copy THEN "start" ELSE "none"]
      /\ UNCHANGED <<copyq, responses, pendingRequest, copyDone, pendingResponses,
                     wbuf, toServer, inbound, srv>>
  BY DEF Send, connVars, wireVars, serverVars
<1>2. /\ sent \in Nat /\ n \in Req /\ Len(sendq) \in Nat /\ sendq \in Seq(Req)
      /\ sink \in [Req -> {"none", "start", "await", "data", "done", "dropped"}]
  <2>1. sent \in Nat /\ Len(sendq) \in Nat
    BY Positions
  <2>2. n \in Req
    BY <2>1, BoundsAssumption DEF Send, Req
  <2>3. sendq \in Seq(Req)
    BY DEF TypeOK, QueueTypeOK
  <2>4. sink \in [Req -> {"none", "start", "await", "data", "done", "dropped"}]
    BY DEF TypeOK, ClientTypeOK
  <2> QED
    BY <2>1, <2>2, <2>3, <2>4
<1>3. /\ Len(sendq') = Len(sendq) + 1
      /\ \A i \in 1..Len(sendq) : sendq'[i] = sendq[i]
      /\ sendq'[Len(sendq) + 1] = n
  BY <1>1, <1>2, AppendProperties
<1>4. Accepted' = Accepted /\ Oldest' = Oldest /\ Accepted \in Int
  BY <1>1, <1>2, <1>3 DEF Accepted, Oldest
<1>5. Numbered'
  <2>1. ASSUME NEW i \in 1..Len(sendq') PROVE sendq'[i] = Accepted' + i
    <3>1. CASE i = Len(sendq) + 1
      <4>1. n = Accepted + (Len(sendq) + 1)
        BY <1>2 DEF Accepted
      <4> QED
        BY <1>3, <1>4, <3>1, <4>1
    <3>2. CASE i # Len(sendq) + 1
      <4>1. i \in 1..Len(sendq)
        BY <1>2, <1>3, <3>2
      <4> QED
        BY <1>3, <1>4, <4>1 DEF InStep, Numbered
    <3> QED
      BY <3>1, <3>2
  <2>2. \A i \in 1..Len(responses') : responses'[i] = Accepted' - Len(responses') + i
    BY <1>1, <1>4 DEF InStep, Numbered
  <2> QED
    BY <2>1, <2>2 DEF Numbered
<1>6. sink[n] = "none" /\ copyq[n] = <<>>
  <2>1. n > sent
    BY <1>2
  <2> QED
    BY <1>2, <2>1 DEF InStep, CopyStages
<1>7. /\ sink'[n] \in {"none", "start"}
      /\ \A s \in Req : s # n => sink'[s] = sink[s]
  BY <1>1, <1>2
<1>8. CopyStages'
  <2>1. \A s \in Req : sink'[s] \in {"none", "start"} => copyq'[s] = <<>>
    BY <1>1, <1>6, <1>7 DEF InStep, CopyStages
  <2>2. \A s \in Req : \A i \in 2..Len(copyq'[s]) : copyq'[s][i] # "CopyStart"
    BY <1>1 DEF InStep, CopyStages
  <2>3. ASSUME NEW s \in Req, s > Accepted', sink'[s] # "none" PROVE ~(Started(s))'
    <3>1. CASE s = n
      BY <1>7, <2>3, <3>1 DEF Started
    <3>2. CASE s # n
      BY <1>1, <1>4, <1>7, <2>3, <3>2 DEF InStep, CopyStages, Started
    <3> QED
      BY <3>1, <3>2
  <2>4. ASSUME NEW s \in Req, s > sent' PROVE sink'[s] = "none"
    <3>1. s # n /\ s > sent
      BY <1>1, <1>2, <2>4 DEF Req
    <3> QED
      BY <1>7, <3>1 DEF InStep, CopyStages
  <2>5. pendingRequest' # 0 => pendingRequest' = Accepted'
    BY <1>1, <1>4 DEF InStep, CopyStages
  <2>6. pendingRequest' = 0 => ~copyDone'
    BY <1>1 DEF InStep, CopyStages
  <2> QED
    BY <2>1, <2>2, <2>3, <2>4, <2>5, <2>6 DEF CopyStages
<1>9. pendingRequest # 0 => (Started(pendingRequest))' = Started(pendingRequest)
  <2>1. SUFFICES ASSUME pendingRequest # 0
                 PROVE  (Started(pendingRequest))' = Started(pendingRequest)
    OBVIOUS
  <2>2. pendingRequest = Accepted /\ pendingRequest \in Req
    BY <2>1 DEF InStep, CopyStages, TypeOK, TaskTypeOK, Req
  <2>3. pendingRequest # n
    BY <1>2, <2>2 DEF Accepted
  <2> QED
    BY <1>1, <1>7, <2>2, <2>3 DEF Started
<1> QED
  BY <1>1, <1>4, <1>5, <1>8, <1>9, CallerInStep

\* What a copy has under way is not undone by its caller going on or away.
LEMMA SinkInStep ==
  ASSUME TypeOK, InStep,
         \A r \in Req : \/ sink'[r] = sink[r]
                        \/ {sink[r], sink'[r]} \cap {"none", "start"} = {},
         UNCHANGED <<sent, sendq, copyq, responses, pendingRequest, copyDone,
                     pendingResponses, wbuf, toServer, inbound, srv>>
  PROVE  InStep'
<1>1. Numbered' /\ Accepted' = Accepted /\ Oldest' = Oldest
  BY NumberedFrame DEF InStep, Oldest
<1>2. \A r \in Req : (Started(r))' = Started(r)
  BY DEF Started
<1>3. \A r \in Req : /\ sink'[r] = "none" <=> sink[r] = "none"
                     /\ sink'[r] = "start" <=> sink[r] = "start"
  OBVIOUS
<1>4. CopyStages'
  <2>1. \A s \in Req : sink'[s] \in {"none", "start"} => copyq'[s] = <<>>
    BY <1>3 DEF InStep, CopyStages
  <2>2. \A s \in Req : \A i \in 2..Len(copyq'[s]) : copyq'[s][i] # "CopyStart"
    BY DEF InStep, CopyStages
  <2>3. \A s \in Req : s > Accepted' /\ sink'[s] # "none" => ~(Started(s))'
    BY <1>1, <1>2, <1>3 DEF InStep, CopyStages
  <2>4. \A s \in Req : s > sent' => sink'[s] = "none"
    BY <1>3 DEF InStep, CopyStages
  <2>5. pendingRequest' # 0 => pendingRequest' = Accepted'
    BY <1>1 DEF InStep, CopyStages
  <2>6. pendingRequest' = 0 => ~copyDone'
    BY DEF InStep, CopyStages
  <2> QED
    BY <2>1, <2>2, <2>3, <2>4, <2>5, <2>6 DEF CopyStages
<1>5. pendingRequest # 0 => pendingRequest \in Req
  BY DEF TypeOK, TaskTypeOK, Req
<1> QED
  BY <1>1, <1>2, <1>4, <1>5, CallerInStep

\* The first message of a copy, and those after it.
LEMMA CopyInStep ==
  ASSUME TypeOK, InStep, NEW r \in Req, CopyStart(r) \/ CopyData(r) \/ CopyFinish(r)
  PROVE  InStep'
<1>1. /\ UNCHANGED <<sent, sendq, responses, pendingRequest, copyDone, pendingResponses,
                     wbuf, toServer, inbound, srv>>
      /\ sink \in [Req -> {"none", "start", "await", "data", "done", "dropped"}]
      /\ copyq \in [Req -> Seq(CopyMessage)] /\ copyq[r] \in Seq(CopyMessage)
  BY DEF CopyStart, CopyData, CopyFinish, connVars, wireVars, serverVars, TypeOK, ClientTypeOK
<1>2. Numbered' /\ Accepted' = Accepted /\ Oldest' = Oldest
  BY <1>1, NumberedFrame DEF InStep, Oldest
<1>3. PICK m \in CopyMessage : /\ copyq' = [copyq EXCEPT ![r] = Append(@, m)]
                               /\ sink[r] = "start" <=> m = "CopyStart"
  BY DEF CopyStart, CopyData, CopyFinish, CopyMessage
<1>4. /\ sink[r] \in {"start", "data"} /\ sink'[r] \notin {"none", "start"}
      /\ \A s \in Req : s # r => sink'[s] = sink[s]
  BY <1>1 DEF CopyStart, CopyData, CopyFinish
<1>5. /\ copyq'[r] = Append(copyq[r], m) /\ copyq'[r] # <<>>
      /\ Len(copyq[r]) \in Nat /\ Len(copyq'[r]) = Len(copyq[r]) + 1
      /\ \A i \in 1..Len(copyq[r]) : copyq'[r][i] = copyq[r][i]
      /\ copyq'[r][Len(copyq[r]) + 1] = m
      /\ \A s \in Req : s # r => copyq'[s] = copyq[s]
  BY <1>1, <1>3, AppendProperties, LenProperties
<1>6. CASE copyq[r] = <<>>
  <2>1. Len(copyq[r]) = 0 /\ Len(copyq'[r]) = 1 /\ copyq'[r][1] = m
    BY <1>5, <1>6, EmptySeq
  <2>2. (Started(r))' = Started(r)
    BY <1>3, <1>4, <1>5, <1>6, <2>1 DEF Started
  <2>3. \A i \in 2..Len(copyq'[r]) : copyq'[r][i] # "CopyStart"
    BY <2>1
  <2>4. \A s \in Req : (Started(s))' = Started(s)
    BY <1>4, <1>5, <2>2 DEF Started
  <2>5. CopyStages'
    <3>1. \A s \in Req : sink'[s] \in {"none", "start"} => copyq'[s] = <<>>
      BY <1>4, <1>5 DEF InStep, CopyStages
    <3>2. \A s \in Req : \A i \in 2..Len(copyq'[s]) : copyq'[s][i] # "CopyStart"
      <4>1. \A s \in Req : s # r => \A i \in 2..Len(copyq[s]) : copyq[s][i] # "CopyStart"
        BY DEF InStep, CopyStages
      <4> QED
        BY <1>5, <2>3, <4>1
    <3>3. \A s \in Req : s > Accepted' /\ sink'[s] # "none" => ~(Started(s))'
      BY <1>2, <1>4, <2>4 DEF InStep, CopyStages
    <3>4. \A s \in Req : s > sent' => sink'[s] = "none"
      BY <1>1, <1>4 DEF InStep, CopyStages
    <3>5. pendingRequest' # 0 => pendingRequest' = Accepted'
      BY <1>1, <1>2 DEF InStep, CopyStages
    <3>6. pendingRequest' = 0 => ~copyDone'
      BY <1>1 DEF InStep, CopyStages
    <3> QED
      BY <3>1, <3>2, <3>3, <3>4, <3>5, <3>6 DEF CopyStages
  <2>6. pendingRequest # 0 => pendingRequest \in Req
    BY DEF TypeOK, TaskTypeOK, Req
  <2> QED
    BY <1>1, <1>2, <2>4, <2>5, <2>6, CallerInStep
<1>7. CASE copyq[r] # <<>>
  <2>1. sink[r] = "data" /\ m # "CopyStart"
    BY <1>3, <1>4, <1>7 DEF InStep, CopyStages
  <2>2. 1 \in 1..Len(copyq[r]) /\ copyq'[r][1] = copyq[r][1]
    <3>1. 1 \in 1..Len(copyq[r])
      BY <1>1, <1>5, <1>7, EmptySeq
    <3> QED
      BY <1>5, <3>1
  <2>3. (Started(r))' = Started(r)
    BY <1>4, <1>5, <1>7, <2>1, <2>2 DEF Started
  <2>4. ASSUME NEW i \in 2..Len(copyq'[r]) PROVE copyq'[r][i] # "CopyStart"
    <3>1. CASE i = Len(copyq[r]) + 1
      BY <1>5, <2>1, <3>1
    <3>2. CASE i # Len(copyq[r]) + 1
      <4>1. i \in 2..Len(copyq[r]) /\ i \in 1..Len(copyq[r])
        BY <1>5, <3>2
      <4> QED
        BY <1>5, <4>1 DEF InStep, CopyStages
    <3> QED
      BY <3>1, <3>2
  <2>5. \A s \in Req : (Started(s))' = Started(s)
    BY <1>4, <1>5, <2>3 DEF Started
  <2>6. CopyStages'
    <3>1. \A s \in Req : sink'[s] \in {"none", "start"} => copyq'[s] = <<>>
      BY <1>4, <1>5 DEF InStep, CopyStages
    <3>2. ASSUME NEW s \in Req, NEW i \in 2..Len(copyq'[s])
          PROVE  copyq'[s][i] # "CopyStart"
      <4>1. CASE s = r
        BY <2>4, <4>1
      <4>2. CASE s # r
        BY <1>5, <4>2 DEF InStep, CopyStages
      <4> QED
        BY <4>1, <4>2
    <3>3. \A s \in Req : s > Accepted' /\ sink'[s] # "none" => ~(Started(s))'
      BY <1>2, <1>4, <2>5 DEF InStep, CopyStages
    <3>4. \A s \in Req : s > sent' => sink'[s] = "none"
      BY <1>1, <1>4 DEF InStep, CopyStages
    <3>5. pendingRequest' # 0 => pendingRequest' = Accepted'
      BY <1>1, <1>2 DEF InStep, CopyStages
    <3>6. pendingRequest' = 0 => ~copyDone'
      BY <1>1 DEF InStep, CopyStages
    <3> QED
      BY <3>1, <3>2, <3>3, <3>4, <3>5, <3>6 DEF CopyStages
  <2>7. pendingRequest # 0 => pendingRequest \in Req
    BY DEF TypeOK, TaskTypeOK, Req
  <2> QED
    BY <1>1, <1>2, <2>5, <2>6, <2>7, CallerInStep
<1> QED
  BY <1>6, <1>7

-----------------------------------------------------------------------------
(* The server                                                              *)

\* What the server leaves to the task.
taskSide == <<sent, sendq, sink, copyq, pendingRequest, copyDone, pendingResponses,
              responses, wbuf>>

\* A reply to the request the server is at prolongs the stream of responses.
LEMMA ReplyChained ==
  ASSUME TypeOK, InStep, NEW m \in BackMessage, Reply(m), m.req = srv.req,
         srv'.req = BackTo(m), UNCHANGED taskSide
  PROVE  ResponsesChained'
<1>1. /\ BackChain(pendingResponses, Oldest, BackMid) /\ BackChain(inbound, BackMid, srv.req)
      /\ inbound \in Seq(BackMessage) /\ BackMid \in Int /\ srv.req \in Int
  BY Positions DEF InStep, ResponsesChained
<1>2. BackChain(inbound', BackMid, BackTo(m)) /\ inbound' # <<>>
  BY <1>1, BackChainAppend, AppendProperties DEF Reply
<1>3. BackMid' = BackMid
  BY <1>2 DEF BackMid, BackChain
<1>4. Oldest' = Oldest
  BY DEF taskSide, Oldest, Accepted
<1>5. pendingResponses' = pendingResponses
  BY DEF taskSide
<1> QED
  BY <1>1, <1>2, <1>3, <1>4, <1>5 DEF ResponsesChained

LEMMA SilentChained ==
  ASSUME InStep, UNCHANGED inbound, srv'.req = srv.req, UNCHANGED taskSide
  PROVE  ResponsesChained'
<1>1. BackMid' = BackMid /\ Oldest' = Oldest
  BY DEF BackMid, taskSide, Oldest, Accepted
<1> QED
  BY <1>1 DEF InStep, ResponsesChained, taskSide, BackChain, BackTo

\* A message read is the one the server is at.
LEMMA ReadFront ==
  ASSUME TypeOK, InStep, srv.mode # "closed", toServer # <<>>
  PROVE  /\ Head(toServer) \in FrontMessage /\ Head(toServer).req \in Nat
         /\ FrontFrom(Head(toServer)) = ServerPos
         /\ Head(toServer).type # "Terminate"
         /\ FrontChain(Tail(toServer), FrontTo(Head(toServer)), FrontMid)
         /\ FrontTo(Head(toServer)) <= 2 * Accepted + 2
<1>1. /\ FrontChain(toServer, ServerPos, FrontMid) /\ FrontChain(wbuf, FrontMid, WritePos)
      /\ toServer \in Seq(FrontMessage)
      /\ ServerPos \in Int /\ FrontMid \in Int /\ WritePos \in Int /\ Accepted \in Int
  BY Positions DEF InStep, RequestsChained
<1>2. Head(toServer) \in FrontMessage
  BY <1>1, HeadTailProperties
<1>3. /\ FrontFrom(Head(toServer)) = ServerPos /\ Head(toServer).type # "Terminate"
      /\ FrontChain(Tail(toServer), FrontTo(Head(toServer)), FrontMid)
  BY <1>1, FrontChainTail
<1>4. FrontTo(Head(toServer)) <= FrontMid /\ FrontMid <= WritePos
  BY <1>1, <1>3 DEF FrontChain
<1>5. WritePos <= 2 * Accepted + 2
  BY <1>1 DEF WritePos
<1>6. FrontTo(Head(toServer)) \in Int /\ Head(toServer).req \in Nat
  BY <1>2, FrontToType
<1> QED
  BY <1>1, <1>2, <1>3, <1>4, <1>5, <1>6

\* The server moves along the stream of requests.
LEMMA ServeInStep ==
  ASSUME TypeOK, InStep, UNCHANGED taskSide, ResponsesChained',
         srv'.mode # "closed" => FrontChain(toServer', ServerPos', FrontMid),
         srv'.mode # "closed" => srv.mode # "closed",
         srv'.req <= Accepted + 1
  PROVE  InStep'
<1>1. Numbered' /\ Accepted' = Accepted
  BY NumberedFrame DEF InStep, taskSide
<1>2. CopyStages' /\ ParkedAlone'
  BY CopyFrame, ParkedFrame DEF InStep, taskSide
<1>3. WritePos' = WritePos
  BY <1>1 DEF WritePos, Started, taskSide
<1>4. FrontMid' = FrontMid /\ wbuf' = wbuf
  BY <1>3 DEF FrontMid, FrontFrom, taskSide
<1>5. RequestsChained'
  BY <1>3, <1>4 DEF InStep, RequestsChained
<1> QED
  BY <1>1, <1>2, <1>5 DEF InStep

LEMMA ServeTaskSide ==
  ASSUME UNCHANGED serverFrame
  PROVE  UNCHANGED taskSide
BY DEF serverFrame, taskSide, clientVars, connVars

\* Between requests the server finds a whole request, or the start of a copy.
LEMMA SrvTakeInStep ==
  ASSUME TypeOK, InStep, SrvTake
  PROVE  InStep'
<1> DEFINE m == Head(toServer)
<1>1. /\ srv.mode = "idle" /\ toServer # <<>> /\ m.type = "Single"
      /\ toServer' = Tail(toServer) /\ srv' = [mode |-> "busy", req |-> m.req, part |-> 1]
      /\ UNCHANGED inbound /\ UNCHANGED taskSide
  BY ServeTaskSide DEF SrvTake, Arrives, Consume, Goes
<1>2. /\ m.req \in Nat /\ FrontFrom(m) = ServerPos
      /\ FrontChain(toServer', FrontTo(m), FrontMid)
      /\ srv.req \in Nat
  BY <1>1, ReadFront, Positions
<1>3. m.req = srv.req
  BY <1>1, <1>2 DEF FrontFrom, ServerPos
<1>4. ServerPos' = FrontTo(m)
  BY <1>1 DEF ServerPos, FrontTo
<1>5. ResponsesChained'
  BY <1>1, <1>3, SilentChained
<1> QED
  BY <1>1, <1>2, <1>3, <1>4, <1>5, ServeInStep DEF InStep

LEMMA SrvReplyInStep ==
  ASSUME TypeOK, InStep, SrvChunk \/ SrvReady
  PROVE  InStep'
<1>1. srv.req \in Nat /\ srv.part \in Nat /\ srv.mode = "busy" /\ Accepted \in Int
  BY Positions DEF SrvChunk, SrvReady
<1>2. PICK last \in BOOLEAN :
        /\ Reply(Chunk(srv.req, srv.part, last))
        /\ srv' = IF last THEN [mode |-> "idle", req |-> srv.req + 1, part |-> 1]
                          ELSE [mode |-> "busy", req |-> srv.req, part |-> srv.part + 1]
        /\ toServer' = toServer /\ UNCHANGED taskSide
  <2>1. CASE SrvChunk
    <3> WITNESS FALSE \in BOOLEAN
    <3> QED
      BY <2>1, ServeTaskSide DEF SrvChunk, Goes
  <2>2. CASE SrvReady
    <3> WITNESS TRUE \in BOOLEAN
    <3> QED
      BY <2>2, ServeTaskSide DEF SrvReady, Goes
  <2> QED
    BY <2>1, <2>2
<1> DEFINE m == Chunk(srv.req, srv.part, last)
<1>3. /\ m \in BackMessage /\ m.req = srv.req /\ m.complete = last /\ m.type = "Normal"
  BY <1>1, ChunkType
<1> HIDE DEF m
<1>4. BackTo(m) = srv'.req
  BY <1>2, <1>3 DEF BackTo
<1>5. ResponsesChained'
  BY <1>2, <1>3, <1>4, ReplyChained DEF m
<1>6. /\ FrontChain(toServer, ServerPos, FrontMid) /\ FrontChain(wbuf, FrontMid, WritePos)
      /\ ServerPos = 2 * srv.req + 2
  BY <1>1 DEF InStep, RequestsChained, ServerPos
<1>7. ServerPos' = ServerPos
  BY <1>1, <1>2, <1>6 DEF ServerPos
<1>8. srv.req <= Accepted
  <2>1. ServerPos <= FrontMid /\ FrontMid <= WritePos
    BY <1>6 DEF FrontChain
  <2>2. FrontMid \in Int /\ WritePos \in Int
    BY Positions
  <2>3. WritePos <= 2 * Accepted + 2
    BY <1>1 DEF WritePos
  <2> QED
    BY <1>1, <1>6, <2>1, <2>2, <2>3
<1>9. srv'.req <= Accepted + 1
  BY <1>1, <1>2, <1>8
<1> QED
  BY <1>1, <1>2, <1>5, <1>6, <1>7, <1>9, ServeInStep

LEMMA SrvCopyStartInStep ==
  ASSUME TypeOK, InStep, ~CopyRejects, SrvCopyStart
  PROVE  InStep'
<1> DEFINE m == Head(toServer)
           c == Chunk(m.req, 1, FALSE)
<1>1. /\ srv.mode = "idle" /\ toServer # <<>> /\ m.type = "CopyStart"
      /\ toServer' = Tail(toServer) /\ srv' = [mode |-> "copy", req |-> m.req, part |-> 2]
      /\ Reply(c) /\ UNCHANGED taskSide
  BY ServeTaskSide DEF SrvCopyStart, Arrives, Consume, Goes
<1>2. /\ m.req \in Nat /\ FrontFrom(m) = ServerPos
      /\ FrontChain(toServer', FrontTo(m), FrontMid)
      /\ srv.req \in Nat
  BY <1>1, ReadFront, Positions
<1>3. m.req = srv.req
  BY <1>1, <1>2 DEF FrontFrom, ServerPos
<1>4. ServerPos' = FrontTo(m)
  BY <1>1 DEF ServerPos, FrontTo
<1>5. c \in BackMessage /\ c.req = srv.req /\ BackTo(c) = srv.req
  BY <1>2, <1>3, ChunkType DEF BackTo
<1>6. ResponsesChained'
  BY <1>1, <1>3, <1>5, ReplyChained
<1> QED
  BY <1>1, <1>2, <1>3, <1>4, <1>6, ServeInStep DEF InStep

\* In the middle of a copy it finds the next message of that copy.
LEMMA SrvCopyDataInStep ==
  ASSUME TypeOK, InStep, SrvCopyData \/ SrvCopySkip
  PROVE  InStep'
<1> DEFINE m == Head(toServer)
           c == Chunk(srv.req, srv.part, FALSE)
<1>1. /\ srv.mode \in {"copy", "skip"} /\ toServer # <<>> /\ m.type = "CopyData"
      /\ toServer' = Tail(toServer) /\ UNCHANGED taskSide
      /\ \/ UNCHANGED <<inbound, srv>>
         \/ Reply(c) /\ srv' = [mode |-> "skip", req |-> srv.req, part |-> srv.part + 1]
  BY ServeTaskSide DEF SrvCopyData, SrvCopySkip, Arrives, Consume, Goes
<1>2. /\ m.req \in Nat /\ FrontFrom(m) = ServerPos
      /\ FrontChain(toServer', FrontTo(m), FrontMid)
      /\ srv.req \in Nat /\ srv.part \in Nat
  BY <1>1, ReadFront, Positions
<1>3. m.req = srv.req
  BY <1>1, <1>2 DEF FrontFrom, ServerPos
<1>4. /\ srv'.mode \in {"copy", "skip"} /\ srv'.req = srv.req
  <2>1. CASE UNCHANGED <<inbound, srv>>
    BY <1>1, <2>1
  <2>2. CASE Reply(c) /\ srv' = [mode |-> "skip", req |-> srv.req, part |-> srv.part + 1]
    BY <2>2
  <2> QED
    BY <1>1, <2>1, <2>2
<1>5. ServerPos' = FrontTo(m)
  BY <1>1, <1>3, <1>4 DEF ServerPos, FrontTo
<1>6. ResponsesChained'
  <2>1. CASE UNCHANGED <<inbound, srv>>
    BY <1>1, <2>1, SilentChained
  <2>2. CASE Reply(c)
    <3>1. c \in BackMessage /\ c.req = srv.req /\ BackTo(c) = srv.req
      BY <1>2, ChunkType DEF BackTo
    <3> QED
      BY <1>1, <1>4, <2>2, <3>1, ReplyChained
  <2> QED
    BY <1>1, <2>1, <2>2
<1> QED
  BY <1>1, <1>2, <1>4, <1>5, <1>6, ServeInStep DEF InStep

LEMMA SrvCopyEndInStep ==
  ASSUME TypeOK, InStep, SrvCopyEnd
  PROVE  InStep'
<1> DEFINE m == Head(toServer)
           c == Chunk(srv.req, srv.part, TRUE)
<1>1. /\ srv.mode \in {"copy", "skip"} /\ toServer # <<>> /\ m.type = "CopyEnd"
      /\ toServer' = Tail(toServer) /\ UNCHANGED taskSide
      /\ Reply(c) /\ srv' = [mode |-> "idle", req |-> srv.req + 1, part |-> 1]
  BY ServeTaskSide DEF SrvCopyEnd, Arrives, Consume, Goes
<1>2. /\ m.req \in Nat /\ FrontFrom(m) = ServerPos
      /\ FrontChain(toServer', FrontTo(m), FrontMid)
      /\ FrontTo(m) <= 2 * Accepted + 2
      /\ srv.req \in Nat /\ srv.part \in Nat /\ Accepted \in Int
  BY <1>1, ReadFront, Positions
<1>3. m.req = srv.req
  BY <1>1, <1>2 DEF FrontFrom, ServerPos
<1>4. FrontTo(m) = 2 * srv.req + 2
  BY <1>1, <1>3 DEF FrontTo
<1>5. ServerPos' = FrontTo(m)
  <2>1. ServerPos' = 2 * (srv.req + 1)
    BY <1>1 DEF ServerPos
  <2> QED
    BY <1>2, <1>4, <2>1
<1>6. c \in BackMessage /\ c.req = srv.req /\ BackTo(c) = srv.req + 1
  BY <1>2, ChunkType DEF BackTo
<1>7. ResponsesChained'
  BY <1>1, <1>6, ReplyChained
<1>8. srv'.req <= Accepted + 1
  BY <1>1, <1>2, <1>4
<1> QED
  BY <1>1, <1>2, <1>5, <1>7, <1>8, ServeInStep

\* It never finds a copy message, or the terminate message, between requests.
LEMMA SrvNeverStray ==
  ASSUME TypeOK, InStep
  PROVE  ~SrvStrayCopy /\ ~SrvTerminate
<1>1. SUFFICES ASSUME SrvStrayCopy \/ SrvTerminate PROVE FALSE
  OBVIOUS
<1> DEFINE m == Head(toServer)
<1>2. /\ srv.mode = "idle" /\ toServer # <<>>
      /\ m.type \in {"CopyData", "CopyEnd", "Terminate"}
  BY <1>1 DEF SrvStrayCopy, SrvTerminate, Arrives
<1>3. /\ m.req \in Nat /\ FrontFrom(m) = ServerPos /\ m.type # "Terminate"
      /\ srv.req \in Nat
  BY <1>2, ReadFront, Positions
<1> QED
  BY <1>2, <1>3 DEF FrontFrom, ServerPos

LEMMA SrvAsyncInStep ==
  ASSUME TypeOK, InStep, SrvAsync
  PROVE  InStep'
<1>1. /\ srv.mode # "closed" /\ UNCHANGED <<toServer, srv>> /\ UNCHANGED taskSide
      /\ srv.req \in Nat /\ asyncs' \in Nat
  BY ServeTaskSide, Positions DEF SrvAsync, TypeOK, ServerTypeOK
<1>2. PICK t \in {"Notice", "Parameter"} : Reply(Async(t, srv.req, asyncs'))
  BY DEF SrvAsync
<1>3. /\ Async(t, srv.req, asyncs') \in BackMessage
      /\ Async(t, srv.req, asyncs').req = srv.req
      /\ Async(t, srv.req, asyncs').type # "Normal"
  BY <1>1 DEF Async, BackMessage
<1>4. ResponsesChained'
  <2>1. BackTo(Async(t, srv.req, asyncs')) = srv'.req
    BY <1>1, <1>3 DEF BackTo
  <2> QED
    BY <1>1, <1>2, <1>3, <2>1, ReplyChained
<1>5. FrontChain(toServer', ServerPos', FrontMid)
  BY <1>1 DEF InStep, RequestsChained, ServerPos
<1> QED
  BY <1>1, <1>4, <1>5, ServeInStep DEF InStep

LEMMA SrvCrashInStep ==
  ASSUME TypeOK, InStep, SrvCrash
  PROVE  InStep'
<1>1. /\ srv'.mode = "closed" /\ srv'.req = srv.req
      /\ UNCHANGED <<toServer, inbound>> /\ UNCHANGED taskSide
  BY ServeTaskSide DEF SrvCrash, TypeOK, ServerTypeOK
<1>2. ResponsesChained'
  BY <1>1, SilentChained
<1> QED
  BY <1>1, <1>2, ServeInStep DEF InStep

-----------------------------------------------------------------------------
(* The invariant                                                           *)

\* A task that has terminated or failed stays so.
LEMMA LiveBefore ==
  ASSUME Next, Live'
  PROVE  Live
<1>1. CASE Poll
  <2>1. CASE Wake
    BY <2>1 DEF Wake, Live
  <2>2. CASE Read
    BY <2>2 DEF Live, Read, ReadNotice, ReadParameter, ReadResponse, ReadBlocked,
       ReadUnexpected, ReadPending, ReadEof, ReadDone, Resolve
  <2>3. CASE WriteBackpressure \/ WriteSingle \/ WriteBeginCopy \/ WriteCopy
               \/ WriteCopyFinished \/ WriteCopyPending \/ WritePending
    BY <2>3 DEF Live, WriteBackpressure, WriteSingle, WriteBeginCopy, WriteCopy,
       WriteCopyFinished, WriteCopyPending, WritePending
  <2>4. CASE WriteTerminate \/ WriteEof \/ WriteDone \/ Flush \/ Shutdown \/ WriteError
    BY <2>4 DEF Live, WriteTerminate, WriteEof, WriteDone, Flush, Shutdown, WriteError, Resolve
  <2> QED
    BY <1>1, <2>1, <2>2, <2>3, <2>4 DEF Poll, Write
<1>2. CASE DropConnection
  BY <1>2 DEF DropConnection, Live
<1>3. CASE Client
  <2>1. UNCHANGED connVars
    <3>1. CASE \E copy \in BOOLEAN : Send(copy)
      BY <3>1 DEF Send
    <3>2. ASSUME NEW r \in Req, Recv(r) \/ RecvClosed(r) \/ DropResponses(r)
          PROVE  UNCHANGED connVars
      BY <3>2 DEF Recv, RecvClosed, DropResponses
    <3>3. ASSUME NEW r \in Req, \/ CopyStart(r) \/ CopyData(r)
                                \/ CopyFinish(r) \/ CopyClosed(r)
          PROVE  UNCHANGED connVars
      BY <3>3 DEF CopyStart, CopyData, CopyFinish, CopyClosed
    <3>4. CASE CloseClient
      BY <3>4 DEF CloseClient
    <3> QED
      BY <1>3, <3>1, <3>2, <3>3, <3>4 DEF Client
  <2> QED
    BY <2>1 DEF Live, connVars
<1>4. CASE Serve \/ SrvAsync \/ SrvCrash
  <2>1. UNCHANGED serverFrame
    BY <1>4 DEF Serve, SrvTake, SrvChunk, SrvReady, SrvCopyStart, SrvCopyData,
       SrvCopySkip, SrvCopyEnd, SrvStrayCopy, SrvTerminate, SrvAsync, SrvCrash
  <2> QED
    BY <2>1 DEF Live, serverFrame, connVars
<1>5. CASE Terminated
  BY <1>5 DEF Terminated, Live, vars, connVars
<1> QED
  BY <1>1, <1>2, <1>3, <1>4, <1>5 DEF Next

LEMMA WriteInStep ==
  ASSUME TypeOK, InStep, Write, Live'
  PROVE  InStep'
<1>1. CASE WriteBackpressure \/ Flush \/ Shutdown
  <2>1. /\ Drain
        /\ UNCHANGED <<sent, sendq, sink, copyq, pendingRequest, copyDone,
                       pendingResponses, responses, srv>>
    BY <1>1 DEF WriteBackpressure, Flush, Shutdown, clientVars, serverVars
  <2> QED
    BY <2>1, DrainInStep
<1>2. CASE WriteSingle
  BY <1>2, WriteSingleInStep
<1>3. CASE WriteBeginCopy
  BY <1>3, WriteBeginCopyInStep
<1>4. CASE WriteCopy
  BY <1>4, WriteCopyInStep
<1>5. CASE WriteCopyFinished
  BY <1>5, WriteCopyFinishedInStep
<1>6. CASE WriteCopyPending \/ WritePending \/ WriteEof \/ WriteDone
  <2>1. UNCHANGED chainVars
    BY <1>6 DEF WriteCopyPending, WritePending, WriteEof, WriteDone, chainVars,
       clientVars, wireVars, serverVars
  <2> QED
    BY <2>1, InStepFrame
<1>7. CASE WriteTerminate \/ WriteError
  <2>1. ~Live'
    BY <1>7 DEF WriteTerminate, WriteError, Resolve, Live
  <2> QED
    BY <2>1
<1> QED
  BY <1>1, <1>2, <1>3, <1>4, <1>5, <1>6, <1>7 DEF Write

LEMMA ReadInStep ==
  ASSUME TypeOK, InStep, Routing, Read, Live'
  PROVE  InStep'
<1>1. CASE ReadNotice \/ ReadParameter
  BY <1>1, ReadAsyncInStep
<1>2. CASE ReadResponse
  BY <1>2, ReadResponseInStep
<1>3. CASE ReadBlocked
  BY <1>3, ReadBlockedInStep
<1>4. CASE ReadPending \/ ReadDone
  <2>1. UNCHANGED chainVars
    BY <1>4 DEF ReadPending, ReadDone, chainVars, clientVars, wireVars, serverVars
  <2> QED
    BY <2>1, InStepFrame
<1>5. CASE ReadUnexpected \/ ReadEof
  <2>1. ~Live'
    BY <1>5 DEF ReadUnexpected, ReadEof, Resolve, Live
  <2> QED
    BY <2>1
<1> QED
  BY <1>1, <1>2, <1>3, <1>4, <1>5 DEF Read

LEMMA ClientInStep ==
  ASSUME TypeOK, InStep, Client, pc # "dropped"
  PROVE  InStep'
<1>1. CASE \E copy \in BOOLEAN : Send(copy)
  BY <1>1, SendInStep
<1>2. ASSUME NEW r \in Req, CopyStart(r) \/ CopyData(r) \/ CopyFinish(r)
      PROVE  InStep'
  BY <1>2, CopyInStep
<1>3. ASSUME NEW r \in Req, Recv(r) \/ RecvClosed(r) \/ DropResponses(r)
      PROVE  InStep'
  <2>1. UNCHANGED <<sent, sendq, copyq, responses, pendingRequest, copyDone,
                    pendingResponses, wbuf, toServer, inbound, srv>>
    BY <1>3 DEF Recv, RecvClosed, DropResponses, connVars, wireVars, serverVars
  <2>2. sink \in [Req -> {"none", "start", "await", "data", "done", "dropped"}]
    BY DEF TypeOK, ClientTypeOK
  <2>3. \/ sink' = sink
        \/ sink[r] \in {"await", "data"} /\ sink' = [sink EXCEPT ![r] = "dropped"]
        \/ sink[r] = "await" /\ sink' = [sink EXCEPT ![r] = "data"]
    BY <1>3 DEF Recv, RecvClosed, DropResponses, AbandonCopy
  <2>4. \A s \in Req : \/ sink'[s] = sink[s]
                       \/ {sink[s], sink'[s]} \cap {"none", "start"} = {}
    BY <2>2, <2>3
  <2> QED
    BY <2>1, <2>4, SinkInStep
<1>4. ~\E r \in Req : CopyClosed(r)
  BY DEF CopyClosed
<1>5. CASE CloseClient
  <2>1. UNCHANGED chainVars
    BY <1>5 DEF CloseClient, chainVars, connVars, wireVars, serverVars
  <2> QED
    BY <2>1, InStepFrame
<1> QED
  BY <1>1, <1>2, <1>3, <1>4, <1>5 DEF Client

LEMMA ServerInStep ==
  ASSUME TypeOK, InStep, ~CopyRejects, Serve \/ SrvAsync \/ SrvCrash
  PROVE  InStep'
<1>1. CASE SrvTake
  BY <1>1, SrvTakeInStep
<1>2. CASE SrvChunk \/ SrvReady
  BY <1>2, SrvReplyInStep
<1>3. CASE SrvCopyStart
  BY <1>3, SrvCopyStartInStep
<1>4. CASE SrvCopyData \/ SrvCopySkip
  BY <1>4, SrvCopyDataInStep
<1>5. CASE SrvCopyEnd
  BY <1>5, SrvCopyEndInStep
<1>6. CASE SrvAsync
  BY <1>6, SrvAsyncInStep
<1>7. CASE SrvCrash
  BY <1>7, SrvCrashInStep
<1>8. ~SrvStrayCopy /\ ~SrvTerminate
  BY SrvNeverStray
<1> QED
  BY <1>1, <1>2, <1>3, <1>4, <1>5, <1>6, <1>7, <1>8 DEF Serve

\* A live task stays in step with the server.
LEMMA InStepStep ==
  ASSUME IndInv, ~CopyRejects, Next, Live'
  PROVE  InStep'
<1>1. Live /\ TypeOK /\ Routing /\ InStep /\ pc \notin {"done", "dropped"}
  BY LiveBefore DEF IndInv, Live
<1>2. CASE Poll
  <2>1. CASE Wake
    <3>1. UNCHANGED chainVars
      BY <2>1 DEF Wake, chainVars, clientVars, wireVars, serverVars
    <3> QED
      BY <1>1, <3>1, InStepFrame
  <2> QED
    BY <1>1, <1>2, <2>1, ReadInStep, WriteInStep DEF Poll
<1>3. CASE DropConnection \/ Terminated
  BY <1>1, <1>3 DEF DropConnection, Terminated
<1>4. CASE Client
  BY <1>1, <1>4, ClientInStep
<1>5. CASE Serve \/ SrvAsync \/ SrvCrash
  BY <1>1, <1>5, ServerInStep
<1> QED
  BY <1>2, <1>3, <1>4, <1>5 DEF Next

\* Once it has terminated, nothing but the terminate message moves.
LEMMA TerminatingStep ==
  ASSUME TypeOK, Terminating, Next, state = "Closing"
  PROVE  Terminating'
<1> DEFINE Only(s) == \A i \in 1..Len(s) : s[i].type = "Terminate"
<1>1. /\ ~open /\ srv.req = sent + 1
      /\ srv.mode # "closed" => srv.mode = "idle" /\ Only(toServer) /\ Only(wbuf)
  BY DEF Terminating
<1>2. SUFFICES ASSUME TRUE
               PROVE  /\ UNCHANGED <<open, sent>> /\ srv'.req = srv.req
                      /\ srv'.mode # "closed" => /\ srv'.mode = srv.mode
                                                 /\ Only(toServer') /\ Only(wbuf')
  BY <1>1 DEF Terminating
<1>3. CASE UNCHANGED <<open, sent, srv, toServer, wbuf>>
  BY <1>1, <1>3
<1>4. CASE Read \/ Wake
  BY <1>3, <1>4 DEF Read, Wake, ReadNotice, ReadParameter, ReadResponse, ReadBlocked,
     ReadUnexpected, ReadPending, ReadEof, ReadDone, clientVars, wireVars, serverVars
<1>5. CASE Write
  <2>1. CASE Flush \/ Shutdown
    <3>1. UNCHANGED <<open, sent, srv>> /\ Drain
      BY <2>1 DEF Flush, Shutdown, clientVars, serverVars
    <3>2. SUFFICES ASSUME Only(toServer), Only(wbuf)
                   PROVE  Only(toServer') /\ Only(wbuf')
      BY <1>1, <3>1
    <3>3. /\ toServer \in Seq(FrontMessage) /\ wbuf \in Seq(FrontMessage)
          /\ Len(wbuf) \in Nat /\ Len(toServer) \in Nat
      BY Positions, LenProperties
    <3>4. Flushable \in 0..Len(wbuf)
      BY <3>1, DrainType DEF TypeOK, TaskTypeOK
    <3> DEFINE T == {m \in FrontMessage : m.type = "Terminate"}
    <3>5. /\ \A i \in 1..Len(toServer) : toServer[i] \in T
          /\ \A i \in 1..Len(wbuf) : wbuf[i] \in T
      BY <3>2, <3>3, ElementOfSeq
    <3>6. toServer \in Seq(T)
      BY <3>3, <3>5
    <3> HIDE DEF T
    <3>7. SubSeq(wbuf, 1, Flushable) \in Seq(T)
      <4>1. \A i \in 1..Flushable : wbuf[i] \in T
        BY <3>3, <3>4, <3>5
      <4> QED
        BY <3>4, <4>1, SubSeqProperties
    <3>8. SubSeq(wbuf, Flushable + 1, Len(wbuf)) \in Seq(T)
      <4>1. \A i \in (Flushable + 1)..Len(wbuf) : wbuf[i] \in T
        BY <3>3, <3>4, <3>5
      <4> QED
        BY <3>3, <3>4, <4>1, SubSeqProperties
    <3>9. toServer' \in Seq(T) /\ wbuf' \in Seq(T)
      BY <3>1, <3>6, <3>7, <3>8, ConcatProperties DEF Drain
    <3>10. /\ \A i \in 1..Len(toServer') : toServer'[i] \in T
           /\ \A i \in 1..Len(wbuf') : wbuf'[i] \in T
      BY <3>9, ElementOfSeq
    <3> QED
      BY <3>10 DEF T
  <2>2. CASE WriteDone \/ WriteError
    BY <1>3, <2>2 DEF WriteDone, WriteError, clientVars, wireVars, serverVars
  <2>3. ~(WriteBackpressure \/ WriteSingle \/ WriteBeginCopy \/ WriteCopy
            \/ WriteCopyFinished \/ WriteCopyPending \/ WritePending
            \/ WriteTerminate \/ WriteEof)
    BY DEF WriteBackpressure, WriteSingle, WriteBeginCopy, WriteCopy, WriteCopyFinished,
       WriteCopyPending, WritePending, WriteTerminate, WriteEof, Writable, Writing
  <2> QED
    BY <1>5, <2>1, <2>2, <2>3 DEF Write
<1>6. CASE DropConnection
  <2>1. UNCHANGED <<open, sent, srv, toServer>> /\ wbuf' = <<>>
    BY <1>6 DEF DropConnection, serverVars
  <2> QED
    BY <1>1, <2>1, EmptySeq
<1>7. CASE Client
  BY <1>1, <1>3, <1>7 DEF Client, Send, Recv, RecvClosed, DropResponses, CopyStart,
     CopyData, CopyFinish, CopyClosed, CloseClient, wireVars, serverVars
<1>8. CASE Serve
  <2>1. CASE SrvTerminate
    BY <2>1 DEF SrvTerminate, serverFrame, clientVars, TypeOK, ServerTypeOK
  <2>2. ~(SrvChunk \/ SrvReady \/ SrvCopyData \/ SrvCopySkip \/ SrvCopyEnd)
    BY <1>1 DEF SrvChunk, SrvReady, SrvCopyData, SrvCopySkip, SrvCopyEnd
  <2>3. ~(SrvTake \/ SrvCopyStart \/ SrvStrayCopy)
    <3>1. srv.mode = "idle" /\ toServer # <<>> => Head(toServer).type = "Terminate"
      <4>1. SUFFICES ASSUME srv.mode = "idle", toServer # <<>>
                     PROVE  Head(toServer).type = "Terminate"
        OBVIOUS
      <4>2. 1 \in 1..Len(toServer) /\ Head(toServer) = toServer[1]
        BY <4>1, Positions, EmptySeq, LenProperties
      <4> QED
        BY <1>1, <4>1, <4>2
    <3> QED
      BY <3>1 DEF SrvTake, SrvCopyStart, SrvStrayCopy, Arrives
  <2> QED
    BY <1>8, <2>1, <2>2, <2>3 DEF Serve
<1>9. CASE SrvAsync
  BY <1>3, <1>9 DEF SrvAsync, serverFrame, clientVars
<1>10. CASE SrvCrash
  BY <1>10 DEF SrvCrash, serverFrame, clientVars, TypeOK, ServerTypeOK
<1>11. CASE Terminated
  BY <1>3, <1>11 DEF Terminated, vars, clientVars, wireVars, serverVars
<1> QED
  BY <1>4, <1>5, <1>6, <1>7, <1>8, <1>9, <1>10, <1>11 DEF Next, Poll

\* Only ReadResponse puts batches into a channel; its owner takes them from the front.
LEMMA RoutingStep ==
  ASSUME IndInv, Next
  PROVE  Routing'
<1>1. Routing /\ TypeOK /\ chan \in [Req -> Seq(BackMessage)]
  BY DEF IndInv, TypeOK, QueueTypeOK
<1>2. ASSUME NEW r \in Req, NEW q \in Seq(BackMessage), chan' = [chan EXCEPT ![r] = q],
             \A i \in 1..Len(q) : q[i].req = r
      PROVE  Routing'
  BY <1>1, <1>2 DEF Routing
<1>3. CASE ReadResponse
  <2>1. Live
    BY <1>3 DEF ReadResponse, Reading, IndInv, Live
  <2> QED
    BY <1>1, <1>3, <2>1, ReadResponseInStep DEF IndInv
<1>4. CASE (Poll /\ ~ReadResponse) \/ DropConnection
  <2>1. UNCHANGED chan
    <3>1. CASE Wake \/ DropConnection
      BY <3>1 DEF Wake, DropConnection
    <3>2. CASE Read /\ ~ReadResponse
      BY <3>2 DEF Read, ReadNotice, ReadParameter, ReadBlocked, ReadUnexpected, ReadPending,
         ReadEof, ReadDone
    <3>3. CASE WriteBackpressure \/ WriteSingle \/ WriteBeginCopy \/ WriteCopy
                 \/ WriteCopyFinished \/ WriteCopyPending \/ WritePending
      BY <3>3 DEF WriteBackpressure, WriteSingle, WriteBeginCopy, WriteCopy,
         WriteCopyFinished, WriteCopyPending, WritePending
    <3>4. CASE WriteTerminate \/ WriteEof \/ WriteDone \/ Flush \/ Shutdown \/ WriteError
      BY <3>4 DEF WriteTerminate, WriteEof, WriteDone, Flush, Shutdown, WriteError
    <3> QED
      BY <1>4, <3>1, <3>2, <3>3, <3>4 DEF Poll, Write
  <2> QED
    BY <1>1, <2>1, RoutingFrame
<1>5. ASSUME NEW r \in Req, Recv(r) \/ RecvClosed(r) \/ DropResponses(r) \/ CopyClosed(r)
      PROVE  Routing'
  <2>1. CASE chan' = [chan EXCEPT ![r] = <<>>]
    <3>1. <<>> \in Seq(BackMessage) /\ Len(<<>>) = 0
      BY EmptySeq
    <3>2. \A i \in 1..Len(<<>>) : <<>>[i].req = r
      BY <3>1
    <3> QED
      BY <1>2, <2>1, <3>1, <3>2
  <2>2. CASE Recv(r) /\ chan' = [chan EXCEPT ![r] = Tail(@)]
    <3>1. chan[r] \in Seq(BackMessage) /\ chan[r] # <<>>
      BY <1>1, <2>2 DEF Recv
    <3>2. /\ Tail(chan[r]) \in Seq(BackMessage) /\ Len(chan[r]) \in Nat
          /\ Len(Tail(chan[r])) = Len(chan[r]) - 1
          /\ \A i \in 1..Len(Tail(chan[r])) : Tail(chan[r])[i] = chan[r][i + 1]
      BY <3>1, HeadTailProperties, LenProperties
    <3>3. ASSUME NEW i \in 1..Len(Tail(chan[r])) PROVE Tail(chan[r])[i].req = r
      <4>1. i + 1 \in 1..Len(chan[r]) /\ Tail(chan[r])[i] = chan[r][i + 1]
        BY <3>2
      <4> QED
        BY <1>1, <4>1 DEF Routing
    <3> QED
      BY <1>2, <2>2, <3>2, <3>3
  <2> QED
    BY <1>5, <2>1, <2>2 DEF Recv, RecvClosed, DropResponses, CopyClosed, Leave
<1>6. CASE Client
  <2>1. CASE \/ CloseClient
             \/ \E copy \in BOOLEAN : Send(copy)
             \/ \E r \in Req : CopyStart(r) \/ CopyData(r) \/ CopyFinish(r)
    <3>1. UNCHANGED chan
      BY <2>1 DEF CloseClient, Send, CopyStart, CopyData, CopyFinish
    <3> QED
      BY <1>1, <3>1, RoutingFrame
  <2> QED
    BY <1>5, <1>6, <2>1 DEF Client
<1>7. CASE Serve \/ SrvAsync \/ SrvCrash \/ Terminated
  <2>1. UNCHANGED chan
    BY <1>7 DEF Serve, SrvTake, SrvChunk, SrvReady, SrvCopyStart, SrvCopyData,
       SrvCopySkip, SrvCopyEnd, SrvStrayCopy, SrvTerminate, SrvAsync, SrvCrash,
       Terminated, serverFrame, vars
  <2> QED
    BY <1>1, <2>1, RoutingFrame
<1> QED
  BY <1>3, <1>4, <1>6, <1>7 DEF Next

\* The request queue is closed exactly when the task has resolved.
LEMMA ResolvedStep ==
  ASSUME IndInv, Next
  PROVE  receiverClosed' <=> pc' \in {"done", "dropped"}
<1>1. receiverClosed <=> pc \in {"done", "dropped"}
  BY DEF IndInv
<1>2. CASE Wake \/ DropConnection \/ Terminated
  BY <1>1, <1>2 DEF Wake, DropConnection, Terminated, vars, connVars
<1>3. CASE Read
  BY <1>1, <1>3 DEF Read, ReadNotice, ReadParameter, ReadResponse, ReadBlocked,
     ReadUnexpected, ReadPending, ReadEof, ReadDone, Resolve, Reading
<1>4. CASE WriteBackpressure \/ WriteSingle \/ WriteBeginCopy \/ WriteCopy
             \/ WriteCopyFinished \/ WriteCopyPending \/ WritePending
  BY <1>1, <1>4 DEF WriteBackpressure, WriteSingle, WriteBeginCopy, WriteCopy,
     WriteCopyFinished, WriteCopyPending, WritePending, Writable, Writing, Return, AfterWrite
<1>5. CASE WriteTerminate \/ WriteEof \/ WriteDone \/ Flush \/ Shutdown \/ WriteError
  BY <1>1, <1>5 DEF WriteTerminate, WriteEof, WriteDone, Flush, Shutdown, WriteError,
     Writable, Writing, Return, Resolve, AfterWrite
<1>6. CASE Client \/ Serve \/ SrvAsync \/ SrvCrash
  <2>1. UNCHANGED connVars
    <3>1. CASE \E copy \in BOOLEAN : Send(copy)
      BY <3>1 DEF Send
    <3>2. CASE \E r \in Req : Recv(r) \/ RecvClosed(r) \/ DropResponses(r)
      BY <3>2 DEF Recv, RecvClosed, DropResponses
    <3>3. CASE \E r \in Req : CopyStart(r) \/ CopyData(r) \/ CopyFinish(r) \/ CopyClosed(r)
      BY <3>3 DEF CopyStart, CopyData, CopyFinish, CopyClosed
    <3>4. CASE CloseClient
      BY <3>4 DEF CloseClient
    <3>5. CASE Serve \/ SrvAsync \/ SrvCrash
      BY <3>5 DEF Serve, SrvTake, SrvChunk, SrvReady, SrvCopyStart, SrvCopyData,
         SrvCopySkip, SrvCopyEnd, SrvStrayCopy, SrvTerminate, SrvAsync, SrvCrash, serverFrame
    <3> QED
      BY <1>6, <3>1, <3>2, <3>3, <3>4, <3>5 DEF Client
  <2> QED
    BY <1>1, <2>1 DEF connVars
<1> QED
  BY <1>2, <1>3, <1>4, <1>5, <1>6 DEF Next, Poll, Write

\* The task enters Closing from a live state only, by WriteTerminate.
LEMMA ClosingStep ==
  ASSUME IndInv, Next, state' = "Closing"
  PROVE  Terminating'
<1>1. CASE state = "Closing"
  BY <1>1, TerminatingStep DEF IndInv
<1>2. CASE state # "Closing"
  <2>1. state = "Active"
    BY <1>2 DEF IndInv, TypeOK, TaskTypeOK
  <2>2. CASE WriteTerminate
    <3>1. Live
      BY <2>1, <2>2 DEF WriteTerminate, Writable, Writing, IndInv, Live
    <3> QED
      BY <2>2, <3>1, WriteTerminateStep DEF IndInv
  <2>3. CASE ~WriteTerminate
    <3>1. state' = state
      <4>1. CASE Wake \/ Read \/ DropConnection \/ Terminated
        BY <4>1 DEF Wake, DropConnection, Terminated, vars, connVars, Read, ReadNotice,
           ReadParameter, ReadResponse, ReadBlocked, ReadUnexpected, ReadPending, ReadEof,
           ReadDone
      <4>2. CASE WriteBackpressure \/ WriteSingle \/ WriteBeginCopy \/ WriteCopy
                   \/ WriteCopyFinished \/ WriteCopyPending \/ WritePending
        BY <4>2 DEF WriteBackpressure, WriteSingle, WriteBeginCopy, WriteCopy,
           WriteCopyFinished, WriteCopyPending, WritePending
      <4>3. CASE WriteEof \/ WriteDone \/ Flush \/ Shutdown \/ WriteError
        BY <4>3 DEF WriteEof, WriteDone, Flush, Shutdown, WriteError
      <4>4. CASE Client
        BY <4>4 DEF Client, Send, Recv, RecvClosed, DropResponses, CopyStart, CopyData,
           CopyFinish, CopyClosed, CloseClient, connVars
      <4>5. CASE Serve \/ SrvAsync \/ SrvCrash
        BY <4>5 DEF Serve, SrvTake, SrvChunk, SrvReady, SrvCopyStart, SrvCopyData,
           SrvCopySkip, SrvCopyEnd, SrvStrayCopy, SrvTerminate, SrvAsync, SrvCrash,
           serverFrame, connVars
      <4> QED
        BY <2>3, <4>1, <4>2, <4>3, <4>4, <4>5 DEF Next, Poll, Write
    <3> QED
      BY <1>2, <3>1
  <2> QED
    BY <2>2, <2>3
<1> QED
  BY <1>1, <1>2

LEMMA InitInv ==
  ASSUME Init
  PROVE  IndInv
<1>1. TypeOK
  BY TypeInit
<1>2. /\ sent = 0 /\ sendq = <<>> /\ responses = <<>> /\ wbuf = <<>> /\ toServer = <<>>
      /\ inbound = <<>> /\ srv = [mode |-> "idle", req |-> 1, part |-> 1]
      /\ pendingRequest = 0 /\ ~copyDone /\ state = "Active" /\ pc = "read"
      /\ sink = [r \in Req |-> "none"] /\ copyq = [r \in Req |-> <<>>]
      /\ chan = [r \in Req |-> <<>>] /\ receiverClosed = FALSE
  BY DEF Init
<1>3. Len(<<>>) = 0
  BY EmptySeq
<1>4. Accepted = 0 /\ Oldest = 1
  <2>1. Len(sendq) = 0 /\ Len(responses) = 0
    BY <1>2, <1>3
  <2>2. Accepted = 0
    <3>1. Accepted = 0 - 0
      BY <1>2, <2>1 DEF Accepted
    <3> QED
      BY <3>1
  <2> QED
    BY <2>1, <2>2 DEF Oldest
<1>5. Routing
  BY <1>2, <1>3 DEF Routing
<1>6. Numbered
  BY <1>2, <1>3 DEF Numbered
<1>7. CopyStages
  BY <1>2, <1>3 DEF CopyStages
<1>8. /\ \A i \in 1..Len(pendingResponses) :
           /\ pendingResponses[i].type = "Notice" /\ pendingResponses[i].req = 1
           /\ BackTo(pendingResponses[i]) = 1
      /\ Len(pendingResponses) \in Nat
  <2>1. pendingResponses = [i \in 1..asyncs |-> Async("Notice", 1, i)]
    BY DEF Init
  <2>2. asyncs \in Nat
    BY <1>1, BoundsAssumption DEF TypeOK, ServerTypeOK
  <2>3. Len(pendingResponses) = asyncs
    BY <1>1, <2>1, <2>2, Positions, LenProperties
  <2> QED
    BY <2>1, <2>2, <2>3 DEF Async, BackTo
<1>9. ParkedAlone
  BY <1>8 DEF ParkedAlone
<1>10. ResponsesChained
  <2>1. BackMid = 1
    BY <1>2 DEF BackMid
  <2>2. BackChain(pendingResponses, 1, 1)
    <3>1. pendingResponses # <<>> => Len(pendingResponses) # 0
      BY <1>1, EmptySeq, Positions
    <3>2. pendingResponses # <<>> =>
            1 \in 1..Len(pendingResponses) /\ Len(pendingResponses) \in 1..Len(pendingResponses)
      BY <1>8, <3>1
    <3>3. \A i \in 1..Len(pendingResponses) - 1 :
            i \in 1..Len(pendingResponses) /\ i + 1 \in 1..Len(pendingResponses)
      BY <1>8
    <3>4. /\ pendingResponses # <<>> => /\ pendingResponses[1].req = 1
                                       /\ BackTo(pendingResponses[Len(pendingResponses)]) = 1
          /\ \A i \in 1..Len(pendingResponses) - 1 :
               BackTo(pendingResponses[i]) = pendingResponses[i + 1].req
          /\ \A i \in 1..Len(pendingResponses) : BackTo(pendingResponses[i]) <= 1
      BY <1>8, <3>2, <3>3
    <3> QED
      BY <3>4 DEF BackChain
  <2>3. BackChain(inbound, 1, 1)
    BY <1>2, BackChainEmpty
  <2>4. srv.req = 1
    BY <1>2
  <2> QED
    BY <1>4, <2>1, <2>2, <2>3, <2>4 DEF ResponsesChained
<1>11. RequestsChained
  <2>1. WritePos = 2 /\ ServerPos = 2 /\ FrontMid = 2
    BY <1>2, <1>4 DEF WritePos, ServerPos, FrontMid
  <2>2. FrontChain(<<>>, 2, 2)
    BY FrontChainEmpty
  <2> QED
    BY <1>2, <2>1, <2>2 DEF RequestsChained
<1>12. srv.req <= Accepted + 1
  BY <1>2, <1>4
<1>13. InStep
  BY <1>6, <1>7, <1>9, <1>10, <1>11, <1>12 DEF InStep
<1> QED
  BY <1>1, <1>2, <1>5, <1>13 DEF IndInv

LEMMA StepInv ==
  ASSUME IndInv, ~CopyRejects, [Next]_vars
  PROVE  IndInv'
<1>1. CASE Next
  <2>1. TypeOK'
    BY TypeStep DEF IndInv
  <2>2. Routing'
    BY <1>1, RoutingStep
  <2>3. receiverClosed' <=> pc' \in {"done", "dropped"}
    BY <1>1, ResolvedStep
  <2>4. Live' => InStep'
    BY <1>1, InStepStep
  <2>5. state' = "Closing" => Terminating'
    BY <1>1, ClosingStep
  <2> QED
    BY <2>1, <2>2, <2>3, <2>4, <2>5 DEF IndInv
<1>2. CASE UNCHANGED vars
  <2>1. TypeOK' /\ Routing'
    BY <1>2, TypeStep, RoutingFrame DEF IndInv, vars
  <2>2. Live' => InStep'
    BY <1>2, InStepFrame
    DEF IndInv, Live, chainVars, vars, clientVars, connVars, wireVars, serverVars
  <2>3. state' = "Closing" => Terminating'
    BY <1>2 DEF IndInv, Terminating, vars, clientVars, connVars, wireVars, serverVars
  <2>4. receiverClosed' <=> pc' \in {"done", "dropped"}
    BY <1>2 DEF IndInv, vars, connVars
  <2> QED
    BY <2>1, <2>2, <2>3, <2>4 DEF IndInv
<1> QED
  BY <1>1, <1>2

\* While it lives the task is in step with the server: every queue between a caller and
\* the server is a chain, in which each message starts where the one before it ended
\* (connection.rs, poll_read and poll_write), provided the server answers every Sync it is
\* sent once.
THEOREM InStepCorrect ==
  ASSUME CopyRejects = FALSE
  PROVE  Spec => []IndInv
<1>1. Init => IndInv
  BY InitInv
<1>2. IndInv /\ [Next]_vars => IndInv'
  BY StepInv
<1> QED
  BY <1>1, <1>2, PTL DEF Spec

\* Whatever is pipelined, cancelled, parked or cut off, a response channel only ever
\* holds batches the server sent for its request (connection.rs, poll_read), under the
\* same proviso.
THEOREM RoutingCorrect ==
  ASSUME CopyRejects = FALSE
  PROVE  Spec => []Routing
<1>1. IndInv => Routing
  BY DEF IndInv
<1> QED
  BY <1>1, InStepCorrect, PTL

\* The task writes Terminate, and so resolves without an error, only when every
\* Client is gone and the server has completed every request sent (connection.rs,
\* poll_write), under the same proviso.
THEOREM ResolvesCorrect ==
  ASSUME CopyRejects = FALSE
  PROVE  Spec => []ResolvesWhenDone
<1>1. IndInv => ResolvesWhenDone
  BY DEF IndInv, Terminating, ResolvesWhenDone
<1> QED
  BY <1>1, InStepCorrect, PTL

-----------------------------------------------------------------------------
(* No request cuts into a COPY, as the server sees it.  IndInv has the     *)
(* chain of requests that shows it, but only while the task is live: after *)
(* a failure the server goes on reading what it was sent.                  *)

\* What the server has still to read starts where it is.
InTurn ==
  state # "Closing" /\ srv.mode # "closed" =>
    \E e \in Int : FrontChain(toServer, ServerPos, e)

LEMMA LiveInTurn == TypeOK /\ InStep => InTurn
<1>1. SUFFICES ASSUME TypeOK, InStep, srv.mode # "closed"
               PROVE  \E e \in Int : FrontChain(toServer, ServerPos, e)
  BY DEF InTurn
<1>2. FrontMid \in Int
  BY <1>1, Positions
<1>3. FrontChain(toServer, ServerPos, FrontMid)
  BY <1>1 DEF InStep, RequestsChained
<1> QED
  BY <1>2, <1>3

\* The server does not lose its place when it takes the message it is at, whether the task
\* is still there or not.
LEMMA TakeInTurn ==
  ASSUME TypeOK, InTurn, state # "Closing", srv.mode # "closed", toServer # <<>>,
         Consume, UNCHANGED state, ServerPos' = FrontTo(Head(toServer))
  PROVE  InTurn'
<1>1. /\ toServer \in Seq(FrontMessage) /\ ServerPos \in Int
  BY Positions
<1>2. PICK e \in Int : FrontChain(toServer, ServerPos, e)
  BY DEF InTurn
<1>3. FrontChain(Tail(toServer), FrontTo(Head(toServer)), e)
  BY <1>1, <1>2, FrontChainTail
<1>4. FrontChain(toServer', ServerPos', e)
  BY <1>3 DEF Consume
<1> QED
  BY <1>4 DEF InTurn

LEMMA HeadInTurn ==
  ASSUME TypeOK, InTurn, state # "Closing", srv.mode # "closed", toServer # <<>>
  PROVE  /\ Head(toServer).req \in Nat
         /\ FrontFrom(Head(toServer)) = ServerPos
<1>1. toServer \in Seq(FrontMessage) /\ ServerPos \in Int
  BY Positions
<1>2. PICK e \in Int : FrontChain(toServer, ServerPos, e)
  BY DEF InTurn
<1>3. FrontFrom(Head(toServer)) = ServerPos
  BY <1>1, <1>2, FrontChainTail
<1>4. Head(toServer) \in FrontMessage
  BY <1>1, HeadTailProperties
<1> QED
  BY <1>3, <1>4, FrontToType

LEMMA StillInTurn ==
  ASSUME InTurn, UNCHANGED <<state, toServer>>,
         srv'.mode # "closed" => srv.mode # "closed" /\ ServerPos' = ServerPos
  PROVE  InTurn'
<1>1. SUFFICES ASSUME state' # "Closing", srv'.mode # "closed"
               PROVE  \E e \in Int : FrontChain(toServer, ServerPos', e)
  BY DEF InTurn, FrontChain, FrontFrom, FrontTo
<1>2. ServerPos' = ServerPos /\ \E e \in Int : FrontChain(toServer, ServerPos, e)
  BY <1>1 DEF InTurn
<1> QED
  BY <1>2

\* Each step of the server.
LEMMA ServeInTurn ==
  ASSUME TypeOK, ~CopyRejects, InTurn, state # "Closing", Serve \/ SrvAsync \/ SrvCrash
  PROVE  InTurn'
<1>1. UNCHANGED state
  BY DEF Serve, SrvTake, SrvChunk, SrvReady, SrvCopyStart, SrvCopyData, SrvCopySkip,
     SrvCopyEnd, SrvStrayCopy, SrvTerminate, SrvAsync, SrvCrash, serverFrame, connVars
<1>2. srv.req \in Nat /\ srv \in [mode : {"idle", "busy", "copy", "skip", "closed"},
                                  req : Nat, part : Nat]
  BY DEF TypeOK, ServerTypeOK
<1> DEFINE m == Head(toServer)
<1>3. CASE SrvTake
  <2>1. /\ srv.mode = "idle" /\ toServer # <<>> /\ m.type = "Single" /\ Consume
        /\ srv' = [mode |-> "busy", req |-> m.req, part |-> 1]
    BY <1>3 DEF SrvTake, Arrives, Goes
  <2>2. ServerPos' = FrontTo(m)
    BY <2>1 DEF ServerPos, FrontTo
  <2> QED
    BY <1>1, <2>1, <2>2, TakeInTurn
<1>4. CASE SrvChunk \/ SrvReady
  <2>1. /\ srv.mode = "busy" /\ UNCHANGED toServer
        /\ \/ srv' = [mode |-> "busy", req |-> srv.req, part |-> srv.part + 1]
           \/ srv' = [mode |-> "idle", req |-> srv.req + 1, part |-> 1]
    BY <1>4 DEF SrvChunk, SrvReady, Goes
  <2>2. ServerPos' = ServerPos
    BY <1>2, <2>1 DEF ServerPos
  <2> QED
    BY <1>1, <2>1, <2>2, StillInTurn
<1>5. CASE SrvCopyStart
  <2>1. /\ srv.mode = "idle" /\ toServer # <<>> /\ m.type = "CopyStart" /\ Consume
        /\ srv' = [mode |-> "copy", req |-> m.req, part |-> 2]
    BY <1>5 DEF SrvCopyStart, Arrives, Goes
  <2>2. ServerPos' = FrontTo(m)
    BY <2>1 DEF ServerPos, FrontTo
  <2> QED
    BY <1>1, <2>1, <2>2, TakeInTurn
<1>6. CASE SrvCopyData \/ SrvCopySkip
  <2>1. /\ srv.mode \in {"copy", "skip"} /\ toServer # <<>> /\ m.type = "CopyData" /\ Consume
        /\ srv' = srv \/ srv' = [mode |-> "skip", req |-> srv.req, part |-> srv.part + 1]
    BY <1>6 DEF SrvCopyData, SrvCopySkip, Arrives, Goes
  <2>2. m.req \in Nat /\ FrontFrom(m) = ServerPos
    BY <2>1, HeadInTurn
  <2>3. m.req = srv.req
    BY <1>2, <2>1, <2>2 DEF FrontFrom, ServerPos
  <2>4. ServerPos' = FrontTo(m)
    BY <2>1, <2>3 DEF ServerPos, FrontTo
  <2> QED
    BY <1>1, <2>1, <2>4, TakeInTurn
<1>7. CASE SrvCopyEnd
  <2>1. /\ srv.mode \in {"copy", "skip"} /\ toServer # <<>> /\ m.type = "CopyEnd" /\ Consume
        /\ srv' = [mode |-> "idle", req |-> srv.req + 1, part |-> 1]
    BY <1>7 DEF SrvCopyEnd, Arrives, Goes
  <2>2. m.req \in Nat /\ FrontFrom(m) = ServerPos
    BY <2>1, HeadInTurn
  <2>3. m.req = srv.req
    BY <1>2, <2>1, <2>2 DEF FrontFrom, ServerPos
  <2>4. ServerPos' = FrontTo(m)
    BY <1>2, <2>1, <2>3 DEF ServerPos, FrontTo
  <2> QED
    BY <1>1, <2>1, <2>4, TakeInTurn
<1>8. CASE SrvStrayCopy
  <2>1. /\ srv.mode = "idle" /\ toServer # <<>> /\ m.type \in {"CopyData", "CopyEnd"}
    BY <1>8 DEF SrvStrayCopy, Arrives
  <2>2. m.req \in Nat /\ FrontFrom(m) = ServerPos
    BY <2>1, HeadInTurn
  <2>3. 2 * m.req + 1 = 2 * srv.req
    BY <2>1, <2>2 DEF FrontFrom, ServerPos
  <2> QED
    BY <1>2, <2>2, <2>3
<1>9. CASE SrvTerminate \/ SrvCrash
  BY <1>2, <1>9 DEF SrvTerminate, SrvCrash, InTurn
<1>10. CASE SrvAsync
  BY <1>1, <1>10, StillInTurn DEF SrvAsync, ServerPos
<1> QED
  BY <1>3, <1>4, <1>5, <1>6, <1>7, <1>8, <1>9, <1>10 DEF Serve

\* While the task is live IndInv has it; a failure leaves the socket as it is, and after it
\* nothing but the server moves.
LEMMA InTurnStep ==
  ASSUME IndInv, InTurn, ~CopyRejects, [Next]_vars, IndInv'
  PROVE  InTurn'
<1>1. /\ TypeOK /\ (receiverClosed <=> pc \in {"done", "dropped"})
      /\ state \in {"Active", "Closing"} /\ receiverClosed \in BOOLEAN
      /\ TypeOK' /\ (Live' => InStep')
  BY DEF IndInv, TypeOK, TaskTypeOK
<1>2. CASE UNCHANGED <<state, toServer, srv>>
  BY <1>2, StillInTurn DEF ServerPos
<1>3. (TypeOK /\ InStep => InTurn)'
  BY LiveInTurn, PTL
<1>4. CASE Live'
  BY <1>1, <1>3, <1>4
<1>5. CASE state' = "Closing"
  BY <1>5 DEF InTurn
<1>6. CASE Next /\ ~Live' /\ state' # "Closing"
  <2>1. CASE Serve \/ SrvAsync \/ SrvCrash
    <3>1. UNCHANGED state
      BY <2>1 DEF Serve, SrvTake, SrvChunk, SrvReady, SrvCopyStart, SrvCopyData, SrvCopySkip,
         SrvCopyEnd, SrvStrayCopy, SrvTerminate, SrvAsync, SrvCrash, serverFrame, connVars
    <3> QED
      BY <1>1, <1>6, <2>1, <3>1, ServeInTurn
  <2>2. CASE Wake \/ Read \/ DropConnection \/ Terminated
    BY <1>2, <2>2 DEF Wake, DropConnection, Terminated, vars, connVars, wireVars, serverVars,
       Read, ReadNotice, ReadParameter, ReadResponse, ReadBlocked, ReadUnexpected, ReadPending,
       ReadEof, ReadDone
  <2>3. CASE Client
    BY <1>2, <2>3 DEF Client, Send, Recv, RecvClosed, DropResponses, CopyStart, CopyData,
       CopyFinish, CopyClosed, CloseClient, connVars, wireVars, serverVars
  <2>4. CASE WriteSingle \/ WriteBeginCopy \/ WriteCopy \/ WriteCopyFinished
               \/ WriteCopyPending \/ WritePending \/ WriteEof \/ WriteDone \/ WriteError
    BY <1>2, <2>4 DEF WriteSingle, WriteBeginCopy, WriteCopy, WriteCopyFinished,
       WriteCopyPending, WritePending, WriteEof, WriteDone, WriteError, wireVars, serverVars
  <2>5. CASE WriteTerminate
    BY <1>6, <2>5 DEF WriteTerminate
  <2>6. CASE WriteBackpressure \/ Flush \/ Shutdown
    <3>1. /\ Drain /\ UNCHANGED <<sent, sendq, sink, copyq, pendingRequest, copyDone,
                                  pendingResponses, responses, srv, state>>
          /\ pc \notin {"done", "dropped"}
      BY <2>6 DEF WriteBackpressure, Flush, Shutdown, Writing, clientVars, serverVars
    <3>2. Live /\ InStep
      BY <1>1, <1>6, <3>1 DEF Live, IndInv
    <3>3. InStep'
      BY <1>1, <3>1, <3>2, DrainInStep
    <3> QED
      BY <1>1, <1>3, <3>3
  <2> QED
    BY <1>6, <2>1, <2>2, <2>3, <2>4, <2>5, <2>6 DEF Next, Poll, Write
<1> QED
  BY <1>2, <1>4, <1>5, <1>6 DEF vars, connVars, wireVars, serverVars

\* The server is never handed a message of another request, or of none, in the middle of a
\* COPY, also after the task has failed (connection.rs, poll_request and pending_request),
\* provided it answers every Sync it is sent once.
THEOREM CopyExclusiveCorrect ==
  ASSUME CopyRejects = FALSE
  PROVE  Spec => []CopyExclusive
<1> DEFINE Inv == IndInv /\ InTurn
<1>1. Init => Inv
  <2>1. ASSUME Init PROVE InTurn
    <3>1. toServer = <<>> /\ ServerPos = 2
      BY <2>1 DEF Init, ServerPos
    <3> QED
      BY <3>1, FrontChainEmpty DEF InTurn
  <2> QED
    BY <2>1, InitInv
<1>2. Inv /\ [Next]_vars => Inv'
  <2>1. SUFFICES ASSUME IndInv, InTurn, [Next]_vars PROVE IndInv' /\ InTurn'
    OBVIOUS
  <2>2. IndInv'
    BY <2>1, StepInv
  <2> QED
    BY <2>1, <2>2, InTurnStep
<1>3. Inv => CopyExclusive
  <2>1. SUFFICES ASSUME IndInv, InTurn, srv.mode \in {"copy", "skip"}, toServer # <<>>
                 PROVE  /\ Head(toServer).type \in {"CopyData", "CopyEnd"}
                        /\ Head(toServer).req = srv.req
    BY DEF CopyExclusive
  <2>2. TypeOK /\ srv.req \in Nat /\ state # "Closing"
    BY <2>1 DEF IndInv, TypeOK, ServerTypeOK, Terminating
  <2>3. /\ Head(toServer).req \in Nat
        /\ FrontFrom(Head(toServer)) = 2 * srv.req + 1
    BY <2>1, <2>2, HeadInTurn DEF ServerPos
  <2> QED
    BY <2>2, <2>3 DEF FrontFrom
<1> QED
  BY <1>1, <1>2, <1>3, PTL DEF Spec

-----------------------------------------------------------------------------
(* The stream of items: what is parked, then what is on the wire           *)

LEMMA StreamType ==
  ASSUME TypeOK
  PROVE  /\ pendingResponses \in Seq(BackMessage) /\ inbound \in Seq(BackMessage)
         /\ Stream \in Seq(BackMessage)
         /\ srv.req \in Nat /\ srv.part \in Nat /\ handled \in Nat /\ asyncs \in Nat
<1>1. pendingResponses \in Seq(BackMessage) /\ inbound \in Seq(BackMessage)
  BY DEF TypeOK, TaskTypeOK, WireTypeOK
<1>2. srv.req \in Nat /\ srv.part \in Nat /\ handled \in Nat /\ asyncs \in Nat
  BY BoundsAssumption DEF TypeOK, TaskTypeOK, ServerTypeOK
<1> QED
  BY <1>1, <1>2, ConcatProperties DEF Stream

LEMMA StreamTake ==
  ASSUME TypeOK, HasItem
  PROVE  /\ Stream # <<>> /\ Head(Stream) = Item
         /\ PendingRest \o InboundRest = Tail(Stream)
<1>1. /\ pendingResponses \in Seq(BackMessage) /\ inbound \in Seq(BackMessage)
  BY StreamType
<1>2. CASE FromPending
  <2>1. /\ pendingResponses # <<>> /\ Item = Head(pendingResponses)
        /\ PendingRest = Tail(pendingResponses) /\ InboundRest = inbound
    BY <1>2 DEF FromPending, Item, PendingRest, InboundRest
  <2> QED
    BY <1>1, <2>1 DEF Stream
<1>3. CASE ~FromPending
  <2>1. /\ pendingResponses = <<>> /\ inbound # <<>> /\ Item = Head(inbound)
        /\ PendingRest = pendingResponses /\ InboundRest = Tail(inbound)
    BY <1>3 DEF HasItem, FromPending, Item, PendingRest, InboundRest
  <2> QED
    BY <1>1, <2>1 DEF Stream
<1> QED
  BY <1>2, <1>3

\* A batch that has to wait keeps its place.
LEMMA StreamPark ==
  ASSUME TypeOK, ParkedAlone, HasItem, Item.type = "Normal"
  PROVE  Append(PendingRest, Item) \o InboundRest = Stream
<1>1. /\ pendingResponses \in Seq(BackMessage) /\ inbound \in Seq(BackMessage)
  BY StreamType
<1>2. CASE FromPending
  <2>1. /\ pendingResponses # <<>> /\ Item = pendingResponses[1]
        /\ PendingRest = Tail(pendingResponses) /\ InboundRest = inbound
    BY <1>1, <1>2, HeadTailProperties DEF FromPending, Item, PendingRest, InboundRest
  <2>2. Len(pendingResponses) = 1
    <3>1. 1 \in 1..Len(pendingResponses)
      BY <1>1, <2>1, EmptySeq, LenProperties
    <3> QED
      BY <2>1, <3>1 DEF ParkedAlone
  <2>3. Append(PendingRest, Item) = pendingResponses
    BY <1>1, <2>1, <2>2
  <2> QED
    BY <2>1, <2>3 DEF Stream
<1>3. CASE ~FromPending
  <2>1. /\ pendingResponses = <<>> /\ inbound # <<>> /\ Item = Head(inbound)
        /\ PendingRest = <<>> /\ InboundRest = Tail(inbound)
    BY <1>3 DEF HasItem, FromPending, Item, PendingRest, InboundRest
  <2> QED
    BY <1>1, <2>1 DEF Stream
<1> QED
  BY <1>2, <1>3

LEMMA StreamReply ==
  ASSUME TypeOK, NEW m \in BackMessage, Reply(m), UNCHANGED pendingResponses
  PROVE  Stream' = Append(Stream, m)
<1>1. /\ pendingResponses \in Seq(BackMessage) /\ inbound \in Seq(BackMessage)
  BY StreamType
<1> QED
  BY <1>1 DEF Stream, Reply

\* Parked, a batch is alone.
LEMMA ParkedAppend ==
  ASSUME TypeOK, ParkedAlone, HasItem, Item.type = "Normal",
         pendingResponses' = Append(PendingRest, Item)
  PROVE  ParkedAlone'
<1>1. /\ PendingRest \in Seq(BackMessage) /\ pendingResponses \in Seq(BackMessage)
  BY StreamType, ItemType DEF TypeOK
<1>2. PendingRest = <<>>
  <2>1. CASE FromPending
    <3>1. /\ pendingResponses # <<>> /\ Item = pendingResponses[1]
          /\ PendingRest = Tail(pendingResponses)
      BY <1>1, <2>1, HeadTailProperties DEF FromPending, Item, PendingRest
    <3>2. 1 \in 1..Len(pendingResponses)
      BY <1>1, <3>1, EmptySeq, LenProperties
    <3>3. Len(pendingResponses) = 1
      BY <3>1, <3>2 DEF ParkedAlone
    <3> QED
      BY <1>1, <3>1, <3>3
  <2>2. CASE ~FromPending
    BY <2>2 DEF FromPending, PendingRest
  <2> QED
    BY <2>1, <2>2
<1>3. Len(pendingResponses') = 1
  BY <1>2
<1> QED
  BY <1>3 DEF ParkedAlone

-----------------------------------------------------------------------------
(* Asynchronous messages in order                                          *)

\* The steps that leave the stream alone.
LEMMA OrderFrame ==
  ASSUME OrderInv, UNCHANGED <<pendingResponses, inbound, handled, asyncs>>,
         pc = "dropped" => pc' = "dropped"
  PROVE  OrderInv'
<1>1. Stream' = Stream
  BY DEF Stream
<1>2. ParkedAlone'
  BY ParkedFrame DEF OrderInv
<1> QED
  BY <1>1, <1>2 DEF OrderInv, AsyncChain

\* poll_read takes the next item, which is the next number if it is asynchronous.
LEMMA OrderTake ==
  ASSUME TypeOK, OrderInv, pc # "dropped", HasItem, TakeItem, UNCHANGED asyncs,
         handled' = IF Item.type = "Normal" THEN handled ELSE Item.part
  PROVE  OrderInv' /\ handled' \in {handled, handled + 1}
<1>1. /\ Stream \in Seq(BackMessage) /\ Stream # <<>> /\ Head(Stream) = Item
      /\ Stream' = Tail(Stream) /\ handled \in Nat /\ asyncs \in Nat
  BY StreamType, StreamTake DEF TakeItem, Stream
<1>2. AsyncChain(Stream, handled, asyncs)
  BY DEF OrderInv
<1>3. /\ Item.type # "Normal" => Item.part = handled + 1
      /\ AsyncChain(Tail(Stream), handled', asyncs)
  BY <1>1, <1>2, AsyncChainTail
<1>4. AsyncChain(Stream, handled, asyncs)'
  BY <1>1, <1>3 DEF AsyncChain
<1>5. ParkedAlone'
  BY ParkedRest DEF ParkedAlone, TakeItem, OrderInv
<1> QED
  BY <1>3, <1>4, <1>5 DEF OrderInv

LEMMA OrderPark ==
  ASSUME TypeOK, OrderInv, ReadBlocked
  PROVE  OrderInv'
<1>1. /\ HasItem /\ Item.type = "Normal" /\ inbound' = InboundRest /\ pc # "dropped"
      /\ pendingResponses' = Append(PendingRest, Item) /\ UNCHANGED <<handled, asyncs>>
  BY DEF ReadBlocked, Reading, Parked, serverVars
<1>2. Stream' = Stream
  BY <1>1, StreamPark DEF OrderInv, Stream
<1>3. ParkedAlone'
  BY <1>1, ParkedAppend DEF OrderInv
<1> QED
  BY <1>1, <1>2, <1>3 DEF OrderInv, AsyncChain

\* The server numbers its asynchronous messages, and a batch is not one.
LEMMA OrderReply ==
  ASSUME TypeOK, OrderInv, NEW m \in BackMessage, Reply(m),
         UNCHANGED <<pendingResponses, handled, pc>>, asyncs' \in Nat,
         IF m.type = "Normal" THEN asyncs' = asyncs
                              ELSE m.part = asyncs + 1 /\ asyncs' = asyncs + 1
  PROVE  OrderInv'
<1>1. /\ Stream \in Seq(BackMessage) /\ handled \in Nat /\ asyncs \in Nat
      /\ Stream' = Append(Stream, m)
  BY StreamType, StreamReply
<1>2. ParkedAlone'
  BY ParkedFrame DEF OrderInv
<1>3. ASSUME pc # "dropped"
      PROVE  AsyncChain(Stream', handled, asyncs')
  <2>1. AsyncChain(Stream, handled, asyncs)
    BY <1>3 DEF OrderInv
  <2>2. AsyncChain(Append(Stream, m), handled, IF m.type = "Normal" THEN asyncs ELSE m.part)
    BY <1>1, <2>1, AsyncChainAppend
  <2>3. (IF m.type = "Normal" THEN asyncs ELSE m.part) = asyncs'
    OBVIOUS
  <2> QED
    BY <1>1, <2>2, <2>3
<1>4. pc' # "dropped" => AsyncChain(Stream, handled, asyncs)'
  BY <1>3 DEF AsyncChain
<1> QED
  BY <1>2, <1>4 DEF OrderInv

LEMMA OrderServe ==
  ASSUME TypeOK, OrderInv, Serve \/ SrvAsync \/ SrvCrash
  PROVE  OrderInv' /\ handled' = handled
<1>1. UNCHANGED <<pendingResponses, handled, pc>>
  BY DEF Serve, SrvTake, SrvChunk, SrvReady, SrvCopyStart, SrvCopyData, SrvCopySkip,
     SrvCopyEnd, SrvStrayCopy, SrvTerminate, SrvAsync, SrvCrash, serverFrame, connVars
<1>2. srv.req \in Nat /\ srv.part \in Nat /\ asyncs \in Nat
  BY StreamType
<1>3. CASE SrvTake \/ SrvCopySkip \/ SrvTerminate \/ SrvCrash
  BY <1>1, <1>3, OrderFrame DEF SrvTake, SrvCopySkip, SrvTerminate, SrvCrash
<1>4. CASE SrvAsync
  <2>1. PICK t \in {"Notice", "Parameter"} : Reply(Async(t, srv.req, asyncs'))
    BY <1>4 DEF SrvAsync
  <2>2. asyncs' = asyncs + 1 /\ asyncs' \in Nat
    BY <1>2, <1>4 DEF SrvAsync
  <2>3. /\ Async(t, srv.req, asyncs') \in BackMessage
        /\ Async(t, srv.req, asyncs').type # "Normal"
        /\ Async(t, srv.req, asyncs').part = asyncs'
    BY <1>2, <2>2, AsyncType DEF Async
  <2> QED
    BY <1>1, <2>1, <2>2, <2>3, OrderReply
<1>5. ASSUME NEW r \in Nat, NEW n \in Nat, NEW last \in BOOLEAN, Reply(Chunk(r, n, last)),
             UNCHANGED asyncs
      PROVE  OrderInv'
  BY <1>1, <1>2, <1>5, ChunkType, OrderReply
<1>6. CASE SrvChunk \/ SrvReady \/ SrvCopyEnd
  BY <1>1, <1>2, <1>5, <1>6 DEF SrvChunk, SrvReady, SrvCopyEnd
<1>7. CASE SrvCopyStart \/ SrvCopyData \/ SrvStrayCopy
  <2>1. toServer # <<>>
    BY <1>7 DEF SrvCopyStart, SrvCopyData, SrvStrayCopy, Arrives
  <2>2. Head(toServer).req \in Nat
    BY <2>1, ConsumeType DEF TypeOK
  <2>3. CASE UNCHANGED inbound /\ UNCHANGED asyncs
    BY <1>1, <2>3, OrderFrame
  <2> QED
    BY <1>1, <1>2, <1>5, <1>7, <2>2, <2>3 DEF SrvCopyStart, SrvCopyData, SrvStrayCopy
<1> QED
  BY <1>1, <1>3, <1>4, <1>6, <1>7 DEF Serve

LEMMA OrderStep ==
  ASSUME TypeOK, OrderInv, [Next]_vars
  PROVE  OrderInv' /\ handled' \in {handled, handled + 1}
<1>1. CASE UNCHANGED vars \/ Terminated
  BY <1>1, OrderFrame DEF Terminated, vars, connVars, wireVars, serverVars
<1>2. CASE Wake \/ Read
  <2>1. CASE ReadNotice \/ ReadParameter \/ ReadResponse \/ ReadUnexpected
    <3>1. /\ HasItem /\ TakeItem /\ pc # "dropped" /\ UNCHANGED asyncs
          /\ handled' = IF Item.type = "Normal" THEN handled ELSE Item.part
      BY <2>1 DEF ReadNotice, ReadParameter, ReadResponse, ReadUnexpected, Reading, serverVars
    <3> QED
      BY <3>1, OrderTake
  <2>2. CASE ReadBlocked
    BY <2>2, OrderPark DEF ReadBlocked
  <2>3. CASE Wake \/ ReadPending \/ ReadEof \/ ReadDone
    BY <2>3, OrderFrame DEF Wake, ReadPending, ReadEof, ReadDone, Resolve, Reading,
       wireVars, serverVars
  <2> QED
    BY <1>2, <2>1, <2>2, <2>3 DEF Read
<1>3. CASE Write
  <2>1. UNCHANGED <<pendingResponses, inbound, handled, asyncs>> /\ pc # "dropped"
    BY <1>3 DEF Write, WriteBackpressure, WriteSingle, WriteBeginCopy, WriteCopy,
       WriteCopyFinished, WriteCopyPending, WritePending, WriteTerminate, WriteEof, WriteDone,
       Flush, Shutdown, WriteError, Drain, Writable, Writing, wireVars, serverVars
  <2> QED
    BY <2>1, OrderFrame
<1>4. CASE DropConnection
  BY <1>4, EmptySeq DEF DropConnection, OrderInv, ParkedAlone
<1>5. CASE Client
  <2>1. UNCHANGED <<pendingResponses, inbound, handled, asyncs, pc>>
    BY <1>5 DEF Client, Send, Recv, RecvClosed, DropResponses, CopyStart, CopyData, CopyFinish,
       CopyClosed, CloseClient, connVars, wireVars, serverVars
  <2> QED
    BY <2>1, OrderFrame
<1>6. CASE Serve \/ SrvAsync \/ SrvCrash
  BY <1>6, OrderServe
<1> QED
  BY <1>1, <1>2, <1>3, <1>4, <1>5, <1>6 DEF Next, Poll

\* Notices and parameter changes are acted on in the order the server sent them, those
\* delayed by the handshake first, and none is skipped (connection.rs, poll_response and
\* poll_read), also by a task that has parked a batch, and whatever the server refuses.
THEOREM OrderCorrect == Spec => AsyncInOrder
<1>1. Init => OrderInv
  <2>1. SUFFICES ASSUME Init PROVE OrderInv
    OBVIOUS
  <2>2. /\ asyncs \in Nat /\ handled = 0 /\ inbound = <<>> /\ pc = "read"
        /\ pendingResponses = [i \in 1..asyncs |-> Async("Notice", 1, i)]
        /\ pendingResponses \in Seq(BackMessage)
    BY <2>1, TypeInit, StreamType DEF Init
  <2>3. /\ Stream = pendingResponses /\ Len(pendingResponses) = asyncs
    BY <2>2, LenProperties, ConcatEmptySeq DEF Stream
  <2>4. \A i \in 1..asyncs : pendingResponses[i].type = "Notice" /\ pendingResponses[i].part = i
    BY <2>2 DEF Async
  <2> DEFINE p == [i \in 0..asyncs |-> i]
  <2>5. /\ p \in [0..asyncs -> Nat] /\ p[0] = 0 /\ p[asyncs] = asyncs
        /\ \A i \in 1..asyncs : p[i] = i /\ p[i - 1] = i - 1 /\ i = p[i - 1] + 1
    BY <2>2
  <2> HIDE DEF p
  <2>6. \A i \in 1..Len(Stream) :
          IF Stream[i].type = "Normal" THEN p[i] = p[i - 1]
                                       ELSE Stream[i].part = p[i - 1] + 1 /\ p[i] = Stream[i].part
    BY <2>3, <2>4, <2>5
  <2>7. p \in [0..Len(Stream) -> Nat] /\ p[0] = handled /\ p[Len(Stream)] = asyncs
    BY <2>2, <2>3, <2>5
  <2>8. AsyncChain(Stream, handled, asyncs)
    BY <2>6, <2>7 DEF AsyncChain
  <2> QED
    BY <2>3, <2>4, <2>8 DEF OrderInv, ParkedAlone
<1>2. TypeOK /\ OrderInv /\ [Next]_vars => OrderInv'
  BY OrderStep
<1>3. TypeOK /\ OrderInv /\ [Next]_vars => [handled' \in {handled, handled + 1}]_vars
  BY OrderStep
<1> QED
  BY <1>1, <1>2, <1>3, TypeCorrect, PTL DEF Spec, AsyncInOrder

-----------------------------------------------------------------------------
(* A caller is told that the connection is closed only when it is, also    *)
(* with a server that refuses a COPY.                                      *)

Queued(r) == InSeq(r, sendq) \/ InSeq(r, responses)

\* The sender of a response channel is dropped only behind the last batch.
Ended(c) == c # <<>> /\ c[Len(c)].complete
Tracked ==
  pc # "dropped" => \A r \in Req : rcv[r] = "open" => Queued(r) \/ Ended(chan[r])

ClosedInv == Tracked /\ ClosedMeansResolved

LEMMA InAppend ==
  ASSUME NEW S, NEW s \in Seq(S), NEW x \in S
  PROVE  /\ InSeq(x, Append(s, x))
         /\ \A y : InSeq(y, s) => InSeq(y, Append(s, x))
<1>1. /\ Len(s) \in Nat /\ Len(Append(s, x)) = Len(s) + 1
      /\ \A i \in 1..Len(s) : Append(s, x)[i] = s[i]
      /\ Append(s, x)[Len(s) + 1] = x
  BY AppendProperties, LenProperties
<1> QED
  BY <1>1 DEF InSeq

\* What is in a queue is its head or behind it.
LEMMA InTail ==
  ASSUME NEW S, NEW s \in Seq(S), s # <<>>, NEW y, InSeq(y, s)
  PROVE  y = Head(s) \/ InSeq(y, Tail(s))
<1>1. /\ Len(s) \in Nat /\ Len(Tail(s)) = Len(s) - 1 /\ Head(s) = s[1]
      /\ \A i \in 1..Len(Tail(s)) : Tail(s)[i] = s[i + 1]
  BY HeadTailProperties, LenProperties, EmptySeq
<1>2. PICK i \in 1..Len(s) : s[i] = y
  BY DEF InSeq
<1>3. CASE i = 1
  BY <1>1, <1>2, <1>3
<1>4. CASE i # 1
  <2>1. i - 1 \in 1..Len(Tail(s)) /\ Tail(s)[i - 1] = y
    BY <1>1, <1>2, <1>4
  <2> QED
    BY <2>1 DEF InSeq
<1> QED
  BY <1>3, <1>4

\* A channel that has its last batch keeps it until that is taken.
LEMMA EndedTail ==
  ASSUME NEW c \in Seq(BackMessage), Ended(c), ~Head(c).complete
  PROVE  Ended(Tail(c))
<1>1. /\ Len(c) \in Nat /\ Len(c) >= 1 /\ Len(Tail(c)) = Len(c) - 1 /\ Head(c) = c[1]
      /\ \A i \in 1..Len(Tail(c)) : Tail(c)[i] = c[i + 1]
      /\ c[Len(c)].complete
  BY HeadTailProperties, LenProperties, EmptySeq DEF Ended
<1>2. Len(c) # 1
  BY <1>1
<1>3. Len(Tail(c)) \in 1..Len(Tail(c)) /\ Tail(c)[Len(Tail(c))] = c[Len(c)]
  BY <1>1, <1>2
<1>4. Tail(c) # <<>>
  <2>1. SUFFICES ASSUME Tail(c) = <<>> PROVE FALSE
    OBVIOUS
  <2>2. Len(Tail(c)) = 0
    BY <2>1, EmptySeq
  <2> QED
    BY <1>1, <1>2, <2>2
<1> QED
  BY <1>1, <1>3, <1>4 DEF Ended

\* Most steps touch neither a channel nor a queue, nor free the task.
LEMMA ClosedFrame ==
  ASSUME ClosedInv, UNCHANGED <<rcv, chan, sendq, responses>>,
         pc' # "dropped" => pc # "dropped", pc = "dropped" => pc' = "dropped"
  PROVE  ClosedInv'
BY DEF ClosedInv, Tracked, ClosedMeansResolved, Queued, Ended, InSeq

\* A batch goes to the head of the queue, which leaves it with its last.
LEMMA ResponseClosed ==
  ASSUME TypeOK, ClosedInv, ReadResponse
  PROVE  ClosedInv'
<1> DEFINE h == Head(responses)
<1>1. /\ responses \in Seq(Req) /\ responses # <<>> /\ chan \in [Req -> Seq(BackMessage)]
      /\ pc = "read" /\ pc' = pc /\ UNCHANGED <<rcv, sendq>>
  BY DEF ReadResponse, Reading, clientVars, TypeOK, TaskTypeOK, QueueTypeOK
<1>2. h \in Req /\ Item \in BackMessage
  <2>1. h \in Req
    BY <1>1, HeadTailProperties
  <2>2. Item \in BackMessage
    BY ItemType DEF ReadResponse, TypeOK
  <2> QED
    BY <2>1, <2>2
<1>3. ASSUME NEW r \in Req, rcv[r] = "open"
      PROVE  Queued(r)' \/ Ended(chan'[r])
  <2>1. Queued(r) \/ Ended(chan[r])
    BY <1>1, <1>3 DEF ClosedInv, Tracked
  <2>2. CASE r = h
    <3>1. CASE Item.complete
      <4>1. chan'[r] = Append(chan[r], Item) /\ chan[r] \in Seq(BackMessage)
        BY <1>1, <1>2, <1>3, <2>2 DEF ReadResponse
      <4>2. /\ chan'[r] # <<>> /\ chan'[r][Len(chan'[r])] = Item
        BY <1>2, <4>1, AppendProperties, LenProperties
      <4> QED
        BY <3>1, <4>2 DEF Ended
    <3>2. CASE ~Item.complete
      <4>1. responses' = responses
        BY <3>2 DEF ReadResponse, ResponsesAfter
      <4>2. 1 \in 1..Len(responses) /\ responses[1] = h
        BY <1>1, HeadTailProperties, LenProperties, EmptySeq
      <4> QED
        BY <2>2, <4>1, <4>2 DEF Queued, InSeq
    <3> QED
      BY <3>1, <3>2
  <2>3. CASE r # h
    <3>1. chan'[r] = chan[r]
      BY <1>1, <2>3 DEF ReadResponse
    <3>2. InSeq(r, responses) => InSeq(r, responses')
      BY <1>1, <2>3, InTail DEF ReadResponse, ResponsesAfter
    <3>3. InSeq(r, sendq) => InSeq(r, sendq')
      BY <1>1
    <3> QED
      BY <2>1, <3>1, <3>2, <3>3 DEF Queued
  <2> QED
    BY <2>2, <2>3
<1> QED
  BY <1>1, <1>3 DEF ClosedInv, Tracked, ClosedMeansResolved

\* A request goes from one queue to the other.
LEMMA AcceptClosed ==
  ASSUME TypeOK, ClosedInv, WriteSingle \/ WriteBeginCopy
  PROVE  ClosedInv'
<1>1. /\ sendq \in Seq(Req) /\ responses \in Seq(Req) /\ sendq # <<>> /\ Head(sendq) \in Req
      /\ sendq' = Tail(sendq) /\ responses' = Append(responses, Head(sendq))
      /\ UNCHANGED <<rcv, chan, pc>>
  BY HeadTailProperties DEF WriteSingle, WriteBeginCopy, NewRequest, clientVars, TypeOK,
     TaskTypeOK, QueueTypeOK
<1>2. ASSUME NEW r \in Req, Queued(r)
      PROVE  Queued(r)'
  BY <1>1, <1>2, InTail, InAppend DEF Queued
<1> QED
  BY <1>1, <1>2 DEF ClosedInv, Tracked, ClosedMeansResolved, Ended

\* The owner of a channel takes a batch, or leaves.
LEMMA CallerClosed ==
  ASSUME TypeOK, ClosedInv, NEW r \in Req,
         Recv(r) \/ RecvClosed(r) \/ DropResponses(r) \/ CopyClosed(r)
  PROVE  ClosedInv'
<1>1. /\ UNCHANGED <<sendq, responses, pc>>
      /\ rcv \in [Req -> {"unsent", "open", "finished", "closed", "dropped"}]
      /\ chan \in [Req -> Seq(BackMessage)]
  BY DEF Recv, RecvClosed, DropResponses, CopyClosed, connVars, TypeOK, ClientTypeOK, QueueTypeOK
<1>2. CASE Leave(r, "finished") \/ Leave(r, "dropped")
  <2>1. /\ rcv'[r] \in {"finished", "dropped"}
        /\ \A q \in Req : q # r => rcv'[q] = rcv[q] /\ chan'[q] = chan[q]
    BY <1>1, <1>2 DEF Leave
  <2> QED
    BY <1>1, <2>1 DEF ClosedInv, Tracked, ClosedMeansResolved, Queued, Ended, InSeq
<1>3. CASE Leave(r, "closed") /\ (RecvClosed(r) \/ CopyClosed(r))
  <2>1. pc = "dropped"
    <3>1. RecvClosed(r) => rcv[r] = "open" /\ ~Queued(r) /\ ~Ended(chan[r])
      BY DEF RecvClosed, Queued, Ended
    <3> QED
      BY <1>3, <3>1 DEF CopyClosed, ClosedInv, Tracked
  <2> QED
    BY <1>1, <2>1 DEF ClosedInv, Tracked, ClosedMeansResolved
<1>4. CASE /\ Recv(r) /\ ~Head(chan[r]).complete /\ UNCHANGED rcv
           /\ chan' = [chan EXCEPT ![r] = Tail(@)]
  <2>1. ASSUME NEW q \in Req, Ended(chan[q])
        PROVE  Ended(chan'[q])
    BY <1>1, <1>4, <2>1, EndedTail
  <2> QED
    BY <1>1, <1>4, <2>1 DEF ClosedInv, Tracked, ClosedMeansResolved, Queued, InSeq
<1> QED
  BY <1>2, <1>3, <1>4 DEF Recv, RecvClosed, DropResponses, CopyClosed

LEMMA SendClosed ==
  ASSUME TypeOK, ClosedInv, NEW copy, Send(copy)
  PROVE  ClosedInv'
<1>1. /\ UNCHANGED <<responses, pc, chan>> /\ sendq' = Append(sendq, sent + 1)
      /\ rcv' = [rcv EXCEPT ![sent + 1] = "open"] /\ sent + 1 \in Req
      /\ rcv \in [Req -> {"unsent", "open", "finished", "closed", "dropped"}]
      /\ sendq \in Seq(Req)
  BY BoundsAssumption DEF Send, connVars, TypeOK, ClientTypeOK, QueueTypeOK, Req
<1>2. InSeq(sent + 1, sendq') /\ \A q : InSeq(q, sendq) => InSeq(q, sendq')
  BY <1>1, InAppend
<1> QED
  BY <1>1, <1>2 DEF ClosedInv, Tracked, ClosedMeansResolved, Queued

LEMMA ClosedStep ==
  ASSUME TypeOK, ClosedInv, [Next]_vars
  PROVE  ClosedInv'
<1>1. CASE UNCHANGED vars \/ Terminated
  BY <1>1, ClosedFrame DEF Terminated, vars, clientVars, connVars
<1>2. CASE Wake \/ Read
  <2>1. CASE ReadResponse
    BY <2>1, ResponseClosed
  <2>2. CASE Wake \/ ReadNotice \/ ReadParameter \/ ReadBlocked \/ ReadUnexpected
               \/ ReadPending \/ ReadEof \/ ReadDone
    BY <2>2, ClosedFrame DEF Wake, ReadNotice, ReadParameter, ReadBlocked, ReadUnexpected,
       ReadPending, ReadEof, ReadDone, Resolve, Reading, clientVars
  <2> QED
    BY <1>2, <2>1, <2>2 DEF Read
<1>3. CASE Write
  <2>1. CASE WriteSingle \/ WriteBeginCopy
    BY <2>1, AcceptClosed
  <2>2. CASE WriteBackpressure \/ WriteCopy \/ WriteCopyFinished \/ WriteCopyPending
               \/ WritePending \/ WriteTerminate
    BY <2>2, ClosedFrame DEF WriteBackpressure, WriteCopy, WriteCopyFinished, WriteCopyPending,
       WritePending, WriteTerminate, Writable, Writing, Return, AfterWrite, clientVars
  <2>3. CASE WriteEof \/ WriteDone \/ Flush \/ Shutdown \/ WriteError
    BY <2>3, ClosedFrame DEF WriteEof, WriteDone, Flush, Shutdown, WriteError,
       Writable, Writing, Return, Resolve, AfterWrite, clientVars
  <2> QED
    BY <1>3, <2>1, <2>2, <2>3 DEF Write
<1>4. CASE DropConnection
  BY <1>4 DEF DropConnection, ClosedInv, Tracked, ClosedMeansResolved
<1>5. CASE Client
  <2>1. CASE \E copy \in BOOLEAN : Send(copy)
    BY <2>1, SendClosed
  <2>2. ASSUME NEW r \in Req, Recv(r) \/ RecvClosed(r) \/ DropResponses(r) \/ CopyClosed(r)
        PROVE  ClosedInv'
    BY <2>2, CallerClosed
  <2>3. ASSUME NEW r \in Req, CopyStart(r) \/ CopyData(r) \/ CopyFinish(r)
        PROVE  ClosedInv'
    BY <2>3, ClosedFrame DEF CopyStart, CopyData, CopyFinish, connVars
  <2>4. CASE CloseClient
    BY <2>4, ClosedFrame DEF CloseClient, connVars
  <2> QED
    BY <1>5, <2>1, <2>2, <2>3, <2>4 DEF Client
<1>6. CASE Serve \/ SrvAsync \/ SrvCrash
  <2>1. UNCHANGED serverFrame
    BY <1>6 DEF Serve, SrvTake, SrvChunk, SrvReady, SrvCopyStart, SrvCopyData, SrvCopySkip,
       SrvCopyEnd, SrvStrayCopy, SrvTerminate, SrvAsync, SrvCrash
  <2> QED
    BY <2>1, ClosedFrame DEF serverFrame, clientVars, connVars
<1> QED
  BY <1>1, <1>2, <1>3, <1>4, <1>5, <1>6 DEF Next, Poll

\* Error::closed means that the task is over and freed: no response channel is ever lost
\* while its caller waits for the rest of its response (connection.rs, poll_read;
\* client.rs, Responses::poll_next).
THEOREM ClosedCorrect == Spec => []ClosedMeansResolved
<1>1. Init => ClosedInv
  BY DEF Init, ClosedInv, Tracked, ClosedMeansResolved
<1>2. ClosedInv /\ TypeOK /\ [Next]_vars => ClosedInv'
  BY ClosedStep
<1>3. ClosedInv => ClosedMeansResolved
  BY DEF ClosedInv
<1> QED
  BY <1>1, <1>2, <1>3, TypeCorrect, PTL DEF Spec

-----------------------------------------------------------------------------
(* Responses without a gap                                                 *)

\* The steps that hand nothing to a caller and take nothing from one.
LEMMA CallersFrame ==
  ASSUME PromiseInv, UNCHANGED <<sent, rcv, got, sink, chan>>
  PROVE  GapFree' /\ Delivered' /\ Awaited'
BY DEF PromiseInv, GapFree, Delivered, Awaited

\* The steps that leave the stream as it was.
LEMMA StillSequence ==
  ASSUME InSequence, Stream' = Stream,
         UNCHANGED <<sent, sendq, responses, rcv, got, chan, srv>>
  PROVE  InSequence'
<1>1. PICK n \in Nat :
        /\ PartChain(Stream, n, srv.part)
        /\ responses = <<>> => n = 1
        /\ responses # <<>> /\ rcv[Head(responses)] = "open" => n = NextPart(Head(responses))
  BY DEF InSequence
<1>2. PartChain(Stream, n, srv.part)'
  BY <1>1 DEF PartChain
<1>3. NextPart(Head(responses))' = NextPart(Head(responses))
  BY DEF NextPart
<1>4. Accepted' = Accepted /\ Oldest' = Oldest
  BY DEF Accepted, Oldest
<1> QED
  BY <1>1, <1>2, <1>3, <1>4 DEF InSequence

LEMMA SequenceFrame ==
  ASSUME InSequence,
         UNCHANGED <<sent, sendq, responses, pendingResponses, inbound, rcv, got, chan, srv>>
  PROVE  InSequence'
<1>1. Stream' = Stream
  BY DEF Stream
<1> QED
  BY <1>1, StillSequence

\* A task that reads is in sequence, and what it reads is for the request at the head.
LEMMA ReadingInSequence ==
  ASSUME PromiseInv, Reading
  PROVE  Live /\ InStep /\ InSequence
BY DEF PromiseInv, IndInv, Reading, Live

\* The batch that is read is the one its caller has not been handed yet.
LEMMA NextBatch ==
  ASSUME PromiseInv, ReadResponse
  PROVE  /\ Head(responses) \in Req /\ Head(responses) = Oldest /\ Oldest <= Accepted
         /\ Item \in BackMessage /\ Item.req = Head(responses)
         /\ rcv[Head(responses)] = "open" => Item.part = NextPart(Head(responses))
         /\ \A i \in 1..Len(chan[Head(responses)]) : ~chan[Head(responses)][i].complete
<1> DEFINE h == Head(responses)
<1>1. /\ Reading /\ HasItem /\ Item.type = "Normal" /\ responses # <<>>
  BY DEF ReadResponse
<1>2. /\ TypeOK /\ Live /\ InStep /\ InSequence
  BY <1>1, ReadingInSequence DEF PromiseInv, IndInv
<1>3. /\ h \in Req /\ h = Oldest /\ Len(responses) \in Nat /\ Len(responses) # 0
  <2>1. responses \in Seq(Req)
    BY <1>2 DEF TypeOK, TaskTypeOK
  <2> QED
    BY <1>1, <1>2, <2>1, HeadIsOldest, HeadTailProperties, EmptySeq, LenProperties DEF InStep
<1>4. Oldest <= Accepted
  BY <1>2, <1>3, Positions DEF Oldest
<1>5. Item \in BackMessage /\ Item.req = Oldest
  <2>1. Item \in BackMessage
    BY <1>1, <1>2, ItemType DEF TypeOK
  <2>2. Item.req = Oldest
    BY <1>1, <1>2, ItemChained DEF InStep
  <2> QED
    BY <2>1, <2>2
<1>6. ASSUME rcv[h] = "open"
      PROVE  Item.part = NextPart(h)
  <2>1. PICK n \in Nat : PartChain(Stream, n, srv.part) /\ n = NextPart(h)
    BY <1>1, <1>2, <1>6 DEF InSequence
  <2> QED
    BY <1>1, <1>2, <2>1, StreamType, StreamTake, PartChainTail
<1>7. \A i \in 1..Len(chan[h]) : ~chan[h][i].complete
  BY <1>2, <1>3 DEF InSequence, Req
<1> QED
  BY <1>3, <1>4, <1>5, <1>6, <1>7

LEMMA ReadResponseCallers ==
  ASSUME PromiseInv, ReadResponse
  PROVE  GapFree' /\ Delivered' /\ Awaited'
<1> DEFINE h == Head(responses)
<1>1. /\ GapFree /\ Delivered /\ Awaited /\ TypeOK
      /\ chan \in [Req -> Seq(BackMessage)] /\ got \in [Req -> Nat]
      /\ UNCHANGED <<sent, rcv, got, sink>> /\ Item.type = "Normal"
  BY DEF PromiseInv, IndInv, TypeOK, QueueTypeOK, ClientTypeOK, ReadResponse, clientVars
<1>2. Awaited'
  BY <1>1 DEF Awaited
<1>3. CASE rcv[h] # "open"
  BY <1>1, <1>2, <1>3 DEF ReadResponse, GapFree, Delivered
<1>4. CASE rcv[h] = "open"
  <2> DEFINE c == Append(chan[h], Item)
  <2>1. /\ h \in Req /\ Item \in BackMessage /\ Item.part = got[h] + Len(chan[h]) + 1
        /\ \A i \in 1..Len(chan[h]) : ~chan[h][i].complete
    BY <1>4, NextBatch DEF NextPart
  <2>2. chan' = [chan EXCEPT ![h] = c]
    BY <1>4 DEF ReadResponse
  <2>3. /\ Len(chan[h]) \in Nat /\ Len(c) = Len(chan[h]) + 1
        /\ \A i \in 1..Len(chan[h]) : c[i] = chan[h][i]
        /\ c[Len(chan[h]) + 1] = Item
    BY <1>1, <2>1, AppendProperties, LenProperties
  <2> HIDE DEF c
  <2>4. ASSUME NEW i \in 1..Len(c)
        PROVE  /\ c[i].part = got[h] + i /\ c[i].type = "Normal"
               /\ c[i].complete => i = Len(c)
    <3>1. CASE i = Len(c)
      BY <1>1, <2>1, <2>3, <3>1
    <3>2. CASE i # Len(c)
      <4>1. i \in 1..Len(chan[h])
        BY <2>3, <3>2
      <4> QED
        BY <1>1, <2>1, <2>3, <4>1 DEF GapFree, Delivered
    <3> QED
      BY <3>1, <3>2
  <2>5. \A r \in Req : chan'[r] = IF r = h THEN c ELSE chan[r]
    BY <1>1, <2>1, <2>2
  <2>6. GapFree'
    BY <1>1, <2>4, <2>5 DEF GapFree
  <2>7. Delivered'
    <3>1. ASSUME NEW r \in Req, NEW i \in 1..Len(chan'[r])
          PROVE  chan'[r][i].type = "Normal" /\ (chan'[r][i].complete => i = Len(chan'[r]))
      <4>1. CASE r = h
        BY <2>4, <2>5, <3>1, <4>1
      <4>2. CASE r # h
        BY <1>1, <2>5, <3>1, <4>2 DEF Delivered
      <4> QED
        BY <4>1, <4>2
    <3> QED
      BY <3>1 DEF Delivered
  <2> QED
    BY <1>2, <2>6, <2>7
<1> QED
  BY <1>3, <1>4

LEMMA ReadResponseSequence ==
  ASSUME PromiseInv, ReadResponse
  PROVE  InSequence'
<1> DEFINE h == Head(responses)
<1>1. /\ Reading /\ HasItem /\ Item.type = "Normal" /\ responses # <<>> /\ TakeItem
      /\ UNCHANGED <<sent, sendq, rcv, got, srv>>
      /\ responses' = IF Item.complete THEN Tail(responses) ELSE responses
  BY DEF ReadResponse, clientVars, serverVars, ResponsesAfter
<1>2. /\ TypeOK /\ TypeOK' /\ InStep /\ InSequence
      /\ chan \in [Req -> Seq(BackMessage)] /\ got \in [Req -> Nat]
      /\ responses \in Seq(Req)
  <2>1. ReadResponse => [Next]_vars
    BY DEF Next, Poll, Read
  <2>2. TypeOK /\ TypeOK'
    BY <2>1, TypeStep DEF PromiseInv, IndInv
  <2> QED
    BY <1>1, <2>2, ReadingInSequence DEF TypeOK, QueueTypeOK, ClientTypeOK, TaskTypeOK
<1>3. /\ h \in Req /\ h = Oldest /\ Oldest <= Accepted /\ Item \in BackMessage
      /\ rcv[h] = "open" => Item.part = NextPart(h)
      /\ \A i \in 1..Len(chan[h]) : ~chan[h][i].complete
      /\ Oldest \in Int /\ Accepted \in Int
  BY <1>2, NextBatch, Positions
<1>4. /\ \A r \in Req : r # h => chan'[r] = chan[r]
      /\ rcv[h] = "open" => chan'[h] = Append(chan[h], Item)
      /\ rcv[h] # "open" => chan'[h] = chan[h]
  BY <1>2, <1>3 DEF ReadResponse
<1>5. /\ Accepted' = Accepted
      /\ Item.complete => Oldest' = Oldest + 1
      /\ ~Item.complete => Oldest' = Oldest
  <2>1. /\ Item.complete => Len(responses') = Len(responses) - 1
        /\ ~Item.complete => Len(responses') = Len(responses)
        /\ Len(responses) \in Nat
    BY <1>1, <1>2, HeadTailProperties, LenProperties
  <2>2. /\ Accepted' = Accepted
        /\ Oldest = Accepted - Len(responses) + 1
        /\ Oldest' = Accepted' - Len(responses') + 1
    BY <1>1 DEF Oldest, Accepted
  <2> QED
    BY <1>3, <2>1, <2>2
<1>n. PICK n \in Nat : n = PartTo(Item)
  BY <1>3 DEF PartTo, BackMessage
<1>6. PartChain(Stream', n, srv.part)
  <2>1. PICK k \in Nat : PartChain(Stream, k, srv.part)
    BY <1>2 DEF InSequence
  <2>2. PartChain(Tail(Stream), n, srv.part)
    BY <1>1, <1>2, <1>n, <2>1, StreamType, StreamTake, PartChainTail
  <2>3. Stream' = Tail(Stream)
    BY <1>1, <1>2, StreamTake DEF TakeItem, Stream
  <2> QED
    BY <2>2, <2>3
<1>7. \A r \in Req : r > Accepted' \/ r > Oldest' => got'[r] = 0 /\ chan'[r] = <<>>
  <2>1. ASSUME NEW r \in Req, r > Accepted' \/ r > Oldest'
        PROVE  r # h /\ got[r] = 0 /\ chan[r] = <<>>
    BY <1>2, <1>3, <1>5, <2>1 DEF InSequence, Req
  <2> QED
    BY <1>1, <1>4, <2>1
<1>8. ASSUME NEW r \in Req, r >= Oldest'
      PROVE  \A i \in 1..Len(chan'[r]) : ~chan'[r][i].complete
  <2>1. CASE r = h
    <3>1. ~Item.complete
      BY <1>3, <1>5, <1>8, <2>1
    <3>2. CASE rcv[h] = "open"
      <4>1. /\ Len(chan[h]) \in Nat /\ Len(chan'[h]) = Len(chan[h]) + 1
            /\ \A i \in 1..Len(chan[h]) : chan'[h][i] = chan[h][i]
            /\ chan'[h][Len(chan[h]) + 1] = Item
        <5>1. /\ chan'[h] = Append(chan[h], Item) /\ chan[h] \in Seq(BackMessage)
              /\ Item \in BackMessage
          BY <1>2, <1>3, <1>4, <3>2
        <5> QED
          BY <5>1, AppendProperties, LenProperties
      <4>2. \A i \in 1..Len(chan'[h]) : i = Len(chan[h]) + 1 \/ i \in 1..Len(chan[h])
        BY <4>1
      <4> QED
        BY <1>3, <2>1, <3>1, <4>1, <4>2
    <3> QED
      BY <1>3, <1>4, <2>1, <3>2
  <2>2. CASE r # h
    BY <1>2, <1>3, <1>4, <1>5, <1>8, <2>2 DEF InSequence, Req
  <2> QED
    BY <2>1, <2>2
<1>9. responses' = <<>> => n = 1
  BY <1>1, <1>n DEF PartTo
<1>10. ASSUME responses' # <<>>, rcv[Head(responses')] = "open"
       PROVE  n = NextPart(Head(responses))'
  <2>1. CASE Item.complete
    <3>1. n = 1
      BY <1>n, <2>1 DEF PartTo
    <3>2. Numbered'
      BY <1>1, <1>2, ReadResponseInStep DEF PromiseInv, IndInv, InStep
    <3>3. responses' \in Seq(Req) /\ responses' # <<>>
      BY <1>2, <1>10 DEF TypeOK, TaskTypeOK
    <3>4. Len(responses') \in Nat /\ 1 \in 1..Len(responses') /\ Head(responses') = responses'[1]
      BY <3>3, EmptySeq, LenProperties, HeadTailProperties
    <3>5. Head(responses') \in Req /\ Head(responses') = Accepted' - Len(responses') + 1
      BY <1>3, <1>5, <3>2, <3>3, <3>4, HeadTailProperties DEF Numbered
    <3>6. Head(responses') > Oldest
      <4>1. Oldest' = Accepted' - Len(responses') + 1
        BY DEF Oldest
      <4> QED
        BY <1>3, <1>5, <2>1, <3>4, <3>5, <4>1
    <3>7. got'[Head(responses')] = 0 /\ chan'[Head(responses')] = <<>>
      <4>1. PICK k \in Req : k = Head(responses')
        BY <3>5
      <4>2. k > Oldest /\ k # h
        BY <1>3, <3>6, <4>1 DEF Req
      <4>3. got[k] = 0 /\ chan[k] = <<>>
        BY <1>2, <4>2 DEF InSequence
      <4> QED
        BY <1>1, <1>4, <4>1, <4>2, <4>3
    <3> QED
      BY <3>1, <3>7, EmptySeq DEF NextPart
  <2>2. CASE ~Item.complete
    <3>1. responses' = responses /\ n = Item.part + 1
      BY <1>1, <1>n, <2>2 DEF PartTo
    <3>2. Len(chan'[h]) = Len(chan[h]) + 1 /\ Len(chan[h]) \in Nat /\ got[h] \in Nat
      BY <1>2, <1>3, <1>4, <1>10, <3>1, AppendProperties, LenProperties
    <3>3. Item.part = got[h] + Len(chan[h]) + 1
      BY <1>3, <1>10, <3>1 DEF NextPart
    <3>4. NextPart(Head(responses))' = got[h] + Len(chan'[h]) + 1
      BY <1>1, <3>1 DEF NextPart
    <3>5. n = got[h] + Len(chan'[h]) + 1
      BY <3>1, <3>2, <3>3
    <3> QED
      BY <3>4, <3>5
  <2> QED
    BY <2>1, <2>2
<1>11. srv.mode = "idle" => srv.part = 1
  BY <1>2 DEF InSequence
<1>12. PartChain(Stream, n, srv.part)'
  BY <1>1, <1>6 DEF PartChain
<1>13. \E k \in Nat :
         /\ PartChain(Stream, k, srv.part)'
         /\ responses' = <<>> => k = 1
         /\ responses' # <<>> /\ rcv'[Head(responses')] = "open"
              => k = NextPart(Head(responses))'
  BY <1>1, <1>6, <1>9, <1>10, <1>12
<1> QED
  BY <1>1, <1>7, <1>8, <1>11, <1>13 DEF InSequence

LEMMA ReadAsyncSequence ==
  ASSUME PromiseInv, ReadNotice \/ ReadParameter
  PROVE  InSequence'
<1>1. /\ Reading /\ HasItem /\ Item.type # "Normal" /\ TakeItem
      /\ UNCHANGED <<sent, sendq, responses, rcv, got, chan, srv>>
  BY DEF ReadNotice, ReadParameter, clientVars, serverVars
<1>2. TypeOK /\ InSequence
  BY <1>1, ReadingInSequence DEF PromiseInv, IndInv
<1>3. Stream' = Tail(Stream) /\ Stream # <<>> /\ Head(Stream) = Item
  BY <1>1, <1>2, StreamTake DEF TakeItem, Stream
<1>4. PICK n \in Nat :
        /\ PartChain(Stream, n, srv.part)
        /\ responses = <<>> => n = 1
        /\ responses # <<>> /\ rcv[Head(responses)] = "open" => n = NextPart(Head(responses))
  BY <1>2 DEF InSequence
<1>5. PartChain(Tail(Stream), n, srv.part)
  BY <1>1, <1>2, <1>3, <1>4, StreamType, PartChainTail
<1>6. PartChain(Stream, n, srv.part)'
  BY <1>1, <1>3, <1>5 DEF PartChain
<1>7. NextPart(Head(responses))' = NextPart(Head(responses))
  BY <1>1 DEF NextPart
<1>8. Accepted' = Accepted /\ Oldest' = Oldest
  BY <1>1 DEF Accepted, Oldest
<1> QED
  BY <1>1, <1>2, <1>4, <1>6, <1>7, <1>8 DEF InSequence

LEMMA ReadBlockedSequence ==
  ASSUME PromiseInv, ReadBlocked
  PROVE  InSequence'
<1>1. /\ Reading /\ HasItem /\ Item.type = "Normal" /\ inbound' = InboundRest
      /\ pendingResponses' = Append(PendingRest, Item)
      /\ UNCHANGED <<sent, sendq, responses, rcv, got, chan, srv>>
  BY DEF ReadBlocked, Parked, clientVars, serverVars
<1>2. TypeOK /\ ParkedAlone /\ InSequence
  BY <1>1, ReadingInSequence DEF PromiseInv, IndInv, InStep
<1>3. Stream' = Stream
  BY <1>1, <1>2, StreamPark DEF Stream
<1> QED
  BY <1>1, <1>2, <1>3, StillSequence

\* A request the task takes from the queue has been handed nothing yet.
LEMMA AcceptSequence ==
  ASSUME PromiseInv, Live, WriteSingle \/ WriteBeginCopy
  PROVE  InSequence'
<1>1. /\ NewRequest /\ sendq' = Tail(sendq) /\ responses' = Append(responses, Head(sendq))
      /\ UNCHANGED <<sent, rcv, got, chan, srv, pendingResponses, inbound>>
  BY DEF WriteSingle, WriteBeginCopy, clientVars, wireVars, serverVars
<1>2. /\ TypeOK /\ InStep /\ InSequence /\ responses \in Seq(Req)
  BY DEF PromiseInv, IndInv, TypeOK, TaskTypeOK
<1>3. /\ Head(sendq) \in Req /\ Head(sendq) = Accepted + 1
      /\ Accepted' = Accepted + 1 /\ Oldest' = Oldest
      /\ Accepted \in Int /\ Oldest \in Int /\ Oldest <= Accepted + 1
  <2>1. /\ Head(sendq) \in Req /\ Head(sendq) = Accepted + 1
        /\ Accepted' = Accepted + 1 /\ Oldest' = Oldest
    BY <1>1, <1>2, NextAccepted
  <2>2. Len(responses) \in Nat /\ Accepted \in Int
    BY <1>2, Positions
  <2> QED
    BY <2>1, <2>2 DEF Oldest
<1>4. PICK n \in Nat :
        /\ PartChain(Stream, n, srv.part)
        /\ responses = <<>> => n = 1
        /\ responses # <<>> /\ rcv[Head(responses)] = "open" => n = NextPart(Head(responses))
  BY <1>2 DEF InSequence
<1>5. PartChain(Stream, n, srv.part)'
  BY <1>1, <1>4 DEF PartChain, Stream
<1>6. responses' # <<>>
  BY <1>1, <1>2, <1>3, AppendProperties
<1>7. ASSUME rcv'[Head(responses')] = "open"
      PROVE  n = NextPart(Head(responses))'
  <2>1. CASE responses = <<>>
    <3>1. Head(responses') = Head(sendq)
      BY <1>1, <1>2, <1>3, <2>1
    <3>2. got[Head(sendq)] = 0 /\ chan[Head(sendq)] = <<>>
      BY <1>2, <1>3 DEF InSequence, Req
    <3> QED
      BY <1>1, <1>4, <2>1, <3>1, <3>2, EmptySeq DEF NextPart
  <2>2. CASE responses # <<>>
    <3>1. Head(responses') = Head(responses)
      BY <1>1, <1>2, <1>3, <2>2
    <3> QED
      BY <1>1, <1>4, <1>7, <2>2, <3>1 DEF NextPart
  <2> QED
    BY <2>1, <2>2
<1>8. \A r \in Req : r > Accepted' \/ r > Oldest' => got'[r] = 0 /\ chan'[r] = <<>>
  BY <1>1, <1>2, <1>3 DEF InSequence, Req
<1>9. \A r \in Req : r >= Oldest' => \A i \in 1..Len(chan'[r]) : ~chan'[r][i].complete
  BY <1>1, <1>2, <1>3 DEF InSequence
<1>10. srv'.mode = "idle" => srv'.part = 1
  BY <1>1, <1>2 DEF InSequence
<1> QED
  BY <1>4, <1>5, <1>6, <1>7, <1>8, <1>9, <1>10 DEF InSequence

-----------------------------------------------------------------------------
(* The server numbers its batches                                          *)

\* A batch goes on where the server is.
LEMMA ReplySequence ==
  ASSUME TypeOK, InSequence, NEW m \in BackMessage, Reply(m),
         UNCHANGED <<sent, sendq, responses, rcv, got, chan, pendingResponses>>,
         m.type = "Normal" => m.part = srv.part,
         srv'.part = IF m.type = "Normal" THEN PartTo(m) ELSE srv.part,
         srv'.mode = "idle" => srv'.part = 1
  PROVE  InSequence'
<1>1. PICK n \in Nat :
        /\ PartChain(Stream, n, srv.part)
        /\ responses = <<>> => n = 1
        /\ responses # <<>> /\ rcv[Head(responses)] = "open" => n = NextPart(Head(responses))
  BY DEF InSequence
<1>2. Stream' = Append(Stream, m) /\ Stream \in Seq(BackMessage) /\ srv.part \in Nat
  BY StreamReply, StreamType
<1>3. PartChain(Stream', n, srv'.part)
  BY <1>1, <1>2, PartChainAppend
<1>4. PartChain(Stream, n, srv.part)'
  BY <1>3 DEF PartChain
<1>5. NextPart(Head(responses))' = NextPart(Head(responses))
  BY DEF NextPart
<1>6. Accepted' = Accepted /\ Oldest' = Oldest
  BY DEF Accepted, Oldest
<1> QED
  BY <1>1, <1>4, <1>5, <1>6 DEF InSequence

\* Nothing is said, and the server is still at the same batch.
LEMMA SilentSequence ==
  ASSUME TypeOK, InSequence,
         UNCHANGED <<sent, sendq, responses, rcv, got, chan, pendingResponses, inbound>>,
         srv'.part = srv.part, srv'.mode = "idle" => srv.mode = "idle"
  PROVE  InSequence'
<1>1. PICK n \in Nat :
        /\ PartChain(Stream, n, srv.part)
        /\ responses = <<>> => n = 1
        /\ responses # <<>> /\ rcv[Head(responses)] = "open" => n = NextPart(Head(responses))
  BY DEF InSequence
<1>2. PartChain(Stream, n, srv.part)'
  BY <1>1 DEF PartChain, Stream
<1>3. NextPart(Head(responses))' = NextPart(Head(responses))
  BY DEF NextPart
<1>4. Accepted' = Accepted /\ Oldest' = Oldest
  BY DEF Accepted, Oldest
<1> QED
  BY <1>1, <1>2, <1>3, <1>4 DEF InSequence

LEMMA ServeSequence ==
  ASSUME PromiseInv, Live, ~CopyRejects, Serve \/ SrvAsync \/ SrvCrash
  PROVE  InSequence'
<1>1. UNCHANGED <<sent, sendq, responses, rcv, got, chan, pendingResponses>>
  BY DEF Serve, SrvTake, SrvChunk, SrvReady, SrvCopyStart, SrvCopyData, SrvCopySkip,
     SrvCopyEnd, SrvStrayCopy, SrvTerminate, SrvAsync, SrvCrash, serverFrame, connVars,
     clientVars
<1>2. /\ TypeOK /\ InStep /\ InSequence /\ srv.req \in Nat /\ srv.part \in Nat
      /\ srv.mode = "idle" => srv.part = 1
      /\ srv \in [mode : {"idle", "busy", "copy", "skip", "closed"}, req : Nat, part : Nat]
  BY StreamType DEF PromiseInv, IndInv, InSequence, TypeOK, ServerTypeOK
<1>3. CASE SrvTake \/ SrvCopySkip \/ SrvCrash
  <2>1. /\ UNCHANGED inbound /\ srv'.part = srv.part
        /\ srv'.mode = "idle" => srv.mode = "idle"
    BY <1>2, <1>3 DEF SrvTake, SrvCopySkip, SrvCrash, Goes
  <2> QED
    BY <1>1, <1>2, <2>1, SilentSequence
<1>4. CASE SrvStrayCopy \/ SrvTerminate
  BY <1>2, <1>4, SrvNeverStray
<1>5. ASSUME NEW r \in Nat, NEW last \in BOOLEAN, Reply(Chunk(r, srv.part, last)),
             srv'.part = IF last THEN 1 ELSE srv.part + 1,
             srv'.mode = "idle" => last
      PROVE  InSequence'
  <2> DEFINE m == Chunk(r, srv.part, last)
  <2>1. /\ m \in BackMessage /\ m.type = "Normal" /\ m.part = srv.part /\ m.complete = last
    BY <1>2, ChunkType DEF Chunk
  <2>2. PartTo(m) = srv'.part
    BY <1>5, <2>1 DEF PartTo
  <2> HIDE DEF m
  <2>3. Reply(m)
    BY <1>5 DEF m
  <2> QED
    BY <1>1, <1>2, <1>5, <2>1, <2>2, <2>3, ReplySequence
<1>6. CASE SrvChunk
  BY <1>2, <1>5, <1>6 DEF SrvChunk, Goes
<1>7. CASE SrvReady \/ SrvCopyEnd
  <2>1. Reply(Chunk(srv.req, srv.part, TRUE)) /\ Goes("idle", srv.req + 1, 1)
    BY <1>7 DEF SrvReady, SrvCopyEnd
  <2>2. srv'.part = 1
    BY <2>1 DEF Goes
  <2> QED
    BY <1>2, <1>5, <2>1, <2>2
<1>8. CASE SrvCopyStart
  <2>1. toServer # <<>> /\ srv.part = 1
    BY <1>2, <1>8 DEF SrvCopyStart, Arrives
  <2>2. Head(toServer).req \in Nat
    BY <1>2, <2>1, ConsumeType DEF TypeOK
  <2> QED
    <3>1. Reply(Chunk(Head(toServer).req, srv.part, FALSE)) /\ Goes("copy", Head(toServer).req, 2)
      BY <1>8, <2>1 DEF SrvCopyStart
    <3>2. srv'.part = srv.part + 1 /\ srv'.mode # "idle"
      BY <2>1, <3>1 DEF Goes
    <3> QED
      BY <1>5, <2>2, <3>1, <3>2
<1>9. CASE SrvCopyData
  <2>1. CASE UNCHANGED <<inbound, srv>>
    BY <1>1, <1>2, <2>1, SilentSequence
  <2>2. CASE Reply(Chunk(srv.req, srv.part, FALSE)) /\ Goes("skip", srv.req, srv.part + 1)
    BY <1>2, <1>5, <2>2 DEF Goes
  <2> QED
    BY <1>9, <2>1, <2>2 DEF SrvCopyData
<1>10. CASE SrvAsync
  <2>1. PICK t \in {"Notice", "Parameter"} : Reply(Async(t, srv.req, asyncs'))
    BY <1>10 DEF SrvAsync
  <2>2. asyncs' \in Nat /\ UNCHANGED srv
    BY <1>2, <1>10, StreamType DEF SrvAsync
  <2>3. /\ Async(t, srv.req, asyncs') \in BackMessage
        /\ Async(t, srv.req, asyncs').type # "Normal"
    BY <1>2, <2>2, AsyncType
  <2> QED
    BY <1>1, <1>2, <2>1, <2>2, <2>3, ReplySequence
<1> QED
  BY <1>3, <1>4, <1>6, <1>7, <1>8, <1>9, <1>10 DEF Serve

-----------------------------------------------------------------------------
(* The callers                                                             *)

CallersKeep == GapFree /\ Delivered /\ Awaited /\ (Live => InSequence)

LEMMA SendPromise ==
  ASSUME PromiseInv, NEW copy \in BOOLEAN, Send(copy)
  PROVE  CallersKeep'
<1>1. /\ sent' = sent + 1 /\ sent' \in Req /\ sent \in Nat /\ ~receiverClosed
      /\ rcv' = [rcv EXCEPT ![sent'] = "open"]
      /\ sink' = [sink EXCEPT ![sent'] = IF copy THEN "start" ELSE "none"]
      /\ sendq' = Append(sendq, sent')
      /\ UNCHANGED <<got, chan, responses, pendingResponses, inbound, srv, state, receiverClosed>>
  BY BoundsAssumption DEF Send, PromiseInv, IndInv, TypeOK, ClientTypeOK, Req, connVars,
     wireVars, serverVars
<1>2. /\ TypeOK /\ GapFree /\ Delivered /\ Awaited /\ sendq \in Seq(Req)
      /\ rcv \in [Req -> {"unsent", "open", "finished", "closed", "dropped"}]
      /\ sink \in [Req -> {"none", "start", "await", "data", "done", "dropped"}]
  BY DEF PromiseInv, IndInv, TypeOK, QueueTypeOK, ClientTypeOK
<1>3. GapFree' /\ Delivered'
  BY <1>1, <1>2 DEF GapFree, Delivered
<1>4. Awaited'
  BY <1>1, <1>2 DEF Awaited, Req
<1>5. ASSUME Live
      PROVE  InSequence'
  <2>1. /\ InStep /\ InSequence /\ Accepted \in Int /\ Oldest \in Int /\ Accepted <= sent
        /\ Len(responses) \in Nat /\ responses \in Seq(Req)
    BY <1>2, <1>5, Positions DEF PromiseInv, IndInv, TypeOK, TaskTypeOK
  <2>2. Accepted' = Accepted /\ Oldest' = Oldest
    <3>1. Len(sendq') = Len(sendq) + 1 /\ Len(sendq) \in Nat
      BY <1>1, <1>2, AppendProperties, LenProperties
    <3> QED
      BY <1>1, <3>1 DEF Accepted, Oldest
  <2>3. PICK n \in Nat :
          /\ PartChain(Stream, n, srv.part)
          /\ responses = <<>> => n = 1
          /\ responses # <<>> /\ rcv[Head(responses)] = "open" => n = NextPart(Head(responses))
    BY <2>1 DEF InSequence
  <2>4. PartChain(Stream, n, srv.part)'
    BY <1>1, <2>3 DEF PartChain, Stream
  <2>5. ASSUME responses # <<>>
        PROVE  rcv'[Head(responses)] = rcv[Head(responses)]
    <3>1. Head(responses) = Oldest /\ Head(responses) \in Req /\ Len(responses) # 0
      BY <1>2, <2>1, <2>5, HeadIsOldest, HeadTailProperties, EmptySeq DEF InStep
    <3>2. Head(responses) # sent'
      BY <1>1, <2>1, <3>1 DEF Oldest
    <3> QED
      BY <1>1, <1>2, <3>1, <3>2
  <2>6. NextPart(Head(responses))' = NextPart(Head(responses))
    BY <1>1 DEF NextPart
  <2>7. responses' = responses /\ srv' = srv /\ got' = got /\ chan' = chan
    BY <1>1
  <2> QED
    BY <2>1, <2>2, <2>3, <2>4, <2>5, <2>6, <2>7 DEF InSequence
<1>6. Live' => Live
  BY <1>1 DEF Live
<1> QED
  BY <1>3, <1>4, <1>5, <1>6 DEF CallersKeep

\* A caller that leaves takes its batches with it.
LEMMA LeavePromise ==
  ASSUME PromiseInv, NEW r \in Req, NEW how \in {"finished", "closed", "dropped"},
         Leave(r, how), rcv[r] = "open", NEW stage \in {"none", "done", "dropped"},
         sink' = [sink EXCEPT ![r] = stage],
         UNCHANGED <<sent, sendq, responses, pendingResponses, inbound, srv, state, receiverClosed>>
  PROVE  CallersKeep'
<1>1. /\ TypeOK /\ GapFree /\ Delivered /\ Awaited /\ sent \in Nat
      /\ rcv \in [Req -> {"unsent", "open", "finished", "closed", "dropped"}]
      /\ sink \in [Req -> {"none", "start", "await", "data", "done", "dropped"}]
      /\ got \in [Req -> Nat] /\ chan \in [Req -> Seq(BackMessage)]
  BY Positions DEF PromiseInv, IndInv, TypeOK, QueueTypeOK, ClientTypeOK
<1>2. /\ rcv'[r] = how /\ got'[r] = 0 /\ chan'[r] = <<>> /\ sink'[r] = stage /\ Len(chan'[r]) = 0
      /\ \A q \in Req : q # r => /\ rcv'[q] = rcv[q] /\ got'[q] = got[q] /\ chan'[q] = chan[q]
                                /\ sink'[q] = sink[q]
  BY <1>1, EmptySeq DEF Leave
<1>3. GapFree' /\ Delivered'
  <2>1. ASSUME NEW q \in Req, NEW i \in 1..Len(chan'[q])
        PROVE  /\ chan'[q][i].part = got'[q] + i /\ chan'[q][i].type = "Normal"
               /\ chan'[q][i].complete => i = Len(chan'[q])
    <3>1. q # r
      BY <1>2, <2>1
    <3> QED
      BY <1>1, <1>2, <2>1, <3>1 DEF GapFree, Delivered
  <2> QED
    BY <2>1 DEF GapFree, Delivered
<1>4. Awaited'
  <2>1. \A q \in Req : sink'[q] \in {"start", "await", "data"} => rcv'[q] = "open"
    BY <1>1, <1>2 DEF Awaited
  <2>2. r \in Req /\ r <= sent
    BY <1>1 DEF Awaited, Req
  <2> QED
    BY <1>1, <1>2, <2>1, <2>2 DEF Awaited
<1>5. ASSUME Live
      PROVE  InSequence'
  <2>1. InSequence
    BY <1>5 DEF PromiseInv
  <2>2. PICK n \in Nat :
          /\ PartChain(Stream, n, srv.part)
          /\ responses = <<>> => n = 1
          /\ responses # <<>> /\ rcv[Head(responses)] = "open" => n = NextPart(Head(responses))
    BY <2>1 DEF InSequence
  <2>3. PartChain(Stream, n, srv.part)'
    BY <2>2 DEF PartChain, Stream
  <2>4. ASSUME responses # <<>>, rcv'[Head(responses)] = "open"
        PROVE  n = NextPart(Head(responses))'
    <3>1. Head(responses) \in Req /\ Head(responses) # r
      BY <1>1, <1>2, <2>4, HeadTailProperties DEF TypeOK, TaskTypeOK
    <3> QED
      BY <1>2, <2>2, <2>4, <3>1 DEF NextPart
  <2>5. Accepted' = Accepted /\ Oldest' = Oldest
    BY DEF Accepted, Oldest
  <2>6. \A q \in Req : q > Accepted' \/ q > Oldest' => got'[q] = 0 /\ chan'[q] = <<>>
    BY <1>2, <2>1, <2>5 DEF InSequence
  <2>7. \A q \in Req : q >= Oldest' => \A i \in 1..Len(chan'[q]) : ~chan'[q][i].complete
    BY <1>2, <2>1, <2>5 DEF InSequence
  <2> QED
    BY <2>1, <2>2, <2>3, <2>4, <2>6, <2>7 DEF InSequence
<1>6. Live' => Live
  BY DEF Live
<1> QED
  BY <1>3, <1>4, <1>5, <1>6 DEF CallersKeep

\* A caller that takes a batch is one further, and so is what its channel starts with.
LEMMA TakePromise ==
  ASSUME PromiseInv, NEW r \in Req, rcv[r] = "open", chan[r] # <<>>,
         got' = [got EXCEPT ![r] = @ + 1], chan' = [chan EXCEPT ![r] = Tail(@)],
         sink' = IF sink[r] = "await" THEN [sink EXCEPT ![r] = "data"] ELSE sink,
         UNCHANGED <<sent, rcv, sendq, responses, pendingResponses, inbound, srv, state,
                     receiverClosed>>
  PROVE  CallersKeep'
<1>1. /\ TypeOK /\ GapFree /\ Delivered /\ Awaited /\ sent \in Nat
      /\ sink \in [Req -> {"none", "start", "await", "data", "done", "dropped"}]
      /\ got \in [Req -> Nat] /\ chan \in [Req -> Seq(BackMessage)]
  BY Positions DEF PromiseInv, IndInv, TypeOK, QueueTypeOK, ClientTypeOK
<1>2. /\ got'[r] = got[r] + 1 /\ chan'[r] = Tail(chan[r])
      /\ \A q \in Req : q # r => got'[q] = got[q] /\ chan'[q] = chan[q]
  BY <1>1
<1>3. /\ Len(chan[r]) \in Nat /\ Len(chan[r]) # 0 /\ Len(Tail(chan[r])) = Len(chan[r]) - 1
      /\ \A i \in 1..Len(Tail(chan[r])) : i + 1 \in 1..Len(chan[r]) /\ Tail(chan[r])[i] = chan[r][i + 1]
  BY <1>1, EmptySeq, LenProperties, HeadTailProperties
<1>4. GapFree'
  <2>1. ASSUME NEW i \in 1..Len(chan'[r])
        PROVE  chan'[r][i].part = got'[r] + i
    <3>1. chan[r][i + 1].part = got[r] + (i + 1)
      BY <1>1, <1>2, <1>3 DEF GapFree
    <3> QED
      BY <1>1, <1>2, <1>3, <3>1
  <2> QED
    BY <1>1, <1>2, <2>1 DEF GapFree
<1>5. Delivered'
  <2>1. ASSUME NEW i \in 1..Len(chan'[r])
        PROVE  chan'[r][i].type = "Normal" /\ (chan'[r][i].complete => i = Len(chan'[r]))
    <3>0. /\ Len(chan'[r]) = Len(chan[r]) - 1 /\ Len(chan[r]) \in Nat
          /\ i \in 1..Len(Tail(chan[r])) /\ i \in Nat
      <4>1. chan'[r] = Tail(chan[r])
        BY <1>2
      <4>2. i \in 1..Len(Tail(chan[r]))
        BY <2>1, <4>1
      <4>3. i \in Nat
        BY <1>3, <4>2
      <4> QED
        BY <1>3, <4>1, <4>2, <4>3
    <3>1. i + 1 \in 1..Len(chan[r]) /\ chan'[r][i] = chan[r][i + 1]
      BY <1>2, <1>3, <2>1, <3>0
    <3>2. chan[r][i + 1].type = "Normal" /\ (chan[r][i + 1].complete => i + 1 = Len(chan[r]))
      BY <1>1, <3>1 DEF Delivered
    <3>3. i + 1 = Len(chan[r]) => i = Len(chan'[r])
      BY <2>1, <3>0
    <3> QED
      BY <3>1, <3>2, <3>3
  <2>2. ASSUME NEW q \in Req, NEW i \in 1..Len(chan'[q])
        PROVE  chan'[q][i].type = "Normal" /\ (chan'[q][i].complete => i = Len(chan'[q]))
    <3>1. CASE q = r
      BY <2>1, <2>2, <3>1
    <3>2. CASE q # r
      BY <1>1, <1>2, <2>2, <3>2 DEF Delivered
    <3> QED
      BY <3>1, <3>2
  <2> QED
    BY <2>2 DEF Delivered
<1>6. Awaited'
  BY <1>1 DEF Awaited
<1>7. ASSUME Live
      PROVE  InSequence'
  <2>1. InSequence
    BY <1>7 DEF PromiseInv
  <2>2. PICK n \in Nat :
          /\ PartChain(Stream, n, srv.part)
          /\ responses = <<>> => n = 1
          /\ responses # <<>> /\ rcv[Head(responses)] = "open" => n = NextPart(Head(responses))
    BY <2>1 DEF InSequence
  <2>3. PartChain(Stream, n, srv.part)'
    BY <2>2 DEF PartChain, Stream
  <2>4. ASSUME responses # <<>>
        PROVE  NextPart(Head(responses))' = NextPart(Head(responses))
    <3>1. Head(responses) \in Req
      BY <1>1, <2>4, HeadTailProperties DEF TypeOK, TaskTypeOK
    <3>2. CASE Head(responses) = r
      BY <1>1, <1>2, <1>3, <3>2 DEF NextPart
    <3>3. CASE Head(responses) # r
      BY <1>2, <3>1, <3>3 DEF NextPart
    <3> QED
      BY <3>2, <3>3
  <2>5. Accepted' = Accepted /\ Oldest' = Oldest
    BY DEF Accepted, Oldest
  <2>6. \A q \in Req : q > Accepted' \/ q > Oldest' => got'[q] = 0 /\ chan'[q] = <<>>
    BY <1>2, <2>1, <2>5 DEF InSequence
  <2>7. ASSUME NEW q \in Req, q >= Oldest'
        PROVE  \A i \in 1..Len(chan'[q]) : ~chan'[q][i].complete
    <3>1. \A i \in 1..Len(chan[q]) : ~chan[q][i].complete
      BY <2>1, <2>5, <2>7 DEF InSequence
    <3>2. CASE q = r
      BY <1>2, <1>3, <3>1, <3>2
    <3>3. CASE q # r
      BY <1>2, <3>1, <3>3
    <3> QED
      BY <3>2, <3>3
  <2> QED
    BY <2>1, <2>2, <2>3, <2>4, <2>6, <2>7 DEF InSequence
<1>8. Live' => Live
  BY DEF Live
<1> QED
  BY <1>4, <1>5, <1>6, <1>7, <1>8 DEF CallersKeep

-----------------------------------------------------------------------------
(* Every step keeps the promise                                            *)

\* The task reads.
LEMMA ReadPromise ==
  ASSUME PromiseInv, Wake \/ Read
  PROVE  CallersKeep'
<1>1. CASE ReadResponse
  BY <1>1, ReadResponseCallers, ReadResponseSequence DEF CallersKeep
<1>2. CASE ReadNotice \/ ReadParameter
  <2>1. UNCHANGED <<sent, rcv, got, sink, chan>>
    BY <1>2 DEF ReadNotice, ReadParameter, clientVars
  <2> QED
    BY <1>2, <2>1, CallersFrame, ReadAsyncSequence DEF CallersKeep
<1>3. CASE ReadBlocked
  <2>1. UNCHANGED <<sent, rcv, got, sink, chan>>
    BY <1>3 DEF ReadBlocked, clientVars
  <2> QED
    BY <1>3, <2>1, CallersFrame, ReadBlockedSequence DEF CallersKeep
<1>4. CASE ReadUnexpected \/ ReadEof
  <2>1. UNCHANGED <<sent, rcv, got, sink, chan>> /\ ~Live'
    BY <1>4 DEF ReadUnexpected, ReadEof, Resolve, Live, clientVars
  <2> QED
    BY <2>1, CallersFrame DEF CallersKeep
<1>5. CASE Wake \/ ReadPending \/ ReadDone
  <2>1. /\ UNCHANGED <<sent, rcv, got, sink, chan>>
        /\ UNCHANGED <<sendq, responses, pendingResponses, inbound, srv, state, receiverClosed>>
    BY <1>5 DEF Wake, ReadPending, ReadDone, clientVars, wireVars, serverVars
  <2>2. Live' => Live
    BY <2>1 DEF Live
  <2> QED
    BY <2>1, <2>2, CallersFrame, SequenceFrame DEF CallersKeep, PromiseInv
<1> QED
  BY <1>1, <1>2, <1>3, <1>4, <1>5 DEF Read

\* The task writes, or is freed.
LEMMA WritePromise ==
  ASSUME PromiseInv, Write \/ DropConnection
  PROVE  CallersKeep'
<1>1. UNCHANGED <<sent, rcv, got, sink, chan>>
  BY DEF Write, WriteBackpressure, WriteSingle, WriteBeginCopy, WriteCopy, WriteCopyFinished,
     WriteCopyPending, WritePending, WriteTerminate, WriteEof, WriteDone, Flush, Shutdown,
     WriteError, DropConnection, clientVars
<1>2. CASE WriteSingle \/ WriteBeginCopy
  <2>1. Live
    BY <1>2 DEF WriteSingle, WriteBeginCopy, Writable, Writing, Live, PromiseInv, IndInv
  <2> QED
    BY <1>1, <1>2, <2>1, CallersFrame, AcceptSequence DEF CallersKeep
<1>3. CASE DropConnection
  <2>1. ~Live'
    BY <1>3 DEF DropConnection, Live, PromiseInv, IndInv
  <2> QED
    BY <1>1, <2>1, CallersFrame DEF CallersKeep
<1>4. CASE Write /\ ~WriteSingle /\ ~WriteBeginCopy
  <2>1. UNCHANGED <<sendq, responses, pendingResponses, inbound, srv>>
    BY <1>4 DEF Write, WriteBackpressure, WriteCopy, WriteCopyFinished, WriteCopyPending,
       WritePending, WriteTerminate, WriteEof, WriteDone, Flush, Shutdown, WriteError, Drain,
       wireVars, serverVars
  <2>2. Live' => Live
    BY <1>4, LiveBefore DEF PromiseInv, Next, Poll
  <2> QED
    BY <1>1, <2>1, <2>2, CallersFrame, SequenceFrame DEF CallersKeep, PromiseInv
<1> QED
  BY <1>2, <1>3, <1>4

LEMMA ClientPromise ==
  ASSUME PromiseInv, Client
  PROVE  CallersKeep'
<1>1. ASSUME NEW copy \in BOOLEAN, Send(copy)
      PROVE  CallersKeep'
  BY <1>1, SendPromise
<1>2. ASSUME NEW r \in Req, Recv(r) \/ RecvClosed(r) \/ DropResponses(r) \/ CopyClosed(r)
      PROVE  CallersKeep'
  <2>1. /\ TypeOK /\ Awaited
        /\ sink \in [Req -> {"none", "start", "await", "data", "done", "dropped"}]
    BY DEF PromiseInv, IndInv, TypeOK, ClientTypeOK
  <2>2. /\ rcv[r] = "open"
        /\ UNCHANGED <<sent, sendq, responses, pendingResponses, inbound, srv, state,
                       receiverClosed>>
    BY <1>2, <2>1 DEF Recv, RecvClosed, DropResponses, CopyClosed, Awaited, connVars, wireVars,
       serverVars
  <2>3. ASSUME NEW how \in {"finished", "closed", "dropped"}, Leave(r, how),
               \/ AbandonCopy(r) /\ sink[r] # "start"
               \/ UNCHANGED sink /\ sink[r] = "done"
               \/ sink' = [sink EXCEPT ![r] = "dropped"]
        PROVE  CallersKeep'
    <3>1. sink[r] \in {"none", "done", "dropped"} => [sink EXCEPT ![r] = sink[r]] = sink
      BY <2>1
    <3>2. \E stage \in {"none", "done", "dropped"} : sink' = [sink EXCEPT ![r] = stage]
      BY <2>1, <2>3, <3>1 DEF AbandonCopy
    <3> QED
      BY <2>2, <2>3, <3>2, LeavePromise
  <2>4. CASE RecvClosed(r) \/ DropResponses(r) \/ CopyClosed(r)
    BY <2>3, <2>4 DEF RecvClosed, DropResponses, CopyClosed
  <2>5. CASE Recv(r) /\ (Head(chan[r]).complete \/ sink[r] = "done")
    BY <2>3, <2>5 DEF Recv
  <2>6. CASE Recv(r) /\ ~Head(chan[r]).complete /\ sink[r] # "done"
    <3>1. /\ chan[r] # <<>>
          /\ got' = [got EXCEPT ![r] = @ + 1]
          /\ chan' = [chan EXCEPT ![r] = Tail(@)]
          /\ sink' = IF sink[r] = "await" THEN [sink EXCEPT ![r] = "data"] ELSE sink
          /\ UNCHANGED rcv
      BY <2>6 DEF Recv
    <3> QED
      BY <2>2, <3>1, TakePromise
  <2> QED
    BY <1>2, <2>4, <2>5, <2>6
<1>3. ASSUME NEW r \in Req, CopyStart(r) \/ CopyData(r) \/ CopyFinish(r)
      PROVE  CallersKeep'
  <2>1. /\ Awaited /\ sink \in [Req -> {"none", "start", "await", "data", "done", "dropped"}]
        /\ GapFree /\ Delivered /\ (Live => InSequence)
    BY DEF PromiseInv, IndInv, TypeOK, ClientTypeOK
  <2>2. /\ UNCHANGED <<sent, sendq, responses, pendingResponses, inbound, rcv, got, chan, srv,
                       state, receiverClosed>>
        /\ sink[r] \in {"start", "data"}
        /\ \A q \in Req : q # r => sink'[q] = sink[q]
    BY <1>3, <2>1 DEF CopyStart, CopyData, CopyFinish, connVars, wireVars, serverVars
  <2>3. GapFree' /\ Delivered'
    BY <2>1, <2>2 DEF GapFree, Delivered
  <2>4. Awaited'
    BY <2>1, <2>2 DEF Awaited
  <2>5. Live' => Live
    BY <2>2 DEF Live
  <2> QED
    BY <2>1, <2>2, <2>3, <2>4, <2>5, SequenceFrame DEF CallersKeep
<1>4. CASE CloseClient
  <2>1. /\ UNCHANGED <<sent, rcv, got, sink, chan>>
        /\ UNCHANGED <<sendq, responses, pendingResponses, inbound, srv, state, receiverClosed>>
    BY <1>4 DEF CloseClient, connVars, wireVars, serverVars
  <2>2. Live' => Live
    BY <2>1 DEF Live
  <2> QED
    BY <2>1, <2>2, CallersFrame, SequenceFrame DEF CallersKeep, PromiseInv
<1> QED
  BY <1>1, <1>2, <1>3, <1>4 DEF Client

LEMMA ServerPromise ==
  ASSUME PromiseInv, ~CopyRejects, Serve \/ SrvAsync \/ SrvCrash
  PROVE  CallersKeep'
<1>1. UNCHANGED serverFrame
  BY DEF Serve, SrvTake, SrvChunk, SrvReady, SrvCopyStart, SrvCopyData, SrvCopySkip,
     SrvCopyEnd, SrvStrayCopy, SrvTerminate, SrvAsync, SrvCrash
<1>2. UNCHANGED <<sent, rcv, got, sink, chan, state, receiverClosed>>
  BY <1>1 DEF serverFrame, clientVars, connVars
<1>3. Live' => Live
  BY <1>2 DEF Live
<1> QED
  BY <1>2, <1>3, CallersFrame, ServeSequence DEF CallersKeep

LEMMA PromiseStep ==
  ASSUME PromiseInv, ~CopyRejects, [Next]_vars
  PROVE  PromiseInv'
<1>1. IndInv'
  BY StepInv DEF PromiseInv
<1>2. CASE UNCHANGED vars \/ Terminated
  <2>1. UNCHANGED vars
    BY <1>2 DEF Terminated
  <2>2. /\ UNCHANGED <<sent, rcv, got, sink, chan>>
        /\ UNCHANGED <<sendq, responses, pendingResponses, inbound, srv, state, receiverClosed>>
    BY <2>1 DEF vars, clientVars, connVars, wireVars, serverVars
  <2>3. Live' => Live
    BY <2>2 DEF Live
  <2>4. GapFree' /\ Delivered' /\ Awaited'
    BY <2>2, CallersFrame
  <2>5. Live' => InSequence'
    BY <2>2, <2>3, SequenceFrame DEF PromiseInv
  <2> QED
    BY <1>1, <2>4, <2>5 DEF PromiseInv
<1>3. CASE Poll \/ DropConnection \/ Client \/ Serve \/ SrvAsync \/ SrvCrash
  <2>1. CallersKeep'
    BY <1>3, ReadPromise, WritePromise, ClientPromise, ServerPromise DEF Poll
  <2> QED
    BY <1>1, <2>1 DEF CallersKeep, PromiseInv
<1>4. Next \/ UNCHANGED vars
  OBVIOUS
<1> QED
  BY <1>2, <1>3, <1>4 DEF Next

LEMMA PromiseInit == Init => PromiseInv
<1>1. SUFFICES ASSUME Init PROVE PromiseInv
  OBVIOUS
<1>2. IndInv
  BY <1>1, InitInv
<1>3. /\ sent = 0 /\ sendq = <<>> /\ responses = <<>> /\ inbound = <<>>
      /\ rcv = [r \in Req |-> "unsent"] /\ got = [r \in Req |-> 0]
      /\ sink = [r \in Req |-> "none"] /\ chan = [r \in Req |-> <<>>]
      /\ srv = [mode |-> "idle", req |-> 1, part |-> 1]
      /\ asyncs \in Nat /\ pendingResponses = [i \in 1..asyncs |-> Async("Notice", 1, i)]
      /\ pendingResponses \in Seq(BackMessage)
  BY <1>1, <1>2, StreamType DEF Init, IndInv
<1>4. \A r \in Req : chan[r] = <<>> /\ Len(chan[r]) = 0
  BY <1>3, EmptySeq
<1>5. GapFree /\ Delivered /\ Awaited
  BY <1>3, <1>4 DEF GapFree, Delivered, Awaited
<1>6. PartChain(Stream, 1, srv.part)
  <2>1. Stream = pendingResponses /\ Stream \in Seq(BackMessage) /\ Len(Stream) \in Nat
    BY <1>3, ConcatEmptySeq, LenProperties DEF Stream
  <2>2. \A i \in 1..Len(Stream) : Stream[i].type = "Notice"
    <3>1. Len(pendingResponses) = asyncs
      BY <1>3, LenProperties
    <3> QED
      BY <1>3, <2>1, <3>1 DEF Async
  <2> DEFINE p == [i \in 0..Len(Stream) |-> 1]
  <2>3. /\ p \in [0..Len(Stream) -> Nat] /\ p[0] = 1 /\ p[Len(Stream)] = 1
        /\ \A i \in 1..Len(Stream) : p[i] = p[i - 1]
    BY <2>1
  <2> HIDE DEF p
  <2> QED
    BY <1>3, <2>2, <2>3 DEF PartChain
<1>7. InSequence
  BY <1>3, <1>4, <1>6 DEF InSequence
<1> QED
  BY <1>2, <1>5, <1>7 DEF PromiseInv

\* The callers' side of the connection, whatever they cancel: each channel holds batches of
\* its own response, consecutive from the one its caller is at, as long as the task lives
\* the stream goes on where they end, and a copy under way is waited for (connection.rs,
\* poll_read; client.rs, Responses; copy_in.rs, CopyInSink).
THEOREM PromiseCorrect ==
  ASSUME CopyRejects = FALSE
  PROVE  Spec => []PromiseInv
<1>1. PromiseInv /\ [Next]_vars => PromiseInv'
  BY PromiseStep
<1> QED
  BY <1>1, PromiseInit, PTL DEF Spec

\* A caller sees the batches of its response in the order the server sent them, none lost
\* and none twice, also when one was parked for want of room (connection.rs, poll_response
\* and poll_read), provided the server answers every Sync it is sent once.
THEOREM GapFreeCorrect ==
  ASSUME CopyRejects = FALSE
  PROVE  Spec => []GapFree
<1>1. PromiseInv => GapFree
  BY DEF PromiseInv
<1> QED
  BY <1>1, PromiseCorrect, PTL

-----------------------------------------------------------------------------
(* The refinement of Pipeline                                              *)

\* The batches the caller of r has taken.
Part(r, i) == Chunk(r, i, FALSE)
Taken(r, n) == [i \in 1..n |-> Part(r, i)]

LEMMA TakenType ==
  ASSUME NEW r \in Nat, NEW n \in Nat
  PROVE  /\ Taken(r, n) \in Seq(BackMessage) /\ Len(Taken(r, n)) = n
         /\ \A i \in 1..n : Taken(r, n)[i] = Part(r, i)
<1>1. \A i \in 1..n : Part(r, i) \in BackMessage
  BY DEF Part, Chunk, BackMessage
<1>2. Taken(r, n) \in [1..n -> BackMessage] /\ \A i \in 1..n : Taken(r, n)[i] = Part(r, i)
  BY <1>1 DEF Taken
<1>3. Taken(r, n) \in Seq(BackMessage)
  BY <1>2, SeqDef
<1>4. Len(Taken(r, n)) = n
  BY <1>2, <1>3, LenProperties
<1> QED
  BY <1>2, <1>3, <1>4

\* A batch moves from the channel to those taken.
LEMMA TakenNext ==
  ASSUME NEW r \in Nat, NEW n \in Nat, NEW c \in Seq(BackMessage), c # <<>>,
         Head(c) = Part(r, n + 1)
  PROVE  Taken(r, n + 1) \o Tail(c) = Taken(r, n) \o c
<1>1. /\ Len(c) \in Nat /\ Len(c) # 0 /\ Tail(c) \in Seq(BackMessage)
      /\ Len(Tail(c)) = Len(c) - 1 /\ Head(c) = c[1]
      /\ \A i \in 1..Len(Tail(c)) : Tail(c)[i] = c[i + 1]
  BY HeadTailProperties, LenProperties, EmptySeq
<1>2. /\ Taken(r, n) \in Seq(BackMessage) /\ Len(Taken(r, n)) = n
      /\ Taken(r, n + 1) \in Seq(BackMessage) /\ Len(Taken(r, n + 1)) = n + 1
      /\ \A i \in 1..n : Taken(r, n)[i] = Part(r, i)
      /\ \A i \in 1..n + 1 : Taken(r, n + 1)[i] = Part(r, i)
  BY TakenType
<1> DEFINE s == Taken(r, n + 1) \o Tail(c)
           t == Taken(r, n) \o c
<1>3. /\ s \in Seq(BackMessage) /\ Len(s) = n + Len(c)
      /\ \A i \in 1..n + Len(c) :
           s[i] = IF i <= n + 1 THEN Taken(r, n + 1)[i] ELSE Tail(c)[i - (n + 1)]
  <2>1. /\ s \in Seq(BackMessage) /\ Len(s) = Len(Taken(r, n + 1)) + Len(Tail(c))
        /\ \A i \in 1..Len(Taken(r, n + 1)) + Len(Tail(c)) :
             s[i] = IF i <= Len(Taken(r, n + 1)) THEN Taken(r, n + 1)[i]
                    ELSE Tail(c)[i - Len(Taken(r, n + 1))]
    BY <1>1, <1>2, ConcatProperties
  <2>2. Len(Taken(r, n + 1)) = n + 1 /\ Len(Tail(c)) = Len(c) - 1
        /\ (n + 1) + (Len(c) - 1) = n + Len(c)
    BY <1>1, <1>2
  <2> QED
    BY <2>1, <2>2
<1>4. /\ t \in Seq(BackMessage) /\ Len(t) = n + Len(c)
      /\ \A i \in 1..n + Len(c) : t[i] = IF i <= n THEN Taken(r, n)[i] ELSE c[i - n]
  <2>1. /\ t \in Seq(BackMessage) /\ Len(t) = Len(Taken(r, n)) + Len(c)
        /\ \A i \in 1..Len(Taken(r, n)) + Len(c) :
             t[i] = IF i <= Len(Taken(r, n)) THEN Taken(r, n)[i] ELSE c[i - Len(Taken(r, n))]
    BY <1>1, <1>2, ConcatProperties
  <2>2. Len(Taken(r, n)) = n
    BY <1>2
  <2> QED
    BY <2>1, <2>2
<1> HIDE DEF s, t
<1>5. ASSUME NEW i \in 1..Len(s)
      PROVE  s[i] = t[i]
  <2>1. CASE i <= n
    <3>1. i \in 1..n /\ i \in 1..n + 1 /\ i \in 1..n + Len(c) /\ i <= n + 1
      BY <1>1, <1>3, <2>1
    <3>2. s[i] = Part(r, i)
      BY <1>2, <1>3, <3>1
    <3>3. t[i] = Part(r, i)
      BY <1>2, <1>4, <2>1, <3>1
    <3> QED
      BY <3>2, <3>3
  <2>2. CASE i = n + 1
    BY <1>1, <1>2, <1>3, <1>4, <2>2
  <2>3. CASE i > n + 1
    <3>1. /\ i - (n + 1) \in 1..Len(Tail(c)) /\ (i - (n + 1)) + 1 = i - n
          /\ s[i] = Tail(c)[i - (n + 1)] /\ t[i] = c[i - n]
      BY <1>1, <1>3, <1>4, <2>3
    <3> QED
      BY <1>1, <3>1
  <2> QED
    BY <1>1, <1>3, <2>1, <2>2, <2>3
<1>6. s = t
  BY <1>3, <1>4, <1>5, SeqEqual
<1> QED
  BY <1>6 DEF s, t

LEMMA MailboxIs ==
  ASSUME TypeOK, NEW r \in Req
  PROVE  /\ rcv[r] = "open" => Mailbox[r] = Taken(r, got[r]) \o chan[r]
         /\ rcv[r] # "open" => Mailbox[r] = <<>>
         /\ Taken(r, got[r]) \in Seq(BackMessage) /\ Len(Taken(r, got[r])) = got[r]
         /\ chan[r] \in Seq(BackMessage) /\ got[r] \in Nat /\ r \in Nat
         /\ Mailbox[r] \in Seq(BackMessage)
<1>1. chan[r] \in Seq(BackMessage) /\ got[r] \in Nat /\ r \in Nat
  BY DEF TypeOK, QueueTypeOK, ClientTypeOK, Req
<1>2. Taken(r, got[r]) \in Seq(BackMessage) /\ Len(Taken(r, got[r])) = got[r]
  BY <1>1, TakenType
<1>3. /\ rcv[r] = "open" => Mailbox[r] = Taken(r, got[r]) \o chan[r]
      /\ rcv[r] # "open" => Mailbox[r] = <<>>
  BY DEF Mailbox, Taken, Part
<1>4. Mailbox[r] \in Seq(BackMessage)
  <2>1. Taken(r, got[r]) \o chan[r] \in Seq(BackMessage) /\ <<>> \in Seq(BackMessage)
    BY <1>1, <1>2, ConcatProperties, EmptySeq
  <2> QED
    BY <1>3, <2>1
<1> QED
  BY <1>1, <1>2, <1>3, <1>4

LEMMA MailboxAppend ==
  ASSUME TypeOK, NEW r \in Req, NEW m \in BackMessage, rcv[r] = "open",
         chan' = [chan EXCEPT ![r] = Append(@, m)], UNCHANGED <<rcv, got>>
  PROVE  /\ Mailbox' = [Mailbox EXCEPT ![r] = Append(@, m)]
         /\ Len(Mailbox[r]) + 1 = NextPart(r)
<1>1. /\ chan \in [Req -> Seq(BackMessage)]
      /\ Mailbox[r] = Taken(r, got[r]) \o chan[r] /\ Len(Taken(r, got[r])) = got[r]
      /\ Taken(r, got[r]) \in Seq(BackMessage) /\ chan[r] \in Seq(BackMessage)
      /\ got[r] \in Nat
  BY MailboxIs DEF TypeOK, QueueTypeOK
<1>2. /\ chan'[r] = Append(chan[r], m)
      /\ \A q \in Req : q # r => chan'[q] = chan[q]
  BY <1>1
<1>3. Mailbox'[r] = Append(Mailbox[r], m)
  <2>1. Mailbox'[r] = Taken(r, got[r]) \o chan'[r]
    BY DEF Mailbox, Taken, Part
  <2> QED
    BY <1>1, <1>2, <2>1
<1>4. \A q \in Req : q # r => Mailbox'[q] = Mailbox[q]
  BY <1>2 DEF Mailbox
<1>5. Mailbox = [q \in Req |-> Mailbox[q]] /\ Mailbox' = [q \in Req |-> Mailbox'[q]]
  BY DEF Mailbox
<1>6. Len(Mailbox[r]) + 1 = NextPart(r)
  <2>1. Len(Taken(r, got[r]) \o chan[r]) = Len(Taken(r, got[r])) + Len(chan[r])
    BY <1>1, ConcatProperties
  <2> QED
    BY <1>1, <2>1 DEF NextPart
<1> QED
  BY <1>3, <1>4, <1>5, <1>6

\* The steps a caller sees nothing of.
LEMMA PromiseStutter ==
  ASSUME UNCHANGED <<sent, rcv, got, chan>>, Current' = Current,
         pc' = "dropped" <=> pc = "dropped"
  PROVE  UNCHANGED Promise!vars
<1>1. Mailbox' = Mailbox
  BY DEF Mailbox
<1> QED
  BY <1>1 DEF Promise!vars

\* poll_read hands the next batch to the request at the head of the queue.
LEMMA ResponseDelivers ==
  ASSUME PromiseInv, ReadResponse
  PROVE  Promise!Next \/ UNCHANGED Promise!vars
<1> DEFINE h == Head(responses)
<1>1. /\ TypeOK /\ sent \in Nat /\ responses \in Seq(Req) /\ responses # <<>>
      /\ Item.type = "Normal" /\ pc = "read" /\ pc' = pc
      /\ UNCHANGED <<sent, sendq, rcv, got>>
      /\ chan \in [Req -> Seq(BackMessage)]
  BY Positions DEF PromiseInv, IndInv, ReadResponse, Reading, clientVars, TypeOK, TaskTypeOK,
     QueueTypeOK
<1>2. /\ h \in Req /\ h = Current /\ Item \in BackMessage /\ Item.req = h
      /\ rcv[h] = "open" => Item.part = NextPart(h)
      /\ h \in 1..sent
  <2>1. h \in Req /\ h = Oldest /\ Oldest <= Accepted /\ Accepted <= sent /\ Accepted \in Int
    BY <1>1, NextBatch, Positions
  <2> QED
    BY <1>1, <2>1, NextBatch DEF Current, Oldest, Accepted, Req
<1>3. Current' = IF Item.complete THEN Current + 1 ELSE Current
  <2>1. /\ Item.complete => Len(responses') = Len(responses) - 1
        /\ ~Item.complete => Len(responses') = Len(responses)
        /\ Len(responses) \in Nat /\ Len(sendq) \in Nat
    BY <1>1, Positions, HeadTailProperties DEF ReadResponse, ResponsesAfter
  <2> QED
    BY <1>1, <2>1 DEF Current
<1>4. CASE rcv[h] = "open"
  <2>1. PICK last \in BOOLEAN : last = Item.complete
    BY <1>2 DEF BackMessage
  <2>2. Item = Promise!Batch(h, NextPart(h), last)
    BY <1>1, <1>2, <1>4, <2>1 DEF BackMessage, Promise!Batch
  <2>3. chan' = [chan EXCEPT ![h] = Append(@, Item)]
    BY <1>4 DEF ReadResponse
  <2>4. /\ Mailbox' = [Mailbox EXCEPT ![h] = Append(@, Item)]
        /\ Len(Mailbox[h]) + 1 = NextPart(h)
    BY <1>1, <1>2, <1>4, <2>3, MailboxAppend
  <2>5. Promise!Deliver(last)
    BY <1>1, <1>2, <1>3, <1>4, <2>1, <2>2, <2>4 DEF Promise!Deliver
  <2> QED
    BY <2>1, <2>5 DEF Promise!Next
<1>5. CASE rcv[h] # "open"
  <2>1. UNCHANGED <<sent, rcv, got, chan>>
    BY <1>1, <1>5 DEF ReadResponse
  <2>2. CASE Item.complete
    <3>1. Mailbox' = Mailbox
      BY <2>1 DEF Mailbox
    <3>2. Promise!Discard
      BY <1>1, <1>2, <1>3, <1>5, <2>2, <3>1 DEF Promise!Discard
    <3> QED
      BY <3>2 DEF Promise!Next
  <2>3. CASE ~Item.complete
    BY <1>1, <1>3, <2>1, <2>3, PromiseStutter
  <2> QED
    BY <2>2, <2>3
<1> QED
  BY <1>4, <1>5

LEMMA MailboxLeave ==
  ASSUME TypeOK, NEW r \in Req, NEW how \in {"finished", "closed", "dropped"}, Leave(r, how)
  PROVE  Mailbox' = [Mailbox EXCEPT ![r] = <<>>]
<1>1. /\ rcv \in [Req -> {"unsent", "open", "finished", "closed", "dropped"}]
      /\ got \in [Req -> Nat] /\ chan \in [Req -> Seq(BackMessage)]
  BY DEF TypeOK, ClientTypeOK, QueueTypeOK
<1>2. /\ rcv'[r] # "open"
      /\ \A q \in Req : q # r => rcv'[q] = rcv[q] /\ got'[q] = got[q] /\ chan'[q] = chan[q]
  BY <1>1 DEF Leave
<1>3. Mailbox'[r] = <<>> /\ \A q \in Req : q # r => Mailbox'[q] = Mailbox[q]
  BY <1>2 DEF Mailbox
<1>4. Mailbox = [q \in Req |-> Mailbox[q]] /\ Mailbox' = [q \in Req |-> Mailbox'[q]]
  BY DEF Mailbox
<1> QED
  BY <1>3, <1>4

\* What a caller of Responses::poll_next is handed is in its mailbox either way.
LEMMA MailboxTake ==
  ASSUME PromiseInv, NEW r \in Req, rcv[r] = "open", chan[r] # <<>>, ~Head(chan[r]).complete,
         got' = [got EXCEPT ![r] = @ + 1], chan' = [chan EXCEPT ![r] = Tail(@)], UNCHANGED rcv
  PROVE  Mailbox' = Mailbox
<1>1. /\ TypeOK /\ Routing /\ GapFree /\ Delivered
      /\ got \in [Req -> Nat] /\ chan \in [Req -> Seq(BackMessage)]
  BY DEF PromiseInv, IndInv, TypeOK, ClientTypeOK, QueueTypeOK
<1>2. Head(chan[r]) = Part(r, got[r] + 1)
  <2>1. chan[r] \in Seq(BackMessage) /\ 1 \in 1..Len(chan[r]) /\ Head(chan[r]) = chan[r][1]
    BY <1>1, HeadTailProperties, LenProperties, EmptySeq
  <2>2. /\ chan[r][1] \in BackMessage /\ chan[r][1].type = "Normal" /\ chan[r][1].req = r
        /\ chan[r][1].part = got[r] + 1 /\ chan[r][1].complete = FALSE
    <3>1. chan[r][1] \in BackMessage
      BY <2>1, ElementOfSeq
    <3>2. chan[r][1].type = "Normal" /\ chan[r][1].req = r /\ chan[r][1].part = got[r] + 1
      BY <1>1, <2>1 DEF Routing, GapFree, Delivered
    <3>3. chan[r][1].complete \in BOOLEAN /\ ~chan[r][1].complete
      BY <2>1, <3>1 DEF BackMessage
    <3> QED
      BY <3>1, <3>2, <3>3
  <2> QED
    BY <2>1, <2>2 DEF Part, Chunk, BackMessage
<1>3. /\ got'[r] = got[r] + 1 /\ chan'[r] = Tail(chan[r])
      /\ \A q \in Req : q # r => got'[q] = got[q] /\ chan'[q] = chan[q]
  BY <1>1
<1>4. Mailbox'[r] = Mailbox[r]
  <2>1. Mailbox[r] = Taken(r, got[r]) \o chan[r]
    BY <1>1, MailboxIs
  <2>2. Mailbox'[r] = Taken(r, got'[r]) \o chan'[r]
    BY DEF Mailbox, Taken, Part
  <2>3. Taken(r, got[r] + 1) \o Tail(chan[r]) = Taken(r, got[r]) \o chan[r]
    <3>1. r \in Nat /\ got[r] \in Nat /\ chan[r] \in Seq(BackMessage)
      BY <1>1 DEF Req
    <3> QED
      BY <1>2, <3>1, TakenNext
  <2> QED
    BY <1>3, <2>1, <2>2, <2>3
<1>5. \A q \in Req : q # r => Mailbox'[q] = Mailbox[q]
  BY <1>3 DEF Mailbox
<1>6. Mailbox = [q \in Req |-> Mailbox[q]] /\ Mailbox' = [q \in Req |-> Mailbox'[q]]
  BY DEF Mailbox
<1> QED
  BY <1>4, <1>5, <1>6

\* A caller settles for the whole response, for an error once the connection is over, or
\* for nothing.
LEMMA CallerSettles ==
  ASSUME PromiseInv, ClosedInv, NEW r \in Req,
         Recv(r) \/ RecvClosed(r) \/ DropResponses(r) \/ CopyClosed(r)
  PROVE  Promise!Next \/ UNCHANGED Promise!vars
<1>1. /\ TypeOK /\ Delivered /\ Awaited /\ rcv[r] = "open"
      /\ UNCHANGED <<sent, pc, sendq, responses>>
      /\ chan \in [Req -> Seq(BackMessage)]
  BY DEF PromiseInv, IndInv, TypeOK, QueueTypeOK, Awaited, Recv, RecvClosed, DropResponses,
     CopyClosed, connVars
<1>2. Current' = Current /\ (pc' = "dropped" <=> pc = "dropped")
  BY <1>1 DEF Current
<1>3. ASSUME NEW how \in {"finished", "closed", "dropped"}, Leave(r, how),
             how = "finished" => Mailbox[r] # <<>> /\ Mailbox[r][Len(Mailbox[r])].complete,
             how = "closed" => pc = "dropped"
      PROVE  Promise!Next
  <2>1. rcv' = [rcv EXCEPT ![r] = how] /\ Mailbox' = [Mailbox EXCEPT ![r] = <<>>]
    BY <1>1, <1>3, MailboxLeave DEF Leave
  <2>2. Promise!Settle(r, how)
    BY <1>1, <1>2, <1>3, <2>1 DEF Promise!Settle
  <2>3. r \in Promise!Req
    BY DEF Promise!Req, Req
  <2> QED
    BY <1>3, <2>2, <2>3 DEF Promise!Next
<1>4. CASE Recv(r) /\ Head(chan[r]).complete
  <2>1. /\ chan[r] \in Seq(BackMessage) /\ 1 \in 1..Len(chan[r]) /\ Head(chan[r]) = chan[r][1]
        /\ Len(chan[r]) \in Nat
    BY <1>1, <1>4, HeadTailProperties, LenProperties, EmptySeq DEF Recv
  <2>2. Len(chan[r]) = 1 /\ chan[r][1].complete
    BY <1>1, <1>4, <2>1 DEF Delivered
  <2>3. /\ Mailbox[r] = Taken(r, got[r]) \o chan[r] /\ Len(Taken(r, got[r])) = got[r]
        /\ Taken(r, got[r]) \in Seq(BackMessage) /\ got[r] \in Nat
        /\ Mailbox[r] \in Seq(BackMessage)
    BY <1>1, MailboxIs
  <2>4. Len(Mailbox[r]) = got[r] + 1 /\ Mailbox[r][got[r] + 1] = chan[r][1]
    <3>1. /\ Len(Taken(r, got[r]) \o chan[r]) = Len(Taken(r, got[r])) + Len(chan[r])
          /\ \A i \in 1..Len(Taken(r, got[r])) + Len(chan[r]) :
               (Taken(r, got[r]) \o chan[r])[i]
                 = IF i <= Len(Taken(r, got[r])) THEN Taken(r, got[r])[i]
                   ELSE chan[r][i - Len(Taken(r, got[r]))]
      BY <2>1, <2>3, ConcatProperties
    <3>2. got[r] + 1 \in 1..got[r] + 1 /\ ~(got[r] + 1 <= got[r]) /\ (got[r] + 1) - got[r] = 1
      BY <2>3
    <3>3. Len(Taken(r, got[r])) = got[r] /\ Len(chan[r]) = 1
      BY <2>2, <2>3
    <3>4. (Taken(r, got[r]) \o chan[r])[got[r] + 1] = chan[r][1]
      BY <3>1, <3>2, <3>3
    <3> QED
      BY <2>3, <3>1, <3>3, <3>4
  <2>5. Mailbox[r] # <<>>
    <3>1. Len(<<>>) = 0 /\ got[r] + 1 # 0
      BY <2>3, EmptySeq
    <3> QED
      BY <2>4, <3>1
  <2>6. Leave(r, "finished")
    BY <1>4 DEF Recv
  <2> QED
    BY <1>3, <2>2, <2>4, <2>5, <2>6
<1>5. CASE Recv(r) /\ ~Head(chan[r]).complete
  <2>1. CASE sink[r] = "done"
    BY <1>3, <1>5, <2>1 DEF Recv
  <2>2. CASE sink[r] # "done"
    <3>1. /\ chan[r] # <<>> /\ UNCHANGED rcv
          /\ got' = [got EXCEPT ![r] = @ + 1] /\ chan' = [chan EXCEPT ![r] = Tail(@)]
      BY <1>5, <2>2 DEF Recv
    <3>2. Mailbox' = Mailbox
      BY <1>1, <1>5, <3>1, MailboxTake
    <3> QED
      BY <1>1, <1>2, <3>1, <3>2 DEF Promise!vars
  <2> QED
    BY <2>1, <2>2
<1>6. CASE RecvClosed(r) \/ CopyClosed(r)
  <2>1. pc = "dropped"
    <3>1. RecvClosed(r) => ~Queued(r) /\ ~Ended(chan[r])
      BY DEF RecvClosed, Queued, Ended
    <3> QED
      BY <1>1, <1>6, <3>1 DEF CopyClosed, ClosedInv, Tracked
  <2>2. Leave(r, "closed")
    BY <1>6 DEF RecvClosed, CopyClosed
  <2> QED
    BY <1>3, <2>1, <2>2
<1>7. CASE DropResponses(r)
  BY <1>3, <1>7 DEF DropResponses
<1> QED
  BY <1>4, <1>5, <1>6, <1>7

LEMMA SendSends ==
  ASSUME PromiseInv, NEW copy \in BOOLEAN, Send(copy)
  PROVE  Promise!Send
<1>1. /\ TypeOK /\ Live /\ InSequence /\ pc # "dropped" /\ sent < MaxRequests
      /\ sent' = sent + 1 /\ sent \in Nat /\ sendq \in Seq(Req)
      /\ UNCHANGED <<got, chan, responses, pc>>
      /\ rcv' = [rcv EXCEPT ![sent'] = "open"]
      /\ rcv \in [Req -> {"unsent", "open", "finished", "closed", "dropped"}]
      /\ sendq' = Append(sendq, sent')
  BY Positions DEF Send, PromiseInv, IndInv, Terminating, Live, TypeOK, ClientTypeOK,
     QueueTypeOK, TaskTypeOK, connVars
<1>2. sent' \in Req /\ sent' > Accepted
  BY <1>1, Positions, BoundsAssumption DEF Req
<1>3. Current' = Current
  <2>1. Len(sendq') = Len(sendq) + 1 /\ Len(sendq) \in Nat /\ Len(responses) \in Nat
    BY <1>1, <1>2, Positions, AppendProperties
  <2> QED
    BY <1>1, <2>1 DEF Current
<1>4. Mailbox' = Mailbox
  <2>1. got[sent'] = 0 /\ chan[sent'] = <<>>
    BY <1>1, <1>2 DEF InSequence
  <2>2. Mailbox'[sent'] = <<>> /\ Mailbox[sent'] = <<>>
    <3>1. Mailbox[sent'] = <<>>
      <4>1. rcv[sent'] # "open"
        BY <1>1, <1>2 DEF PromiseInv, Awaited
      <4> QED
        BY <1>2, <4>1 DEF Mailbox
    <3>2. Taken(sent', 0) \in Seq(BackMessage) /\ Len(Taken(sent', 0)) = 0
      BY <1>1, TakenType
    <3>3. Taken(sent', 0) = <<>>
      BY <3>2, EmptySeq
    <3>4. Mailbox'[sent'] = Taken(sent', got'[sent']) \o chan'[sent']
      BY <1>1, <1>2 DEF Mailbox, Taken, Part
    <3>5. <<>> \o <<>> = <<>>
      BY ConcatEmptySeq, EmptySeq
    <3> QED
      BY <1>1, <2>1, <3>1, <3>3, <3>4, <3>5
  <2>3. \A q \in Req : q # sent' => Mailbox'[q] = Mailbox[q]
    BY <1>1, <1>2 DEF Mailbox
  <2>4. Mailbox = [q \in Req |-> Mailbox[q]] /\ Mailbox' = [q \in Req |-> Mailbox'[q]]
    BY DEF Mailbox
  <2> QED
    BY <2>2, <2>3, <2>4
<1> QED
  BY <1>1, <1>3, <1>4 DEF Promise!Send

\* A request that goes from one queue to the other is answered in its turn all the same.
LEMMA AcceptCurrent ==
  ASSUME PromiseInv, WriteSingle \/ WriteBeginCopy
  PROVE  UNCHANGED Promise!vars
<1>1. /\ TypeOK /\ sendq \in Seq(Req) /\ sendq # <<>> /\ responses \in Seq(Req)
      /\ sendq' = Tail(sendq) /\ responses' = Append(responses, Head(sendq))
      /\ UNCHANGED <<sent, rcv, got, chan, pc>>
  BY DEF PromiseInv, IndInv, TypeOK, TaskTypeOK, QueueTypeOK, WriteSingle, WriteBeginCopy,
     NewRequest, clientVars
<1>2. /\ Len(sendq') = Len(sendq) - 1 /\ Len(responses') = Len(responses) + 1
      /\ Len(sendq) \in Nat /\ Len(responses) \in Nat /\ sent \in Nat
  BY <1>1, Positions, HeadTailProperties, AppendProperties
<1>3. Current' = Current
  BY <1>1, <1>2 DEF Current
<1> QED
  BY <1>1, <1>3, PromiseStutter

LEMMA PipelineStep ==
  ASSUME PromiseInv, ClosedInv, [Next]_vars
  PROVE  [Promise!Next]_(Promise!vars)
<1>1. ASSUME UNCHANGED <<sent, rcv, got, chan, sendq, responses>>,
             pc' = "dropped" <=> pc = "dropped"
      PROVE  UNCHANGED Promise!vars
  <2>1. Current' = Current
    BY <1>1 DEF Current
  <2> QED
    BY <1>1, <2>1, PromiseStutter
<1>2. CASE UNCHANGED vars \/ Terminated
  BY <1>1, <1>2 DEF Terminated, vars, clientVars, connVars
<1>3. CASE Wake \/ Read
  <2>1. CASE ReadResponse
    BY <2>1, ResponseDelivers
  <2>2. CASE Wake \/ ReadNotice \/ ReadParameter \/ ReadBlocked \/ ReadUnexpected
               \/ ReadPending \/ ReadEof \/ ReadDone
    BY <1>1, <2>2 DEF Wake, ReadNotice, ReadParameter, ReadBlocked, ReadUnexpected, ReadPending,
       ReadEof, ReadDone, Resolve, Reading, clientVars
  <2> QED
    BY <1>3, <2>1, <2>2 DEF Read
<1>4. CASE Write
  <2>1. CASE WriteSingle \/ WriteBeginCopy
    BY <2>1, AcceptCurrent
  <2>2. CASE WriteBackpressure \/ WriteCopy \/ WriteCopyFinished \/ WriteCopyPending
               \/ WritePending \/ WriteTerminate
    BY <1>1, <2>2 DEF WriteBackpressure, WriteCopy, WriteCopyFinished, WriteCopyPending,
       WritePending, WriteTerminate, Writable, Writing, Return, AfterWrite, clientVars
  <2>3. CASE WriteEof \/ WriteDone \/ Flush \/ Shutdown \/ WriteError
    BY <1>1, <2>3 DEF WriteEof, WriteDone, Flush, Shutdown, WriteError, Writable, Writing,
       Return, Resolve, AfterWrite, clientVars
  <2> QED
    BY <1>4, <2>1, <2>2, <2>3 DEF Write
<1>5. CASE DropConnection
  <2>1. /\ UNCHANGED <<sent, rcv, got, chan>> /\ pc = "done" /\ pc' = "dropped"
    BY <1>5 DEF DropConnection
  <2>2. Mailbox' = Mailbox
    BY <2>1 DEF Mailbox
  <2>3. Current' = 0
    BY <2>1 DEF Current
  <2>4. Promise!End
    BY <2>1, <2>2, <2>3 DEF Promise!End
  <2> QED
    BY <2>4 DEF Promise!Next
<1>6. CASE Client
  <2>1. ASSUME NEW copy \in BOOLEAN, Send(copy)
        PROVE  Promise!Next
    BY <2>1, SendSends DEF Promise!Next
  <2>2. ASSUME NEW r \in Req, Recv(r) \/ RecvClosed(r) \/ DropResponses(r) \/ CopyClosed(r)
        PROVE  Promise!Next \/ UNCHANGED Promise!vars
    BY <2>2, CallerSettles
  <2>3. ASSUME NEW r \in Req, CopyStart(r) \/ CopyData(r) \/ CopyFinish(r)
        PROVE  UNCHANGED Promise!vars
    BY <1>1, <2>3 DEF CopyStart, CopyData, CopyFinish, connVars
  <2>4. CASE CloseClient
    BY <1>1, <2>4 DEF CloseClient, connVars
  <2> QED
    BY <1>6, <2>1, <2>2, <2>3, <2>4 DEF Client
<1>7. CASE Serve \/ SrvAsync \/ SrvCrash
  <2>1. UNCHANGED serverFrame
    BY <1>7 DEF Serve, SrvTake, SrvChunk, SrvReady, SrvCopyStart, SrvCopyData, SrvCopySkip,
       SrvCopyEnd, SrvStrayCopy, SrvTerminate, SrvAsync, SrvCrash
  <2> QED
    BY <1>1, <2>1 DEF serverFrame, clientVars, connVars
<1>8. Next \/ UNCHANGED vars
  OBVIOUS
<1> QED
  BY <1>2, <1>3, <1>4, <1>5, <1>6, <1>7, <1>8 DEF Next, Poll

LEMMA PipelineInit == Init => Promise!Init
<1>1. SUFFICES ASSUME Init PROVE Promise!Init
  OBVIOUS
<1>2. /\ sent = 0 /\ rcv = [r \in Req |-> "unsent"] /\ pc = "read"
      /\ sendq = <<>> /\ responses = <<>>
  BY <1>1 DEF Init
<1>3. Mailbox = [r \in Req |-> <<>>]
  BY <1>2 DEF Mailbox
<1>4. Current = 1
  <2>1. Len(sendq) = 0 /\ Len(responses) = 0
    BY <1>2, EmptySeq
  <2>2. Current = 0 - 0 - 0 + 1
    BY <1>2, <2>1 DEF Current
  <2> QED
    BY <2>2
<1> QED
  BY <1>2, <1>3, <1>4 DEF Promise!Init, Promise!Req, Req

\* The task implements the promise made to its callers, Pipeline: responses reach them in
\* the order of their requests, each whole or cut short only by its caller or by the end of
\* the connection, provided the server answers every Sync it is sent once.
THEOREM ImplementsCorrect ==
  ASSUME CopyRejects = FALSE
  PROVE  Spec => ImplementsPipeline
<1>1. Init => ClosedInv
  BY DEF Init, ClosedInv, Tracked, ClosedMeansResolved
<1>2. TypeOK /\ ClosedInv /\ [Next]_vars => ClosedInv'
  BY ClosedStep
<1>3. PromiseInv /\ ClosedInv /\ [Next]_vars => [Promise!Next]_(Promise!vars)
  BY PipelineStep
<1> QED
  BY <1>1, <1>2, <1>3, PipelineInit, TypeCorrect, PromiseCorrect, PTL
  DEF Spec, ImplementsPipeline, Promise!Spec
=============================================================================
