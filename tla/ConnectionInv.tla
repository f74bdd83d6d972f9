---------------------------- MODULE ConnectionInv ----------------------------
(***************************************************************************)
(* The inductive invariants behind the safety properties of Connection:    *)
(* IndInv for routing and termination, PromiseInv for what the callers are *)
(* promised, OrderInv for the asynchronous messages.                       *)
(*                                                                         *)
(* Routing by position is right because every queue between a caller and   *)
(* the server is a chain: each message starts where the one before it      *)
(* ended, the chain of responses starts at the request at the head of      *)
(* `responses' and ends where the server is, and the chain of requests     *)
(* starts where the server is and ends where the task is writing.          *)
(***************************************************************************)
EXTENDS Connection

-----------------------------------------------------------------------------
(* Chains                                                                  *)

\* The request the stream of responses is at, after the item m.
BackTo(m) == IF m.type = "Normal" /\ m.complete THEN m.req + 1 ELSE m.req

BackChain(s, b, e) ==
  /\ b <= e
  /\ s = <<>> => b = e
  /\ s # <<>> => s[1].req = b /\ BackTo(s[Len(s)]) = e
  /\ \A i \in 1..Len(s) - 1 : BackTo(s[i]) = s[i + 1].req
  /\ \A i \in 1..Len(s) : BackTo(s[i]) <= e

\* Positions in the stream of requests: 2r before request r, 2r + 1 inside a
\* copy, 2r + 2 after it.
FrontFrom(m) == IF m.type \in {"CopyData", "CopyEnd"} THEN 2 * m.req + 1 ELSE 2 * m.req
FrontTo(m) == IF m.type \in {"CopyStart", "CopyData"} THEN 2 * m.req + 1
                                                      ELSE 2 * m.req + 2

FrontChain(s, b, e) ==
  /\ b <= e
  /\ s = <<>> => b = e
  /\ s # <<>> => FrontFrom(s[1]) = b /\ FrontTo(s[Len(s)]) = e
  /\ \A i \in 1..Len(s) - 1 : FrontTo(s[i]) = FrontFrom(s[i + 1])
  /\ \A i, j \in 1..Len(s) : i < j => FrontTo(s[i]) <= FrontFrom(s[j])
  /\ \A i \in 1..Len(s) : s[i].type # "Terminate"

-----------------------------------------------------------------------------
(* The invariant                                                           *)

\* Requests the task has taken from the queue so far.
Accepted == sent - Len(sendq)

\* The oldest request whose response is not complete.
Oldest == Accepted - Len(responses) + 1

\* The queues hold consecutive requests, the newest sent at the end of sendq.
Numbered ==
  /\ \A i \in 1..Len(sendq) : sendq[i] = Accepted + i
  /\ \A i \in 1..Len(responses) : responses[i] = Accepted - Len(responses) + i

\* Has the first message of copy r been taken by the task?
Started(r) == sink[r] # "start" /\ (copyq[r] = <<>> \/ copyq[r][1] # "CopyStart")

CopyStages ==
  /\ \A r \in Req : sink[r] \in {"none", "start"} => copyq[r] = <<>>
  /\ \A r \in Req : \A i \in 2..Len(copyq[r]) : copyq[r][i] # "CopyStart"
  /\ \A r \in Req : r > Accepted /\ sink[r] # "none" => ~Started(r)
  /\ \A r \in Req : r > sent => sink[r] = "none"
  /\ pendingRequest # 0 => pendingRequest = Accepted
  /\ pendingRequest = 0 => ~copyDone

ParkedAlone ==
  \A i \in 1..Len(pendingResponses) :
    pendingResponses[i].type = "Normal" => Len(pendingResponses) = 1

WritePos == IF pendingRequest = 0 \/ copyDone THEN 2 * Accepted + 2
            ELSE IF Started(pendingRequest) THEN 2 * Accepted + 1
            ELSE 2 * Accepted

ServerPos == IF srv.mode = "idle" THEN 2 * srv.req
             ELSE IF srv.mode = "busy" THEN 2 * srv.req + 2
             ELSE 2 * srv.req + 1

\* The streams meet at the first item not parked, and at the first message not
\* handed to the socket.
BackMid == IF inbound = <<>> THEN srv.req ELSE inbound[1].req
FrontMid == IF wbuf = <<>> THEN WritePos ELSE FrontFrom(wbuf[1])

ResponsesChained ==
  /\ BackChain(pendingResponses, Oldest, BackMid)
  /\ BackChain(inbound, BackMid, srv.req)

RequestsChained ==
  srv.mode # "closed" =>
    /\ FrontChain(toServer, ServerPos, FrontMid)
    /\ FrontChain(wbuf, FrontMid, WritePos)

Live == state = "Active" /\ ~receiverClosed

\* Until it terminates or fails, the task is in step with the server.
InStep ==
  /\ Numbered
  /\ CopyStages
  /\ ParkedAlone
  /\ ResponsesChained
  /\ RequestsChained
  /\ srv.req <= Accepted + 1

\* Once it has terminated nothing but the terminate message is under way.
Terminating ==
  /\ ~open /\ srv.req = sent + 1
  /\ srv.mode # "closed" =>
       /\ srv.mode = "idle"
       /\ \A i \in 1..Len(toServer) : toServer[i].type = "Terminate"
       /\ \A i \in 1..Len(wbuf) : wbuf[i].type = "Terminate"

IndInv ==
  /\ TypeOK
  /\ Routing
  /\ receiverClosed <=> pc \in {"done", "dropped"}
  /\ Live => InStep
  /\ state = "Closing" => Terminating
-----------------------------------------------------------------------------
(* What the callers are promised.  The items under way are numbered, too:  *)
(* the batches within their response, the notices and parameter changes    *)
(* by themselves.  What is parked comes before what is on the wire.        *)

Stream == pendingResponses \o inbound

\* The number of the batch that follows m.
PartTo(m) == IF m.complete THEN 1 ELSE m.part + 1

\* From batch b to batch e; p[i] is the number expected after i items.
PartChain(s, b, e) ==
  \E p \in [0..Len(s) -> Nat] :
    /\ p[0] = b /\ p[Len(s)] = e
    /\ \A i \in 1..Len(s) :
         IF s[i].type = "Normal" THEN s[i].part = p[i - 1] /\ p[i] = PartTo(s[i])
                                 ELSE p[i] = p[i - 1]

\* From the b-th asynchronous message to the e-th.
AsyncChain(s, b, e) ==
  \E p \in [0..Len(s) -> Nat] :
    /\ p[0] = b /\ p[Len(s)] = e
    /\ \A i \in 1..Len(s) :
         IF s[i].type = "Normal" THEN p[i] = p[i - 1]
                                 ELSE s[i].part = p[i - 1] + 1 /\ p[i] = s[i].part

\* The inductive invariant behind AsyncInOrder, whatever the server refuses.
OrderInv ==
  /\ ParkedAlone
  /\ pc # "dropped" => AsyncChain(Stream, handled, asyncs)

\* The batch that the caller of r has not been handed yet.
NextPart(r) == got[r] + Len(chan[r]) + 1

\* The stream goes on where the caller at the head of `responses' is, if it still
\* reads; nothing has been delivered behind it.
InSequence ==
  /\ \E n \in Nat :
       /\ PartChain(Stream, n, srv.part)
       /\ responses = <<>> => n = 1
       /\ responses # <<>> /\ rcv[Head(responses)] = "open" => n = NextPart(Head(responses))
  /\ \A r \in Req : r > Accepted \/ r > Oldest => got[r] = 0 /\ chan[r] = <<>>
  /\ \A r \in Req : r >= Oldest => \A i \in 1..Len(chan[r]) : ~chan[r][i].complete
  /\ srv.mode = "idle" => srv.part = 1

\* A channel holds batches, none behind the last of its response.
Delivered ==
  \A r \in Req : \A i \in 1..Len(chan[r]) :
    chan[r][i].type = "Normal" /\ (chan[r][i].complete => i = Len(chan[r]))

\* A copy under way is being waited for, and a request that is not sent is not.
Awaited ==
  /\ \A r \in Req : sink[r] \in {"start", "await", "data"} => rcv[r] = "open"
  /\ \A r \in Req : r > sent => rcv[r] = "unsent"

\* The inductive invariant behind GapFree and the refinement of Pipeline.
PromiseInv ==
  /\ IndInv
  /\ GapFree
  /\ Delivered
  /\ Awaited
  /\ Live => InSequence
=============================================================================
