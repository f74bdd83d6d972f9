------------------------------ MODULE Pipeline ------------------------------
(***************************************************************************)
(* What the connection task promises the callers that pipeline requests    *)
(* through it.  Requests are answered strictly in the order they were      *)
(* sent.  A caller receives consecutive batches of the response to its own *)
(* request; it is finished only with the last of them, and is told the     *)
(* connection is closed only when it is over.                              *)
(***************************************************************************)
EXTENDS Naturals, Sequences

CONSTANT MaxRequests

Req == 1..MaxRequests

VARIABLES
  sent,     \* number of requests sent
  status,   \* of each request: unsent, open, finished, closed or dropped
  mailbox,  \* the batches handed to the caller of an open request
  current,  \* the request being answered
  over      \* is the connection gone

vars == <<sent, status, mailbox, current, over>>

Batch(r, n, last) == [type |-> "Normal", req |-> r, part |-> n, complete |-> last]

Init ==
  /\ sent = 0
  /\ status = [r \in Req |-> "unsent"]
  /\ mailbox = [r \in Req |-> <<>>]
  /\ current = 1
  /\ over = FALSE

Send ==
  /\ ~over /\ sent < MaxRequests
  /\ sent' = sent + 1
  /\ status' = [status EXCEPT ![sent'] = "open"]
  /\ UNCHANGED <<mailbox, current, over>>

\* The next batch of the response being answered reaches its caller.
Deliver(last) ==
  /\ current \in 1..sent /\ status[current] = "open"
  /\ mailbox' = [mailbox EXCEPT ![current] =
                   Append(@, Batch(current, Len(@) + 1, last))]
  /\ current' = IF last THEN current + 1 ELSE current
  /\ UNCHANGED <<sent, status, over>>

\* The last batch of a response nobody waits for any more is discarded.
Discard ==
  /\ current \in 1..sent /\ status[current] # "open"
  /\ current' = current + 1
  /\ UNCHANGED <<sent, status, mailbox, over>>

Settle(r, how) ==
  /\ status[r] = "open"
  /\ CASE how = "finished" -> mailbox[r] # <<>> /\ mailbox[r][Len(mailbox[r])].complete
       [] how = "closed"   -> over
       [] how = "dropped"  -> TRUE
  /\ status' = [status EXCEPT ![r] = how]
  /\ mailbox' = [mailbox EXCEPT ![r] = <<>>]
  /\ UNCHANGED <<sent, current, over>>

End ==
  /\ ~over
  /\ over' = TRUE
  /\ current' = 0
  /\ UNCHANGED <<sent, status, mailbox>>

Next ==
  \/ Send \/ Discard \/ End
  \/ \E last \in BOOLEAN : Deliver(last)
  \/ \E r \in Req, how \in {"finished", "closed", "dropped"} : Settle(r, how)

Spec == Init /\ [][Next]_vars
=============================================================================
