---------------------------- MODULE MCConnection ----------------------------
(* Instances of Connection for TLC, and the step from Connection to the    *)
(* promise made to callers, Pipeline.                                      *)
EXTENDS ConnectionInv

-----------------------------------------------------------------------------
\* What a caller has been handed of its response, taken or still in the channel.
Mailbox ==
  [r \in Req |->
     IF rcv[r] = "open" THEN [i \in 1..got[r] |-> Chunk(r, i, FALSE)] \o chan[r]
                        ELSE <<>>]

\* The request the next batch off the wire is for.
Current == IF pc = "dropped" THEN 0 ELSE sent - Len(sendq) - Len(responses) + 1

Promise == INSTANCE Pipeline
             WITH mailbox <- Mailbox, status <- rcv, current <- Current,
                  over <- (pc = "dropped")

\* The task implements the promise: responses reach the callers in the order of
\* their requests, each whole or cut short only by its caller or by the end of
\* the connection.
ImplementsPipeline == Promise!Spec
=============================================================================
