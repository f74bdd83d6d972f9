------------------------------ MODULE Transaction ------------------------------
(***************************************************************************)
(* Transactions of tokio-postgres (transaction.rs, transaction_builder.rs) *)
(* against a server's transaction and savepoints.                          *)
(*                                                                         *)
(* A Transaction borrows its Client mutably, and a nested one its parent,  *)
(* so the live handles form a stack of which only the last can be used,    *)
(* and nothing else is sent while a call on it is pending.  Every call     *)
(* sends its request at its first poll and may be cancelled (its future    *)
(* dropped) at any later one, before or after the server has executed it;  *)
(* drops send a rollback and wait for nothing.  The connection task keeps  *)
(* requests in order (module Connection), so `wire' is one queue.          *)
(*                                                                         *)
(* Callers here leave transaction control to the API: no BEGIN or COMMIT   *)
(* of their own as SQL, and no mem::forget of a Transaction.               *)
(***************************************************************************)
EXTENDS Naturals, Sequences

CONSTANTS
  MaxRequests, \* requests sent in all
  MaxHandles,  \* Transactions created in all
  MaxWrites,   \* statements that change data
  UserNames,   \* names callers give savepoints; the default name sp_d is d
  ReuseNames   \* do callers use a name that an enclosing savepoint has

ASSUME TransactionAssumption ==
  /\ MaxRequests \in Nat \ {0}
  /\ MaxHandles \in Nat \ {0}
  /\ MaxWrites \in Nat \ {0}
  /\ UserNames \subseteq Nat \ {0}
  /\ ReuseNames \in BOOLEAN

Handle == 1..MaxHandles
Writes == 1..MaxWrites

VARIABLES
  handles,  \* the live Transactions, the outermost first
  point,    \* the savepoint of each Transaction, 0 for the outermost
  fate,     \* what became of each Transaction
  call,     \* the pending call, and its result once the server has answered
  created,  \* number of Transactions created
  requests, \* number of requests sent
  wire,     \* requests the server has not executed
  alive,    \* is the connection up
  \* the server: its transaction, savepoints, and the data changed
  tx, saves, work, durable,
  \* history: the Transactions each write was made in, its outcome, and the
  \* Transactions in which some statement failed
  under, outcome, faults

clientVars == <<handles, point, fate, call, created>>
wireVars == <<requests, wire, alive>>
serverVars == <<tx, saves, work, durable>>
history == <<under, outcome, faults>>
vars == <<clientVars, wireVars, serverVars, history>>

Live == {handles[i] : i \in 1..Len(handles)}
Current == handles[Len(handles)]
Outer == SubSeq(handles, 1, Len(handles) - 1)

\* A request: what it does, to which savepoint or write, for which Transactions.
Request(t, n) == [type |-> t, of |-> n, under |-> Live]
NoCall == [kind |-> "none", handle |-> 0, name |-> 0, answer |-> "none"]
Call(k, h, n) == [kind |-> k, handle |-> h, name |-> n, answer |-> "none"]

Init ==
  /\ handles = <<>> /\ created = 0 /\ call = NoCall
  /\ point = [h \in Handle |-> 0]
  /\ fate = [h \in Handle |-> "unused"]
  /\ requests = 0 /\ wire = <<>> /\ alive = TRUE
  /\ tx = "idle" /\ saves = <<>> /\ work = {} /\ durable = {}
  /\ under = [w \in Writes |-> {}]
  /\ outcome = [w \in Writes |-> "unused"]
  /\ faults = {}

-----------------------------------------------------------------------------
(* The client                                                              *)

\* Sending; once the connection is closed it fails and nothing is sent.
Send(q) ==
  /\ requests' = requests + 1
  /\ wire' = IF alive THEN Append(wire, q) ELSE wire
  /\ UNCHANGED alive

\* A call that waits for the answer to what it sends.
Await(c) == call' = [c EXCEPT !.answer = IF alive THEN "none" ELSE "err"]

Free == call.kind = "none"
MayCall == Free /\ requests < MaxRequests

\* TransactionBuilder::start
Start ==
  /\ MayCall /\ handles = <<>>
  /\ Send(Request("START", 0))
  /\ Await(Call("start", 0, 0))
  /\ UNCHANGED <<handles, point, fate, created, serverVars, history>>

\* RollbackIfNotDone rolls back a transaction that no Transaction will stand for.
\* (NoCleaner: a mutant without it.)
NoCleaner == UNCHANGED <<requests, wire, alive>>
Cleaner == Send(Request("ROLLBACK", 0))

\* _savepoint; the default name counts the enclosing savepoints.
DefaultName == Len(handles)
Names == {DefaultName} \cup
         {n \in UserNames : ReuseNames \/ \A h \in Live : point[h] # n}

Nest ==
  /\ MayCall /\ handles # <<>>
  /\ \E n \in Names :
       /\ Send(Request("SAVEPOINT", n))
       /\ Await(Call("savepoint", 0, n))
  /\ UNCHANGED <<handles, point, fate, created, serverVars, history>>

\* A new Transaction, once the server has agreed.
Open ==
  /\ call.kind \in {"start", "savepoint"} /\ call.answer = "ok"
  /\ created < MaxHandles
  /\ created' = created + 1
  /\ handles' = Append(handles, created')
  /\ point' = [point EXCEPT ![created'] = call.name]
  /\ fate' = [fate EXCEPT ![created'] = "live"]
  /\ call' = NoCall
  /\ UNCHANGED <<wireVars, serverVars, history>>

\* The call fails, or its future is dropped: a SAVEPOINT is left to itself.
NotOpened ==
  /\ call.kind \in {"start", "savepoint"}
  /\ call' = NoCall
  /\ IF call.kind = "start" THEN Cleaner ELSE UNCHANGED wireVars
  /\ UNCHANGED <<handles, point, fate, created, serverVars, history>>

\* Any statement that changes data; nothing is decided by its result here, so
\* its future is not followed.
Write ==
  /\ MayCall
  /\ \E w \in Writes :
       /\ \A v \in Writes : outcome[v] = "unused" <=> v >= w
       /\ Send(Request("WRITE", w))
       /\ under' = [under EXCEPT ![w] = Live]
       /\ outcome' = [outcome EXCEPT ![w] = "sent"]
  /\ UNCHANGED <<clientVars, serverVars, faults>>

\* What ends a Transaction at the server.
\* (Mutants: CommitUndoes takes back what a nested Transaction commits; RollbackAll
\* and RollbackOuter roll back too much and too little.)
CommitUndoes(h) ==
  IF point[h] = 0 THEN Request("COMMIT", 0) ELSE Request("ROLLBACK TO", point[h])
RollbackAll(h) == Request("ROLLBACK", 0)
RollbackOuter(h) ==
  IF point[h] = 0 THEN Request("ROLLBACK", 0) ELSE Request("RELEASE", point[h])

CommitRequest(h) ==
  IF point[h] = 0 THEN Request("COMMIT", 0) ELSE Request("RELEASE", point[h])
RollbackRequest(h) ==
  IF point[h] = 0 THEN Request("ROLLBACK", 0) ELSE Request("ROLLBACK TO", point[h])

Ends(h, how) ==
  /\ fate' = [fate EXCEPT ![h] = how]
  /\ handles' = Outer

Commit ==
  /\ MayCall /\ handles # <<>>
  /\ Send(CommitRequest(Current))
  /\ Await(Call("commit", Current, 0))
  /\ Ends(Current, "committing")
  /\ UNCHANGED <<point, created, serverVars, history>>

CommitDone ==
  /\ call.kind = "commit"
  /\ fate' = [fate EXCEPT ![call.handle] =
                CASE call.answer = "ok"   -> "committed"
                  [] call.answer = "err"  -> "failed"
                  [] call.answer = "none" -> "unknown"]
  /\ call' = NoCall
  /\ UNCHANGED <<handles, point, created, wireVars, serverVars, history>>

Rollback ==
  /\ MayCall /\ handles # <<>>
  /\ Send(RollbackRequest(Current))
  /\ Await(Call("rollback", Current, 0))
  /\ Ends(Current, "discarded")
  /\ UNCHANGED <<point, created, serverVars, history>>

RollbackDone ==
  /\ call.kind = "rollback"
  /\ call' = NoCall
  /\ UNCHANGED <<handles, point, fate, created, wireVars, serverVars, history>>

\* __private_api_rollback, by Drop of a Transaction, or of a commit or rollback
\* future never polled.
DropRequest(h) ==
  IF point[h] = 0 THEN Request("ROLLBACK", 0) ELSE Request("ROLLBACK TO", point[h])

Drop ==
  /\ Free /\ handles # <<>>
  /\ Send(DropRequest(Current))
  /\ Ends(Current, "discarded")
  /\ UNCHANGED <<point, call, created, serverVars, history>>

Client == Start \/ Nest \/ Open \/ NotOpened \/ Write \/ Commit \/ CommitDone
            \/ Rollback \/ RollbackDone \/ Drop

-----------------------------------------------------------------------------
(* The server                                                              *)

Incoming == Head(wire)
Matches == {i \in 1..Len(saves) : saves[i].name = Incoming.of}
Latest == CHOOSE i \in Matches : \A j \in Matches : j <= i

\* Only the last request sent can be the one a pending call waits for.
Executes(answer) ==
  /\ wire' = Tail(wire)
  /\ call' = IF call.kind # "none" /\ call.answer = "none" /\ Len(wire) = 1
             THEN [call EXCEPT !.answer = answer] ELSE call
  /\ outcome' = IF Incoming.type = "WRITE"
                THEN [outcome EXCEPT ![Incoming.of] = IF answer = "ok" THEN "ok" ELSE "failed"]
                ELSE outcome
  /\ UNCHANGED <<handles, point, fate, created, requests, alive, under>>

Arrives(type) == wire # <<>> /\ Incoming.type = type

\* START TRANSACTION inside a transaction is only warned about.
SrvStart ==
  /\ Arrives("START") /\ tx # "failed"
  /\ tx' = "open"
  /\ Executes("ok")
  /\ UNCHANGED <<saves, work, durable, faults>>

SrvWrite ==
  /\ Arrives("WRITE") /\ tx # "failed"
  /\ IF tx = "idle" THEN durable' = durable \cup {Incoming.of} /\ UNCHANGED work
                    ELSE work' = work \cup {Incoming.of} /\ UNCHANGED durable
  /\ Executes("ok")
  /\ UNCHANGED <<tx, saves, faults>>

SrvSavepoint ==
  /\ Arrives("SAVEPOINT") /\ tx = "open"
  /\ saves' = Append(saves, [name |-> Incoming.of, work |-> work])
  /\ Executes("ok")
  /\ UNCHANGED <<tx, work, durable, faults>>

\* The latest savepoint of that name goes, and those made after it.
SrvRelease ==
  /\ Arrives("RELEASE") /\ tx = "open" /\ Matches # {}
  /\ saves' = SubSeq(saves, 1, Latest - 1)
  /\ Executes("ok")
  /\ UNCHANGED <<tx, work, durable, faults>>

\* The savepoint itself stays.
SrvRollbackTo ==
  /\ Arrives("ROLLBACK TO") /\ tx # "idle" /\ Matches # {}
  /\ saves' = SubSeq(saves, 1, Latest)
  /\ work' = saves[Latest].work
  /\ tx' = "open"
  /\ Executes("ok")
  /\ UNCHANGED <<durable, faults>>

Over == tx' = "idle" /\ saves' = <<>> /\ work' = {}

\* COMMIT of a transaction in which a statement failed is a ROLLBACK, and no error.
SrvCommit ==
  /\ Arrives("COMMIT")
  /\ durable' = IF tx = "open" THEN durable \cup work ELSE durable
  /\ Over
  /\ Executes("ok")
  /\ UNCHANGED faults

SrvRollback ==
  /\ Arrives("ROLLBACK")
  /\ Over
  /\ Executes("ok")
  /\ UNCHANGED <<durable, faults>>

\* Any statement may fail, but for a rollback that finds its savepoint.
SrvFail ==
  /\ wire # <<>>
  /\ Incoming.type # "ROLLBACK" /\ (Incoming.type = "ROLLBACK TO" => Matches = {})
  /\ Incoming.type = "COMMIT" => tx = "open"
  /\ IF Incoming.type = "COMMIT" THEN Over
     ELSE /\ tx' = IF tx = "idle" THEN "idle" ELSE "failed"
          /\ UNCHANGED <<saves, work>>
  /\ faults' = faults \cup {Incoming.under}
  /\ Executes("err")
  /\ UNCHANGED durable

\* The connection is lost, and the server rolls back.
Lost ==
  /\ alive
  /\ alive' = FALSE
  /\ wire' = <<>>
  /\ call' = IF call.answer = "none" /\ call.kind # "none" THEN [call EXCEPT !.answer = "err"]
                                                           ELSE call
  /\ Over
  /\ UNCHANGED <<handles, point, fate, created, requests, durable, history>>

Server == SrvStart \/ SrvWrite \/ SrvSavepoint \/ SrvRelease \/ SrvRollbackTo
            \/ SrvCommit \/ SrvRollback \/ SrvFail \/ Lost

Next == Client \/ Server

Spec == Init /\ [][Next]_vars

-----------------------------------------------------------------------------
(* Properties                                                              *)

Outermost(h) == fate[h] # "unused" /\ point[h] = 0
Discarded(hs) == \E h \in hs : fate[h] = "discarded"

\* The changes made in h that no rollback of h or of a Transaction within it undoes.
Changes(h) == {w \in Writes : h \in under[w] /\ outcome[w] = "ok" /\ ~Discarded(under[w])}

\* Rolling back, or dropping, a Transaction at any level discards every change
\* made within it, whatever was cancelled before and whatever commits later.
RollbackDiscards == \A w \in durable : ~Discarded(under[w])

\* Data becomes durable only as one whole: the changes of an outermost Transaction
\* whose caller asked to commit it, or one statement outside of any.
AllOrNothing ==
  [][durable' # durable =>
       \/ \E h \in Handle : /\ Outermost(h) /\ fate[h] \in {"committing", "unknown"}
                            /\ durable' = durable \cup Changes(h)
       \/ \E w \in Writes : under[w] = {} /\ durable' = durable \cup {w}]_vars

\* Every statement is executed where it was issued: in no transaction when there
\* was none, and never in one left over from a cancelled or dropped Transaction.
InItsPlace ==
  [][wire # <<>> /\ alive' /\ wire' = Tail(wire) =>
       CASE Incoming.type = "START" -> tx = "idle"
         [] Incoming.type = "WRITE" -> (tx = "idle" <=> Incoming.under = {})
         [] Incoming.type \in {"SAVEPOINT", "RELEASE", "COMMIT", "ROLLBACK TO"} -> tx # "idle"
         [] OTHER -> TRUE]_vars

\* When nothing is pending and no Transaction is alive, the server is in none.
QuietIsIdle == handles = <<>> /\ Free /\ wire = <<>> => tx = "idle"

\* A commit that returns Ok has made every change durable, if no statement failed
\* outside of what was rolled back.
CommitKeeps ==
  \A h \in Handle :
    /\ Outermost(h) /\ fate[h] = "committed"
    /\ \A hs \in faults : h \in hs => Discarded(hs)
    => Changes(h) \subseteq durable
=============================================================================
