---------------------------- MODULE StatementsProofs ----------------------------
(***************************************************************************)
(* Proofs about Statements, for any number of callers and calls and any    *)
(* types: no Close overtakes the query that runs its statement, no         *)
(* statement is forgotten, and what stands before an answer is being read. *)
(***************************************************************************)
EXTENDS Statements, SequenceTheorems, FiniteSetTheorems, TLAPS

-----------------------------------------------------------------------------
(* The stack of nested calls                                               *)

\* What a frame may be by itself: an answer is counted until it has been taken, and
\* the types to look up come with it.
FrameOK(f) ==
  /\ f \in Frame
  /\ f.fn \in {"prepare", "typed"} => f.at \in {"sent", "answered"}
  /\ f.fn \in {"prepare", "lookup", "detail"} \/ f.slot = "user"
  /\ f.fn \in {"lookup", "detail"} => f.slot \in Slots
  /\ f.fn = "lookup" => f.slot = "info" /\ f.oid \in Oids
  /\ f.fn \in {"query", "typed"} => f.at # "start"
  /\ f.ans = "none" => f.buf = 0 /\ ~f.whole
  /\ f.at = "sent" /\ f.ans # "none" => f.buf > 0
  /\ f.at \in {"start", "holding"} => f.ans = "none"
  /\ f.at = "answered" => f.ans = "ok"
  /\ f.todo # <<>> => f.at = "answered" /\ f.fn \in {"prepare", "lookup", "typed"}
  /\ f.fn = "prepare" /\ f.slot # "user" => f.todo = <<>>
  /\ f.fn = "typed" /\ TypedColumns \subseteq {<<>>} => f.todo = <<>>

\* What the innermost call of a caller may be, where no other is around it.
Outermost(f) ==
  /\ f.fn \in {"prepare", "query", "typed"}
  /\ f.fn = "prepare" => f.slot = "user"

\* g is called by f.
Nested(f, g) ==
  \/ f.at = "start" /\ g.fn = "prepare" /\ g.slot \in Slots
  \/ f.at = "answered" /\ f.todo # <<>> /\ g.fn = "lookup"
  \/ f.at = "answered" /\ f.fn = "lookup" /\ g.fn = "detail"

StackOK(s) ==
  /\ s \in Seq(Frame)
  /\ \A i \in 1..Len(s) : FrameOK(s[i])
  /\ s # <<>> => Outermost(s[1])
  /\ \A i \in 1..Len(s) - 1 : Nested(s[i], s[i + 1])

-----------------------------------------------------------------------------
(* Requests and responses                                                  *)

Owner == {None} \cup (Callers \X Nat)
WireRequest == [op : {"parse", "run", "typed", "close"}, slot : Slots \cup {"user"}, name : Nat,
                owner : Owner]
Response == [owner : Callers \X Nat, ans : {"ok", "undefined", "error"}, left : Nat \ {0}]

\* The frame f waits for the answer to q.
Asks(f, q) ==
  /\ f.at = "sent" /\ f.ans = "none"
  /\ (q.op = "parse") <=> (f.fn = "prepare")
  /\ f.fn = "prepare" => q.name = f.name
  /\ f.fn = "lookup" => q.op = "run" /\ q.slot = "info"
  /\ q.op = "close" => FALSE

\* What is left of an answer fits the channel but for what the frame has taken.
Used(f) == IF f.at = "answered" THEN f.buf + 1 ELSE f.buf
Bounded(f, left) ==
  /\ f.fn = "prepare" => left + Used(f) <= 2
  /\ f.fn = "lookup" => left + Used(f) <= 3

Owning ==
  /\ \A i \in 1..Len(sendq) : \A c \in Callers, d \in Nat : sendq[i].owner = <<c, d>> =>
       d \in 1..Depth(c) /\ Asks(stack[c][d], sendq[i])
  /\ \A i, j \in 1..Len(sendq) : i # j /\ sendq[i].owner # None => sendq[i].owner # sendq[j].owner
  /\ Len(flight) <= 1
  /\ \A c \in Callers, d \in Nat : flight # <<>> /\ Head(flight).owner = <<c, d>> =>
       /\ d \in 1..Depth(c) /\ stack[c][d].at \in {"sent", "answered"}
       /\ Bounded(stack[c][d], Head(flight).left)
       /\ \A i \in 1..Len(sendq) : sendq[i].owner # <<c, d>>

-----------------------------------------------------------------------------
(* Names                                                                   *)

\* The frame i of caller c prepares n.
Prepares(c, i, n) == i \in 1..Depth(c) /\ stack[c][i].fn = "prepare" /\ stack[c][i].name = n
ToClose(n) == \E i \in 1..Len(sendq) : sendq[i].op = "close" /\ sendq[i].name = n

Naming ==
  /\ live \subseteq names
  /\ \A n \in live \cup names : n < nextName
  /\ \A n \in live : ~ToClose(n)
  /\ \A c \in Callers, i \in Nat, n \in Nat : Prepares(c, i, n) =>
       /\ n < nextName /\ n \notin live /\ ~ToClose(n)
       /\ stack[c][i].ans = "ok" => n \in names
       /\ \A k \in Callers, j \in Nat : Prepares(k, j, n) => k = c /\ j = i
  /\ \A i \in 1..Len(sendq) : sendq[i].op \in {"parse", "close"} => sendq[i].name < nextName
  /\ \A c \in Callers, d \in Nat :
       /\ flight # <<>> /\ Head(flight).owner = <<c, d>> /\ Head(flight).ans = "ok"
       /\ stack[c][d].fn = "prepare"
       => stack[c][d].name \in names

\* What is held is live: a frame that has got hold of its statement keeps it.
Holding ==
  /\ \A c \in Callers : owned[c] \subseteq live
  /\ \A s \in Slots : slots[s] # 0 => slots[s] \in live
  /\ \A c \in Callers : \A i \in 1..Depth(c) :
       stack[c][i].fn \in {"query", "lookup", "detail"} /\ stack[c][i].at # "start" =>
         stack[c][i].name \in live

Accounted ==
  /\ \A n \in names : \/ n \in live \/ n \in abandoned \/ ToClose(n)
                      \/ \E c \in Callers, i \in Nat : Prepares(c, i, n)
  /\ \A i \in 1..Len(sendq) : sendq[i].op = "parse" /\ sendq[i].owner = None =>
       sendq[i].name \in abandoned

TypeOK ==
  /\ stack \in [Callers -> Seq(Frame)]
  /\ \A c \in Callers : StackOK(stack[c])
  /\ owned \in [Callers -> SUBSET Nat]
  /\ slots \in [Slots -> Nat]
  /\ live \subseteq Nat /\ names \subseteq Nat
  /\ nextName \in Nat \ {0}
  /\ sendq \in Seq(WireRequest)
  /\ flight \in Seq(Response)

StatementsInv ==
  TypeOK /\ Owning /\ Naming /\ Holding /\ Accounted /\ RunFindsStatement

-----------------------------------------------------------------------------
(* What a step of a caller does to the queue                               *)

\* Every element of a finite set is in each of its orders.
LEMMA OrdersFacts ==
  ASSUME NEW S, IsFiniteSet(S), NEW q \in Orders(S)
  PROVE  /\ Cardinality(S) \in Nat /\ q \in [1..Cardinality(S) -> S]
         /\ \A x \in S : \E i \in 1..Cardinality(S) : q[i] = x
<1> DEFINE n == Cardinality(S)
<1>1. n \in Nat
  BY FS_CardinalityType
<1>2. q \in [1..n -> S] /\ DOMAIN q = 1..n /\ \A i, j \in DOMAIN q : q[i] = q[j] => i = j
  BY DEF Orders
<1>3. q \in Injection(1..n, S)
  BY <1>2 DEF Injection, IsInjective
<1>4. Cardinality(1..n) = n
  BY <1>1, FS_Interval, SMT
<1>5. q \in Surjection(1..n, S)
  BY <1>3, <1>4, FS_Injection
<1> QED BY <1>1, <1>2, <1>5 DEF Surjection

\* What becomes of the owner of a request: its frame is there, or it is given up.
OwnerStep(r, q) ==
  /\ r.op = q.op /\ r.slot = q.slot /\ r.name = q.name
  /\ q.owner = None => r.owner = None
  /\ \A c \in Callers, d \in Nat : q.owner = <<c, d>> =>
       \/ r.owner = <<c, d>> /\ d <= Len(stack'[c])
       \/ r.owner = None /\ ~(d <= Len(stack'[c]))

LEMMA DisownFacts ==
  ASSUME NEW q \in Seq(WireRequest), \A c \in Callers : Len(stack'[c]) \in Nat
  PROVE  /\ Disown(q) \in Seq(WireRequest) /\ Len(Disown(q)) = Len(q)
         /\ \A i \in 1..Len(q) : OwnerStep(Disown(q)[i], q[i])
<1> DEFINE Lost(m) == m.owner # None /\ m.owner[2] > Len(stack'[m.owner[1]])
           After(m) == IF Lost(m) THEN [m EXCEPT !.owner = None] ELSE m
<1>1. ASSUME NEW m \in WireRequest PROVE After(m) \in WireRequest /\ OwnerStep(After(m), m)
  <2>1. /\ m.owner = None \/ m.owner \in Callers \X Nat
        /\ [m EXCEPT !.owner = None] \in WireRequest
    BY <1>1 DEF WireRequest, Owner
  <2>2. \A c \in Callers, d \in Nat : <<c, d>> # None
    BY DEF None
  <2>3. CASE m.owner = None
    BY <2>1, <2>2, <2>3 DEF OwnerStep
  <2>4. CASE m.owner \in Callers \X Nat
    <3>1. PICK c \in Callers, d \in Nat : m.owner = <<c, d>>
      BY <2>4
    <3>2. Lost(m) <=> ~(d <= Len(stack'[c]))
      <4>1. m.owner # None /\ m.owner[1] = c /\ m.owner[2] = d
        BY <3>1, <2>2
      <4>2. Len(stack'[c]) \in Nat
        OBVIOUS
      <4>3. d > Len(stack'[c]) <=> ~(d <= Len(stack'[c]))
        BY <4>2
      <4> QED BY <4>1, <4>3
    <3>3. CASE Lost(m)
      <4>1. /\ After(m) \in WireRequest /\ After(m).owner = None
            /\ After(m).op = m.op /\ After(m).slot = m.slot /\ After(m).name = m.name
        BY <1>1, <2>1, <3>3 DEF WireRequest
      <4> QED BY <3>1, <3>2, <3>3, <4>1 DEF OwnerStep
    <3>4. CASE ~Lost(m)
      BY <1>1, <2>2, <3>1, <3>2, <3>4 DEF OwnerStep
    <3> QED BY <3>3, <3>4
  <2> QED BY <2>1, <2>3, <2>4
<1>2. Len(q) \in Nat /\ DOMAIN q = 1..Len(q) /\ \A i \in 1..Len(q) : q[i] \in WireRequest
  BY LenProperties, ElementOfSeq
<1>3. Disown(q) = [i \in 1..Len(q) |-> After(q[i])]
  BY <1>2 DEF Disown
<1>4. \A i \in 1..Len(q) : After(q[i]) \in WireRequest /\ OwnerStep(After(q[i]), q[i])
  BY <1>1, <1>2
<1> HIDE DEF After
<1>5. [i \in 1..Len(q) |-> After(q[i])] \in Seq(WireRequest)
  BY <1>2, <1>4, IsASeq
<1>6. Len([i \in 1..Len(q) |-> After(q[i])]) = Len(q)
  BY <1>2
<1> QED BY <1>3, <1>4, <1>5, <1>6

\* Closes for all that is gone, k of them, between what was queued and what is sent.
QueueStep(k, gone, sent) ==
  /\ sendq' \in Seq(WireRequest)
  /\ Len(sendq') = Len(sendq) + k + Len(sent)
  /\ \A i \in 1..Len(sendq) : OwnerStep(sendq'[i], sendq[i])
  /\ \A i \in 1..k : \E n \in gone : sendq'[Len(sendq) + i] = Close(n)
  /\ \A n \in gone : \E i \in 1..k : sendq'[Len(sendq) + i] = Close(n)
  /\ \A i \in 1..Len(sent) : sendq'[Len(sendq) + k + i] = sent[i]

LEMMA Settled ==
  ASSUME sendq \in Seq(WireRequest), \A c \in Callers : Len(stack'[c]) \in Nat,
         NEW created \in SUBSET Nat, IsFiniteSet(live \cup created), live \in SUBSET Nat,
         NEW sent \in Seq(WireRequest), Settle(created, sent)
  PROVE  \E k \in Nat : QueueStep(k, (live \cup created) \ Held', sent)
<1>1. PICK gone \in SUBSET Nat : gone = (live \cup created) \ Held'
  OBVIOUS
<1>2. IsFiniteSet(gone)
  BY <1>1, FS_Subset
<1>3. PICK closes \in Closes(gone) : sendq' = Disown(sendq) \o closes \o sent
  BY <1>1 DEF Settle
<1>4. PICK q \in Orders(gone) : closes = [i \in DOMAIN q |-> Close(q[i])]
  BY <1>3 DEF Closes
<1>5. PICK k \in Nat : /\ q \in [1..k -> gone] /\ \A x \in gone : \E i \in 1..k : q[i] = x
  BY <1>2, OrdersFacts
<1>6. closes = [i \in 1..k |-> Close(q[i])]
  BY <1>4, <1>5
<1>7. \A i \in 1..k : Close(q[i]) \in WireRequest /\ q[i] \in gone
  <2>1. \A n \in Nat : Close(n) \in WireRequest
    BY DEF Close, Request, WireRequest, Owner
  <2> QED BY <1>5, <2>1
<1>8. closes \in Seq(WireRequest) /\ Len(closes) = k /\ \A i \in 1..k : closes[i] = Close(q[i])
  <2>1. [i \in 1..k |-> Close(q[i])] \in Seq(WireRequest)
    BY <1>7, IsASeq
  <2> QED BY <1>6, <2>1
<1>9. PICK old \in Seq(WireRequest) :
        /\ old = Disown(sendq) /\ Len(old) = Len(sendq)
        /\ \A i \in 1..Len(sendq) : OwnerStep(old[i], sendq[i])
  BY DisownFacts
<1>10. PICK m \in Nat : m = Len(sendq)
  BY LenProperties
<1>11. /\ old \o closes \in Seq(WireRequest) /\ Len(old \o closes) = m + k
       /\ \A i \in 1..m + k : (old \o closes)[i] = IF i <= m THEN old[i] ELSE closes[i - m]
  <2>1. Len(old) = m /\ Len(closes) = k
    BY <1>8, <1>9, <1>10
  <2>2. /\ old \o closes \in Seq(WireRequest) /\ Len(old \o closes) = Len(old) + Len(closes)
        /\ \A i \in 1..Len(old) + Len(closes) :
             (old \o closes)[i] = IF i <= Len(old) THEN old[i] ELSE closes[i - Len(old)]
    BY <1>8, ConcatProperties
  <2> QED BY <2>1, <2>2
<1>12. Len(sent) \in Nat
  BY LenProperties
<1>13. /\ sendq' \in Seq(WireRequest) /\ Len(sendq') = m + k + Len(sent)
       /\ \A i \in 1..m + k + Len(sent) : sendq'[i] = IF i <= m + k THEN (old \o closes)[i]
                                                      ELSE sent[i - (m + k)]
  BY <1>3, <1>9, <1>11, ConcatProperties
<1>14. \A i \in 1..m : sendq'[i] = old[i]
  <2>1. \A i \in 1..m : i \in 1..m + k /\ i \in 1..m + k + Len(sent) /\ i <= m /\ i <= m + k
    BY <1>10, <1>12, SMT
  <2> QED BY <1>11, <1>13, <2>1
<1>15. \A i \in 1..k : sendq'[m + i] = Close(q[i])
  <2>1. \A i \in 1..k : /\ m + i \in 1..m + k /\ m + i \in 1..m + k + Len(sent)
                        /\ ~(m + i <= m) /\ m + i <= m + k /\ (m + i) - m = i
    BY <1>10, <1>12, SMT
  <2>2. \A i \in 1..k : (old \o closes)[m + i] = closes[i]
    BY <1>11, <2>1
  <2>3. \A i \in 1..k : sendq'[m + i] = (old \o closes)[m + i]
    BY <1>13, <2>1
  <2> QED BY <1>8, <2>2, <2>3
<1>16. \A i \in 1..Len(sent) : sendq'[m + k + i] = sent[i]
  <2>1. \A i \in 1..Len(sent) : /\ m + k + i \in 1..m + k + Len(sent)
                                /\ ~(m + k + i <= m + k) /\ (m + k + i) - (m + k) = i
    BY <1>10, <1>12, SMT
  <2> QED BY <1>13, <2>1
<1>17. QueueStep(k, gone, sent)
  <2>1. \A i \in 1..Len(sendq) : OwnerStep(sendq'[i], sendq[i])
    BY <1>9, <1>10, <1>14
  <2>2. \A i \in 1..k : \E n \in gone : sendq'[Len(sendq) + i] = Close(n)
    BY <1>7, <1>10, <1>15
  <2>3. \A n \in gone : \E i \in 1..k : sendq'[Len(sendq) + i] = Close(n)
    BY <1>5, <1>10, <1>15
  <2>4. \A i \in 1..Len(sent) : sendq'[Len(sendq) + k + i] = sent[i]
    BY <1>10, <1>16
  <2>5. sendq' \in Seq(WireRequest) /\ Len(sendq') = Len(sendq) + k + Len(sent)
    BY <1>10, <1>13
  <2> QED BY <2>1, <2>2, <2>3, <2>4, <2>5 DEF QueueStep
<1> QED BY <1>1, <1>17

LEMMA ZeroOne == ASSUME NEW n \in Nat, n <= 1 PROVE n \in {0, 1}
OBVIOUS

\* Each request in the queue was there, closes what is gone, or has just been sent.
QueueFacts(gone, sent) ==
  /\ \A i \in 1..Len(sendq') :
       \/ i \in 1..Len(sendq) /\ OwnerStep(sendq'[i], sendq[i])
       \/ \E n \in gone : sendq'[i] = Close(n)
       \/ Len(sent) = 1 /\ i = Len(sendq') /\ sendq'[i] = sent[1]
  /\ \A i \in 1..Len(sendq) : i \in 1..Len(sendq') /\ OwnerStep(sendq'[i], sendq[i])
  /\ \A n \in gone : \E i \in 1..Len(sendq') : sendq'[i] = Close(n)

LEMMA Queued ==
  ASSUME sendq \in Seq(WireRequest), NEW k \in Nat, NEW gone \in SUBSET Nat,
         NEW sent \in Seq(WireRequest), Len(sent) <= 1, QueueStep(k, gone, sent)
  PROVE  QueueFacts(gone, sent)
<1>1. Len(sendq) \in Nat /\ Len(sent) \in {0, 1} /\ Len(sendq') = Len(sendq) + k + Len(sent)
  <2>1. Len(sendq) \in Nat /\ Len(sent) \in Nat
    BY LenProperties
  <2>2. Len(sent) \in {0, 1}
    BY <2>1, ZeroOne
  <2> QED BY <2>1, <2>2 DEF QueueStep
<1>2. ASSUME NEW i \in 1..Len(sendq')
      PROVE  \/ i \in 1..Len(sendq) /\ OwnerStep(sendq'[i], sendq[i])
             \/ \E n \in gone : sendq'[i] = Close(n)
             \/ Len(sent) = 1 /\ i = Len(sendq') /\ sendq'[i] = sent[1]
  <2>1. CASE i \in 1..Len(sendq)
    BY <2>1 DEF QueueStep
  <2>2. CASE i - Len(sendq) \in 1..k
    <3>1. PICK j \in 1..k : j = i - Len(sendq)
      BY <2>2
    <3>2. i = Len(sendq) + j
      BY <1>1, <1>2, <3>1, SMT
    <3>3. \E n \in gone : sendq'[Len(sendq) + j] = Close(n)
      BY DEF QueueStep
    <3> QED BY <3>2, <3>3
  <2>3. CASE Len(sent) = 1 /\ i = Len(sendq')
    <3>1. 1 \in 1..Len(sent)
      BY <2>3
    <3>2. i = Len(sendq) + k + 1
      BY <1>1, <2>3
    <3>3. sendq'[Len(sendq) + k + 1] = sent[1]
      BY <3>1 DEF QueueStep
    <3> QED BY <2>3, <3>2, <3>3
  <2>4. \/ i \in 1..Len(sendq) \/ i - Len(sendq) \in 1..k
        \/ Len(sent) = 1 /\ i = Len(sendq')
    BY <1>1, <1>2, SMT
  <2> QED BY <2>1, <2>2, <2>3, <2>4
<1>3. \A i \in 1..Len(sendq) : i \in 1..Len(sendq')
  BY <1>1, SMT
<1>4. ASSUME NEW n \in gone PROVE \E i \in 1..Len(sendq') : sendq'[i] = Close(n)
  <2>1. PICK j \in 1..k : sendq'[Len(sendq) + j] = Close(n)
    BY <1>4 DEF QueueStep
  <2>2. Len(sendq) + j \in 1..Len(sendq')
    BY <1>1, SMT
  <2> QED BY <2>1, <2>2
<1>5. \A i \in 1..Len(sendq) : OwnerStep(sendq'[i], sendq[i])
  BY DEF QueueStep
<1> QED BY <1>2, <1>3, <1>4, <1>5 DEF QueueFacts

-----------------------------------------------------------------------------
(* What a step of a caller does to its stack                               *)

\* The frame f has become g: its answer is as it was, and one not yet come is awaited.
Same(f, g) ==
  /\ g.fn = f.fn /\ g.slot = f.slot /\ g.ans = f.ans
  /\ f.fn = "prepare" => g.name = f.name
  /\ f.at = "sent" /\ f.ans = "none" => g = f
  /\ f.at \in {"sent", "answered"} => g.at \in {"sent", "answered"} /\ Used(g) <= Used(f)

\* What is created is what the innermost call prepared, which ends.
Creates(c, s, created) ==
  created = {} \/ \E n \in Nat : /\ created = {n} /\ Prepares(c, Depth(c), n)
                                 /\ Top(c).at = "answered" /\ Len(s) < Depth(c)

\* What is sent is what the innermost call then waits for.
Sends(c, s, sent) ==
  \/ sent = <<>>
  \/ \E q \in WireRequest :
       /\ sent = <<q>> /\ s # <<>> /\ q.owner = <<c, Len(s)>> /\ Asks(s[Len(s)], q)
       /\ Len(s) <= Depth(c) => stack[c][Len(s)].at \notin {"sent", "answered"}
       /\ q.op = "run" => s[Len(s)].fn \in {"query", "lookup", "detail"} /\ q.name = s[Len(s)].name

\* The stack of c becomes s.
Moves(c, s, created, sent) ==
  /\ stack' = [stack EXCEPT ![c] = s] /\ StackOK(s)
  /\ Len(s) <= Depth(c) + 1
  /\ nextName' \in {nextName, nextName + 1}
  /\ \A i \in 1..Len(s) : i <= Depth(c) => Same(stack[c][i], s[i])
  /\ Len(s) > Depth(c) /\ s[Len(s)].fn = "prepare" =>
       s[Len(s)].name = nextName /\ nextName' = nextName + 1 /\ s[Len(s)].ans = "none"
  /\ Creates(c, s, created) /\ Sends(c, s, sent)
  /\ \A i \in 1..Len(s) : s[i].fn \in {"query", "lookup", "detail"} /\ s[i].at # "start" =>
       s[i].name \in live \cup created
  /\ owned' \in [Callers -> SUBSET Nat] /\ slots' \in [Slots -> Nat]
  /\ \A k \in Callers : owned'[k] \subseteq live \cup created
  /\ \A t \in Slots : slots'[t] # 0 => slots'[t] \in live \cup created
  /\ abandoned \subseteq abandoned'
  /\ \A i \in 1..Depth(c) : i > Len(s) /\ stack[c][i].fn = "prepare" =>
       \/ stack[c][i].name \in abandoned'
       \/ stack[c][i].at = "answered" /\ created = {stack[c][i].name}

LEMMA HeldNext ==
  /\ \A c \in Callers : owned'[c] \subseteq Held'
  /\ \A s \in Slots : slots'[s] \in Held'
  /\ \A c \in Callers : \A i \in 1..Len(stack'[c]) :
       stack'[c][i].fn # "prepare" => stack'[c][i].name \in Held'
<1>1. \A c \in Callers : owned'[c] \subseteq Held'
  BY DEF Held, Owned
<1>2. \A s \in Slots : slots'[s] \in Held'
  BY DEF Held, Cached
<1>3. ASSUME NEW c \in Callers, NEW i \in 1..Len(stack'[c]), stack'[c][i].fn # "prepare"
      PROVE  stack'[c][i].name \in Held'
  <2>1. stack'[c][i] \in {g \in Frames(c)' : g.fn # "prepare"}
    BY <1>3 DEF Frames, Depth
  <2>2. stack'[c][i].name \in Running'
    BY <2>1 DEF Running
  <2> QED BY <2>2 DEF Held
<1> QED BY <1>1, <1>2, <1>3

\* What a step of c leaves of the stacks, for the lemmas below.
StackFacts(c, s) ==
  /\ stack'[c] = s
  /\ \A k \in Callers : /\ k # c => stack'[k] = stack[k]
                        /\ Len(stack'[k]) \in Nat /\ Depth(k) \in Nat
  /\ \A k \in Callers, i \in Nat : i \in 1..Depth(k) /\ i <= Len(stack'[k]) =>
       Same(stack[k][i], stack'[k][i])
  /\ \A k \in Callers, i \in Nat : i \in 1..Depth(k) /\ ~(i <= Len(stack'[k])) => k = c

\* The frames of a stack, and those of the kinds that hold a statement.
LEMMA FrameIn ==
  ASSUME TypeOK, NEW k \in Callers, NEW i \in 1..Depth(k)
  PROVE  FrameOK(stack[k][i]) /\ stack[k][i] \in Frame
BY DEF TypeOK, StackOK, Depth, FrameOK

LEMMA SameSelf ==
  ASSUME NEW f \in Frame
  PROVE  Same(f, f)
<1>1. f.buf \in Nat
  BY StatementsAssumption DEF Frame
<1>2. Used(f) \in Nat
  BY <1>1 DEF Used
<1> QED BY <1>2 DEF Same

LEMMA Moved ==
  ASSUME TypeOK, NEW c \in Callers, NEW s, NEW created, NEW sent, Moves(c, s, created, sent)
  PROVE  StackFacts(c, s)
<1>1. stack'[c] = s /\ \A k \in Callers : k # c => stack'[k] = stack[k]
  BY DEF TypeOK, Moves
<1>2. ASSUME NEW k \in Callers PROVE Len(stack'[k]) \in Nat /\ Depth(k) \in Nat
  <2>1. stack[k] \in Seq(Frame) /\ s \in Seq(Frame)
    BY DEF TypeOK, Moves, StackOK
  <2> QED BY <1>1, <2>1, LenProperties DEF Depth
<1>3. ASSUME NEW k \in Callers, NEW i \in Nat, i \in 1..Depth(k), i <= Len(stack'[k])
      PROVE  Same(stack[k][i], stack'[k][i])
  <2>1. CASE k = c
    <3>1. i \in 1..Len(s)
      BY <1>1, <1>2, <1>3, <2>1, SMT
    <3>2. i <= Depth(c)
      BY <1>2, <1>3, <2>1, SMT
    <3> QED BY <1>1, <2>1, <3>1, <3>2 DEF Moves
  <2>2. CASE k # c
    BY <1>1, <1>3, <2>2, FrameIn, SameSelf
  <2> QED BY <2>1, <2>2
<1>4. ASSUME NEW k \in Callers, NEW i \in Nat, i \in 1..Depth(k), ~(i <= Len(stack'[k])) PROVE k = c
  <2>1. SUFFICES ASSUME k # c PROVE FALSE
    OBVIOUS
  <2>2. Len(stack'[k]) = Depth(k)
    BY <1>1, <2>1 DEF Depth
  <2> QED BY <1>2, <1>4, <2>2, SMT
<1> QED BY <1>1, <1>2, <1>3, <1>4 DEF StackFacts

\* What it leaves of the queue, and of what is in flight.
SettleFacts(created, sent) ==
  /\ created \in SUBSET Nat /\ sent \in Seq(WireRequest) /\ Len(sent) <= 1
  /\ live' = (live \cup created) \cap Held' /\ names' = names
  /\ flight' \in Seq(Response) /\ flight' \in {flight, <<>>}
  /\ \A k \in Callers, d \in Nat : flight' # <<>> /\ Head(flight).owner = <<k, d>> =>
       d <= Len(stack'[k])
  /\ sendq' \in Seq(WireRequest)
  /\ QueueFacts((live \cup created) \ Held', sent)

LEMMA MovedSettled ==
  ASSUME StatementsInv, NEW c \in Callers, NEW s, NEW created, NEW sent,
         Moves(c, s, created, sent), Settle(created, sent)
  PROVE  SettleFacts(created, sent)
<1>1. TypeOK /\ Naming /\ StackFacts(c, s)
  BY Moved DEF StatementsInv
<1>2. created \in SUBSET Nat /\ \A n \in created : n < nextName
  <2>1. CASE created = {}
    BY <2>1
  <2>2. CASE created # {}
    <3>1. PICK n \in Nat : created = {n} /\ Prepares(c, Depth(c), n)
      BY <2>2 DEF Moves, Creates
    <3>2. Depth(c) \in Nat
      BY <1>1 DEF StackFacts
    <3> QED BY <1>1, <3>1, <3>2 DEF Naming
  <2> QED BY <2>1, <2>2
<1>3. sent \in Seq(WireRequest) /\ Len(sent) <= 1
  <2>1. CASE sent = <<>>
    BY <2>1
  <2>2. CASE sent # <<>>
    <3>1. PICK q \in WireRequest : sent = <<q>>
      BY <2>2 DEF Moves, Sends
    <3> QED BY <3>1
  <2> QED BY <2>1, <2>2
<1>4. IsFiniteSet(live \cup created)
  <2>1. live \cup created \in SUBSET Nat /\ nextName \in Nat
    BY <1>1, <1>2 DEF TypeOK
  <2>2. \A n \in live \cup created : n < nextName
    BY <1>1, <1>2 DEF Naming
  <2>3. \A n \in live \cup created : n <= nextName
    BY <2>1, <2>2, SMT
  <2> QED BY <2>1, <2>3, FS_BoundedSetOfNaturals
<1>5. PICK m \in Nat : QueueStep(m, (live \cup created) \ Held', sent)
  <2>1. sendq \in Seq(WireRequest) /\ live \in SUBSET Nat
    BY <1>1 DEF TypeOK
  <2>2. \A k \in Callers : Len(stack'[k]) \in Nat
    BY <1>1 DEF StackFacts
  <2> QED BY <1>2, <1>3, <1>4, <2>1, <2>2, Settled
<1>6. QueueFacts((live \cup created) \ Held', sent)
  <2>1. sendq \in Seq(WireRequest) /\ (live \cup created) \ Held' \in SUBSET Nat
    BY <1>1, <1>2 DEF TypeOK
  <2> QED BY <1>3, <1>5, <2>1, Queued
<1>7. sendq' \in Seq(WireRequest)
  BY <1>5 DEF QueueStep
<1>8. live' = (live \cup created) \cap Held' /\ names' = names
  BY DEF Settle
<1>9. /\ flight' \in {flight, <<>>} /\ flight' \in Seq(Response)
      /\ flight' # <<>> => Expected(Head(flight))
  BY <1>1 DEF Settle, TypeOK
<1>10. \A k \in Callers, d \in Nat : flight' # <<>> /\ Head(flight).owner = <<k, d>> =>
         d <= Len(stack'[k])
  BY <1>9 DEF Expected
<1> QED BY <1>2, <1>3, <1>6, <1>7, <1>8, <1>9, <1>10 DEF SettleFacts

\* The request that is sent.
SentBy(c, s, q) ==
  /\ s # <<>> /\ q.owner = <<c, Len(s)>> /\ Asks(s[Len(s)], q)
  /\ Len(s) <= Depth(c) => stack[c][Len(s)].at \notin {"sent", "answered"}
  /\ q.op = "run" => s[Len(s)].fn \in {"query", "lookup", "detail"} /\ q.name = s[Len(s)].name

LEMMA SentFacts ==
  ASSUME NEW c, NEW s, NEW sent, Sends(c, s, sent), Len(sent) = 1
  PROVE  SentBy(c, s, sent[1]) /\ sent[1] \in WireRequest
<1>1. sent # <<>>
  OBVIOUS
<1>2. PICK q \in WireRequest :
        /\ sent = <<q>> /\ s # <<>> /\ q.owner = <<c, Len(s)>> /\ Asks(s[Len(s)], q)
        /\ Len(s) <= Depth(c) => stack[c][Len(s)].at \notin {"sent", "answered"}
        /\ q.op = "run" => s[Len(s)].fn \in {"query", "lookup", "detail"} /\ q.name = s[Len(s)].name
  BY <1>1 DEF Sends
<1>3. sent[1] = q
  BY <1>2
<1> QED BY <1>2, <1>3 DEF SentBy

LEMMA Owners ==
  ASSUME NEW q \in WireRequest
  PROVE  /\ q.owner = None \/ \E k \in Callers, d \in Nat : q.owner = <<k, d>>
         /\ \A k \in Callers, d \in Nat : <<k, d>> # None
BY DEF WireRequest, Owner, None

\* Where the owner of a request in the queue comes from.
LEMMA OwnerBefore ==
  ASSUME TypeOK, NEW i \in 1..Len(sendq), NEW r, OwnerStep(r, sendq[i]),
         NEW k \in Callers, NEW d \in Nat, r.owner = <<k, d>>
  PROVE  sendq[i].owner = <<k, d>> /\ d <= Len(stack'[k])
<1>1. sendq[i] \in WireRequest
  BY ElementOfSeq DEF TypeOK
<1>2. sendq[i].owner # None
  BY <1>1, Owners DEF OwnerStep
<1>3. PICK e \in Callers, f \in Nat : sendq[i].owner = <<e, f>>
  BY <1>1, <1>2, Owners
<1>4. r.owner = <<e, f>> /\ f <= Len(stack'[e])
  BY <1>1, <1>3, Owners DEF OwnerStep
<1>5. e = k /\ f = d
  BY <1>4
<1> QED BY <1>3, <1>4, <1>5

\* No request awaited is where another will be.
LEMMA SentApart ==
  ASSUME StatementsInv, NEW c \in Callers, NEW s, NEW q, SentBy(c, s, q), StackFacts(c, s),
         NEW i \in 1..Len(sendq)
  PROVE  sendq[i].owner # q.owner
<1>1. SUFFICES ASSUME sendq[i].owner = <<c, Len(s)>> PROVE FALSE
  BY DEF SentBy
<1>2. Len(s) \in Nat
  BY DEF StackFacts
<1>3. Len(s) \in 1..Depth(c) /\ Asks(stack[c][Len(s)], sendq[i])
  BY <1>1, <1>2 DEF StatementsInv, Owning
<1>4. Len(s) <= Depth(c) /\ stack[c][Len(s)].at = "sent"
  BY <1>2, <1>3 DEF StackFacts, Asks
<1> QED BY <1>4 DEF SentBy

LEMMA OwningMoved ==
  ASSUME StatementsInv, NEW c \in Callers, NEW s, NEW created, NEW sent,
         Moves(c, s, created, sent), StackFacts(c, s), SettleFacts(created, sent)
  PROVE  Owning'
<1>1. TypeOK /\ Owning /\ QueueFacts((live \cup created) \ Held', sent)
  BY DEF StatementsInv, SettleFacts
<1>2. ASSUME NEW i \in 1..Len(sendq'), NEW k \in Callers, NEW d \in Nat, sendq'[i].owner = <<k, d>>
      PROVE  \/ i \in 1..Len(sendq) /\ OwnerStep(sendq'[i], sendq[i])
             \/ Len(sent) = 1 /\ i = Len(sendq') /\ sendq'[i] = sent[1]
  <2>1. \A n \in (live \cup created) \ Held' : Close(n).owner # <<k, d>>
    BY DEF Close, Request, None
  <2> QED BY <1>1, <1>2, <2>1 DEF QueueFacts
<1>3. ASSUME NEW i \in 1..Len(sendq'), NEW k \in Callers, NEW d \in Nat, sendq'[i].owner = <<k, d>>
      PROVE  d \in 1..Len(stack'[k]) /\ Asks(stack'[k][d], sendq'[i])
  <2>1. CASE i \in 1..Len(sendq) /\ OwnerStep(sendq'[i], sendq[i])
    <3>1. sendq[i].owner = <<k, d>> /\ d <= Len(stack'[k])
      BY <1>1, <1>3, <2>1, OwnerBefore
    <3>2. d \in 1..Depth(k) /\ Asks(stack[k][d], sendq[i])
      BY <1>1, <1>3, <2>1, <3>1 DEF Owning
    <3>3. stack'[k][d] = stack[k][d]
      BY <1>3, <3>1, <3>2 DEF StackFacts, Same, Asks
    <3>4. d \in 1..Len(stack'[k])
      <4>1. Len(stack'[k]) \in Nat /\ Depth(k) \in Nat
        BY DEF StackFacts
      <4> QED BY <3>1, <3>2, <4>1, SMT
    <3>5. sendq'[i].op = sendq[i].op /\ sendq'[i].slot = sendq[i].slot /\ sendq'[i].name = sendq[i].name
      BY <2>1 DEF OwnerStep
    <3> QED BY <3>2, <3>3, <3>4, <3>5 DEF Asks
  <2>2. CASE Len(sent) = 1 /\ sendq'[i] = sent[1]
    <3>1. SentBy(c, s, sent[1])
      BY <2>2, SentFacts DEF Moves
    <3>2. k = c /\ d = Len(s) /\ s # <<>> /\ Asks(s[Len(s)], sent[1])
      BY <1>3, <2>2, <3>1 DEF SentBy
    <3>3. stack'[k] = s /\ s \in Seq(Frame)
      BY <3>2 DEF StackFacts, Moves, StackOK
    <3>4. Len(s) \in 1..Len(s)
      BY <3>2, <3>3, EmptySeq
    <3> QED BY <2>2, <3>2, <3>3, <3>4
  <2> QED BY <1>2, <1>3, <2>1, <2>2
<1>4. ASSUME NEW i \in 1..Len(sendq'), NEW j \in 1..Len(sendq'), i # j,
             NEW k \in Callers, NEW d \in Nat, sendq'[i].owner = <<k, d>>, sendq'[j].owner = <<k, d>>
      PROVE  FALSE
  <2>1. \/ i \in 1..Len(sendq) /\ sendq[i].owner = <<k, d>>
        \/ Len(sent) = 1 /\ i = Len(sendq') /\ sendq'[i] = sent[1]
    BY <1>1, <1>2, <1>4, OwnerBefore
  <2>2. \/ j \in 1..Len(sendq) /\ sendq[j].owner = <<k, d>>
        \/ Len(sent) = 1 /\ j = Len(sendq') /\ sendq'[j] = sent[1]
    BY <1>1, <1>2, <1>4, OwnerBefore
  <2>3. ASSUME Len(sent) = 1, sent[1].owner = <<k, d>>, NEW m \in 1..Len(sendq)
        PROVE  sendq[m].owner # <<k, d>>
    <3>1. SentBy(c, s, sent[1])
      BY <2>3, SentFacts DEF Moves
    <3> QED BY <2>3, <3>1, SentApart
  <2>4. <<k, d>> # None
    BY DEF None
  <2> QED BY <1>1, <1>4, <2>1, <2>2, <2>3, <2>4 DEF Owning
<1>5. \A i \in 1..Len(sendq') : sendq'[i] \in WireRequest
  BY ElementOfSeq DEF SettleFacts
<1>6. \A i, j \in 1..Len(sendq') : i # j /\ sendq'[i].owner # None => sendq'[i].owner # sendq'[j].owner
  <2>1. SUFFICES ASSUME NEW i \in 1..Len(sendq'), NEW j \in 1..Len(sendq'), i # j,
                        sendq'[i].owner # None, sendq'[i].owner = sendq'[j].owner PROVE FALSE
    OBVIOUS
  <2>2. PICK k \in Callers, d \in Nat : sendq'[i].owner = <<k, d>>
    BY <1>5, <2>1, Owners
  <2> QED BY <1>4, <2>1, <2>2
<1>7. Len(flight') <= 1
  <2>1. Len(<<>>) = 0
    OBVIOUS
  <2> QED BY <1>1, <2>1 DEF Owning, SettleFacts
<1>8. ASSUME NEW k \in Callers, NEW d \in Nat, flight' # <<>>, Head(flight').owner = <<k, d>>
      PROVE  /\ d \in 1..Len(stack'[k]) /\ stack'[k][d].at \in {"sent", "answered"}
             /\ Bounded(stack'[k][d], Head(flight').left)
             /\ \A i \in 1..Len(sendq') : sendq'[i].owner # <<k, d>>
  <2>1. flight' = flight /\ flight # <<>> /\ d <= Len(stack'[k])
    BY <1>8 DEF SettleFacts
  <2>2. /\ d \in 1..Depth(k) /\ stack[k][d].at \in {"sent", "answered"}
        /\ Bounded(stack[k][d], Head(flight).left)
        /\ \A i \in 1..Len(sendq) : sendq[i].owner # <<k, d>>
    BY <1>1, <1>8, <2>1 DEF Owning
  <2>3. d \in 1..Len(stack'[k])
    <3>1. Len(stack'[k]) \in Nat /\ Depth(k) \in Nat
      BY DEF StackFacts
    <3> QED BY <2>1, <2>2, <3>1, SMT
  <2>4. Same(stack[k][d], stack'[k][d])
    BY <1>8, <2>1, <2>2 DEF StackFacts
  <2>5. Bounded(stack'[k][d], Head(flight').left)
    <3>1. Used(stack[k][d]) \in Nat /\ Used(stack'[k][d]) \in Nat
      <4>1. stack[k][d] \in Frame
        BY <1>1, <2>2, FrameIn
      <4>2. stack'[k] \in Seq(Frame)
        BY <1>1 DEF TypeOK, StackFacts, Moves, StackOK
      <4>3. stack'[k][d] \in Frame
        BY <2>3, <4>2, ElementOfSeq
      <4>4. \A f \in Frame : Used(f) \in Nat
        BY StatementsAssumption DEF Used, Frame
      <4> QED BY <4>1, <4>3, <4>4
    <3>2. Head(flight).left \in Nat
      <4>1. Head(flight) \in Response
        BY <1>1, <2>1, HeadTailProperties DEF TypeOK
      <4> QED BY <4>1 DEF Response
    <3>3. Used(stack'[k][d]) <= Used(stack[k][d]) /\ stack'[k][d].fn = stack[k][d].fn
      BY <2>2, <2>4 DEF Same
    <3> QED BY <2>1, <2>2, <3>1, <3>2, <3>3 DEF Bounded
  <2>6. \A i \in 1..Len(sendq') : sendq'[i].owner # <<k, d>>
    <3>1. SUFFICES ASSUME NEW i \in 1..Len(sendq'), sendq'[i].owner = <<k, d>> PROVE FALSE
      OBVIOUS
    <3>2. CASE i \in 1..Len(sendq) /\ OwnerStep(sendq'[i], sendq[i])
      BY <1>1, <1>8, <2>2, <3>1, <3>2, OwnerBefore
    <3>3. CASE Len(sent) = 1 /\ sendq'[i] = sent[1]
      <4>1. SentBy(c, s, sent[1])
        BY <3>3, SentFacts DEF Moves
      <4>2. k = c /\ d = Len(s)
        BY <3>1, <3>3, <4>1 DEF SentBy
      <4>3. d <= Depth(k)
        <5>1. Depth(k) \in Nat
          BY DEF StackFacts
        <5> QED BY <2>2, <5>1
      <4> QED BY <2>2, <4>1, <4>2, <4>3 DEF SentBy
    <3> QED BY <1>2, <1>8, <3>1, <3>2, <3>3
  <2> QED BY <2>3, <2>2, <2>4, <2>5, <2>6 DEF Same
<1> QED BY <1>3, <1>6, <1>7, <1>8 DEF Owning, Depth

-----------------------------------------------------------------------------
(* What it does to the names                                               *)

\* To be closed is what was, and what nothing holds any more.
LEMMA ToCloseMoved ==
  ASSUME TypeOK, NEW c, NEW s, NEW created, NEW sent, Moves(c, s, created, sent),
         SettleFacts(created, sent), NEW n
  PROVE  ToClose(n)' <=> ToClose(n) \/ n \in (live \cup created) \ Held'
<1>1. QueueFacts((live \cup created) \ Held', sent)
  BY DEF SettleFacts
<1>2. ASSUME ToClose(n)' PROVE ToClose(n) \/ n \in (live \cup created) \ Held'
  <2>1. PICK i \in 1..Len(sendq') : sendq'[i].op = "close" /\ sendq'[i].name = n
    BY <1>2 DEF ToClose
  <2>2. CASE i \in 1..Len(sendq) /\ OwnerStep(sendq'[i], sendq[i])
    BY <2>1, <2>2 DEF OwnerStep, ToClose
  <2>3. CASE \E m \in (live \cup created) \ Held' : sendq'[i] = Close(m)
    BY <2>1, <2>3 DEF Close, Request
  <2>4. CASE Len(sent) = 1 /\ sendq'[i] = sent[1]
    <3>1. SentBy(c, s, sent[1])
      BY <2>4, SentFacts DEF Moves
    <3> QED BY <2>1, <2>4, <3>1 DEF SentBy, Asks
  <2> QED BY <1>1, <2>2, <2>3, <2>4 DEF QueueFacts
<1>3. ASSUME ToClose(n) PROVE ToClose(n)'
  BY <1>1, <1>3 DEF ToClose, QueueFacts, OwnerStep
<1>4. ASSUME n \in (live \cup created) \ Held' PROVE ToClose(n)'
  <2>1. PICK i \in 1..Len(sendq') : sendq'[i] = Close(n)
    BY <1>1, <1>4 DEF QueueFacts
  <2>2. sendq'[i].op = "close" /\ sendq'[i].name = n
    BY <2>1 DEF Close, Request
  <2> QED BY <2>2 DEF ToClose
<1> QED BY <1>2, <1>3, <1>4

\* What is being prepared was, or has a new name.
Fresh(c, s, n) ==
  n = nextName /\ nextName' = nextName + 1 /\ Len(s) > Depth(c) /\ s[Len(s)].ans = "none"

LEMMA PreparesMoved ==
  ASSUME TypeOK, NEW c \in Callers, NEW s, NEW created, NEW sent, Moves(c, s, created, sent),
         StackFacts(c, s), NEW k \in Callers, NEW i \in Nat, NEW n
  PROVE  /\ Prepares(k, i, n)' =>
              \/ Prepares(k, i, n) /\ stack'[k][i].ans = stack[k][i].ans
              \/ k = c /\ i = Len(s) /\ Fresh(c, s, n)
         /\ Prepares(k, i, n) /\ ~Prepares(k, i, n)' =>
              k = c /\ i > Len(s) /\ i \in 1..Depth(c)
<1>1. Len(stack'[k]) \in Nat /\ Depth(k) \in Nat
  BY DEF StackFacts
<1>2. ASSUME Prepares(k, i, n)'
      PROVE  \/ Prepares(k, i, n) /\ stack'[k][i].ans = stack[k][i].ans
             \/ k = c /\ i = Len(s) /\ Fresh(c, s, n)
  <2>1. i \in 1..Len(stack'[k]) /\ stack'[k][i].fn = "prepare" /\ stack'[k][i].name = n
    BY <1>2 DEF Prepares, Depth
  <2>2. CASE i <= Depth(k)
    <3>1. i \in 1..Depth(k) /\ i <= Len(stack'[k])
      BY <1>1, <2>1, <2>2
    <3>2. Same(stack[k][i], stack'[k][i])
      BY <3>1 DEF StackFacts
    <3> QED BY <2>1, <3>1, <3>2 DEF Same, Prepares
  <2>3. CASE ~(i <= Depth(k))
    <3>1. k = c
      <4>1. SUFFICES ASSUME k # c PROVE FALSE
        OBVIOUS
      <4>2. Len(stack'[k]) = Depth(k)
        BY <4>1 DEF StackFacts, Depth
      <4> QED BY <1>1, <2>1, <2>3, <4>2
    <3>2. Len(s) <= Depth(c) + 1 /\ stack'[c] = s
      BY DEF Moves, StackFacts
    <3>3. i = Len(s) /\ Len(s) > Depth(c)
      BY <1>1, <2>1, <2>3, <3>1, <3>2
    <3> QED BY <2>1, <3>1, <3>2, <3>3 DEF Moves, Fresh
  <2> QED BY <2>2, <2>3
<1>3. ASSUME Prepares(k, i, n), ~Prepares(k, i, n)'
      PROVE  k = c /\ i > Len(s) /\ i \in 1..Depth(c)
  <2>1. i \in 1..Depth(k) /\ stack[k][i].fn = "prepare" /\ stack[k][i].name = n
    BY <1>3 DEF Prepares
  <2>2. ~(i <= Len(stack'[k]))
    <3>1. SUFFICES ASSUME i <= Len(stack'[k]) PROVE FALSE
      OBVIOUS
    <3>2. Same(stack[k][i], stack'[k][i])
      BY <2>1, <3>1 DEF StackFacts
    <3>3. i \in 1..Len(stack'[k])
      BY <1>1, <2>1, <3>1
    <3> QED BY <1>3, <2>1, <3>2, <3>3 DEF Same, Prepares, Depth
  <2>3. k = c
    BY <2>1, <2>2 DEF StackFacts
  <2> QED BY <1>1, <2>1, <2>2, <2>3 DEF StackFacts
<1> QED BY <1>2, <1>3

\* What is created was being prepared, and is not any more.
LEMMA CreatedFacts ==
  ASSUME StatementsInv, NEW c \in Callers, NEW s, NEW created, NEW sent,
         Moves(c, s, created, sent), StackFacts(c, s), NEW n \in created
  PROVE  /\ n \in Nat /\ n < nextName /\ n \in names /\ n \notin live /\ ~ToClose(n)
         /\ \A k \in Callers, i \in Nat : ~Prepares(k, i, n)'
<1>1. TypeOK /\ Naming /\ Depth(c) \in Nat /\ Len(stack'[c]) \in Nat /\ stack'[c] = s /\ nextName \in Nat
  BY DEF StatementsInv, StackFacts, TypeOK
<1>2. n \in Nat /\ Prepares(c, Depth(c), n) /\ Top(c).at = "answered" /\ Len(s) < Depth(c)
  BY DEF Moves, Creates
<1>3. stack[c][Depth(c)].ans = "ok"
  <2>1. Depth(c) \in 1..Depth(c)
    BY <1>2 DEF Prepares
  <2> QED BY <1>1, <1>2, <2>1, FrameIn DEF FrameOK, Top
<1>4. n < nextName /\ n \in names /\ n \notin live /\ ~ToClose(n)
  BY <1>1, <1>2, <1>3 DEF Naming
<1>5. ASSUME NEW k \in Callers, NEW i \in Nat, Prepares(k, i, n)' PROVE FALSE
  <2>1. CASE Prepares(k, i, n)
    <3>1. k = c /\ i = Depth(c)
      BY <1>1, <1>2, <1>5, <2>1 DEF Naming
    <3>2. i \in 1..Len(s)
      BY <1>1, <1>5, <3>1 DEF Prepares, Depth
    <3> QED BY <1>1, <1>2, <3>1, <3>2
  <2>2. CASE Fresh(c, s, n)
    BY <1>1, <1>2, <1>4, <2>2 DEF Fresh
  <2> QED BY <1>1, <1>5, <2>1, <2>2, PreparesMoved
<1> QED BY <1>2, <1>4, <1>5

LEMMA NamingMoved ==
  ASSUME StatementsInv, NEW c \in Callers, NEW s, NEW created, NEW sent,
         Moves(c, s, created, sent), StackFacts(c, s), SettleFacts(created, sent)
  PROVE  Naming'
<1>1. /\ TypeOK /\ Naming /\ Owning /\ nextName \in Nat /\ nextName' \in {nextName, nextName + 1}
      /\ live' = (live \cup created) \cap Held' /\ names' = names
      /\ live \subseteq Nat /\ names \subseteq Nat
  BY DEF StatementsInv, SettleFacts, Moves, TypeOK
<1>2. \A n \in Nat : n < nextName => n < nextName'
  BY <1>1
<1>3. \A n \in created : /\ n \in Nat /\ n < nextName /\ n \in names /\ n \notin live /\ ~ToClose(n)
                         /\ \A k \in Callers, i \in Nat : ~Prepares(k, i, n)'
  BY CreatedFacts
<1>4. live' \subseteq names'
  BY <1>1, <1>3 DEF Naming
<1>5. \A n \in live' \cup names' : n < nextName'
  BY <1>1, <1>2, <1>3 DEF Naming
<1>6. ASSUME NEW n \in live' PROVE ~ToClose(n)'
  <2>1. ~ToClose(n) /\ n \in Held'
    BY <1>1, <1>3, <1>6 DEF Naming
  <2> QED BY <1>1, <2>1, ToCloseMoved
<1>7. ASSUME NEW k \in Callers, NEW i \in Nat, NEW n \in Nat, Prepares(k, i, n)'
      PROVE  /\ n < nextName' /\ n \notin live' /\ ~ToClose(n)'
             /\ stack'[k][i].ans = "ok" => n \in names
             /\ \A e \in Callers, j \in Nat : Prepares(e, j, n)' => e = k /\ j = i
  <2>1. n \notin created
    BY <1>3, <1>7
  <2>2. CASE Prepares(k, i, n) /\ stack'[k][i].ans = stack[k][i].ans
    <3>1. /\ n < nextName /\ n \notin live /\ ~ToClose(n)
          /\ stack[k][i].ans = "ok" => n \in names
          /\ \A e \in Callers, j \in Nat : Prepares(e, j, n) => e = k /\ j = i
      BY <1>1, <2>2 DEF Naming
    <3>2. ~Fresh(c, s, n)
      BY <1>1, <3>1 DEF Fresh
    <3>3. \A e \in Callers, j \in Nat : Prepares(e, j, n)' => Prepares(e, j, n)
      BY <1>1, <3>2, PreparesMoved
    <3> QED BY <1>1, <1>2, <2>1, <2>2, <3>1, <3>3, ToCloseMoved
  <2>3. CASE k = c /\ i = Len(s) /\ Fresh(c, s, n)
    <3>1. n = nextName /\ nextName' = nextName + 1
      BY <2>3 DEF Fresh
    <3>2. n \notin live /\ n < nextName' /\ ~(n < nextName)
      BY <1>1, <3>1 DEF Naming
    <3>3. ~ToClose(n)
      BY <1>1, <3>2 DEF Naming, ToClose
    <3>4. \A e \in Callers, j \in Nat : ~Prepares(e, j, n)
      BY <1>1, <3>2 DEF Naming
    <3>5. \A e \in Callers, j \in Nat : Prepares(e, j, n)' => e = k /\ j = i
      BY <1>1, <2>3, <3>4, PreparesMoved
    <3>6. stack'[k][i].ans = "none"
      BY <2>3 DEF Fresh, StackFacts
    <3> QED BY <1>1, <2>1, <3>2, <3>3, <3>5, <3>6, ToCloseMoved
  <2> QED BY <1>1, <1>7, <2>2, <2>3, PreparesMoved
<1>8. ASSUME NEW i \in 1..Len(sendq'), sendq'[i].op \in {"parse", "close"}
      PROVE  sendq'[i].name < nextName'
  <2>1. CASE i \in 1..Len(sendq) /\ OwnerStep(sendq'[i], sendq[i])
    <3>1. sendq[i] \in WireRequest
      BY <1>1, <2>1, ElementOfSeq DEF TypeOK
    <3>2. sendq[i].name \in Nat /\ sendq[i].name < nextName /\ sendq'[i].name = sendq[i].name
      BY <1>1, <1>8, <2>1, <3>1 DEF Naming, OwnerStep, WireRequest
    <3> QED BY <1>2, <3>2
  <2>2. CASE \E n \in (live \cup created) \ Held' : sendq'[i] = Close(n)
    <3>1. PICK n \in live \cup created : sendq'[i] = Close(n)
      BY <2>2
    <3>2. sendq'[i].name = n
      BY <3>1 DEF Close, Request
    <3>3. n \in Nat /\ n < nextName
      BY <1>1, <1>3 DEF Naming
    <3> QED BY <1>2, <3>2, <3>3
  <2>3. CASE Len(sent) = 1 /\ sendq'[i] = sent[1]
    <3>1. SentBy(c, s, sent[1]) /\ sent[1] \in WireRequest
      BY <2>3, SentFacts DEF Moves
    <3>2. s[Len(s)].fn = "prepare" /\ s[Len(s)].name = sent[1].name /\ sent[1].name \in Nat /\ s # <<>>
      BY <1>8, <2>3, <3>1 DEF SentBy, Asks, WireRequest
    <3>3. Len(s) \in Nat /\ Len(s) \in 1..Len(s) /\ stack'[c] = s
      <4>1. s \in Seq(Frame)
        BY DEF Moves, StackOK
      <4> QED BY <3>2, <4>1, EmptySeq DEF StackFacts
    <3>4. Prepares(c, Len(s), sent[1].name)'
      BY <3>2, <3>3 DEF Prepares, Depth
    <3> QED BY <1>7, <2>3, <3>2, <3>3, <3>4
  <2>4. QueueFacts((live \cup created) \ Held', sent)
    BY DEF SettleFacts
  <2> QED BY <2>1, <2>2, <2>3, <2>4 DEF QueueFacts
<1>9. ASSUME NEW k \in Callers, NEW d \in Nat, flight' # <<>>, Head(flight').owner = <<k, d>>,
             Head(flight').ans = "ok", stack'[k][d].fn = "prepare"
      PROVE  stack'[k][d].name \in names'
  <2>1. flight' = flight /\ flight # <<>> /\ d <= Len(stack'[k])
    BY <1>9 DEF SettleFacts
  <2>2. d \in 1..Depth(k)
    BY <1>1, <1>9, <2>1 DEF Owning
  <2>3. Same(stack[k][d], stack'[k][d])
    BY <2>1, <2>2 DEF StackFacts
  <2>4. stack[k][d].fn = "prepare" /\ stack'[k][d].name = stack[k][d].name
    BY <1>9, <2>3 DEF Same
  <2> QED BY <1>1, <1>9, <2>1, <2>4 DEF Naming
<1> QED BY <1>1, <1>4, <1>5, <1>6, <1>7, <1>8, <1>9 DEF Naming

-----------------------------------------------------------------------------
(* What it leaves held, accounted for and in order                         *)

LEMMA TypeMoved ==
  ASSUME TypeOK, NEW c \in Callers, NEW s, NEW created, NEW sent,
         Moves(c, s, created, sent), StackFacts(c, s), SettleFacts(created, sent)
  PROVE  TypeOK'
<1>1. stack' \in [Callers -> Seq(Frame)]
  BY DEF TypeOK, Moves, StackOK
<1>2. ASSUME NEW k \in Callers PROVE StackOK(stack'[k])
  BY DEF TypeOK, Moves, StackFacts
<1>3. owned' \in [Callers -> SUBSET Nat] /\ slots' \in [Slots -> Nat]
  BY DEF Moves
<1>4. live' \subseteq Nat /\ names' \subseteq Nat
  BY DEF TypeOK, SettleFacts
<1>5. nextName' \in Nat \ {0}
  BY DEF TypeOK, Moves
<1>6. sendq' \in Seq(WireRequest) /\ flight' \in Seq(Response)
  BY DEF SettleFacts
<1> QED BY <1>1, <1>2, <1>3, <1>4, <1>5, <1>6 DEF TypeOK

LEMMA HoldingMoved ==
  ASSUME StatementsInv, NEW c \in Callers, NEW s, NEW created, NEW sent,
         Moves(c, s, created, sent), StackFacts(c, s), SettleFacts(created, sent)
  PROVE  Holding'
<1>1. /\ live' = (live \cup created) \cap Held' /\ Holding
  BY DEF SettleFacts, StatementsInv
<1>2. ASSUME NEW k \in Callers PROVE owned'[k] \subseteq live'
  BY <1>1, HeldNext DEF Moves
<1>3. ASSUME NEW t \in Slots, slots'[t] # 0 PROVE slots'[t] \in live'
  BY <1>1, <1>3, HeldNext DEF Moves
<1>4. ASSUME NEW k \in Callers, NEW i \in 1..Len(stack'[k]),
             stack'[k][i].fn \in {"query", "lookup", "detail"}, stack'[k][i].at # "start"
      PROVE  stack'[k][i].name \in live'
  <2>1. stack'[k][i].name \in Held'
    BY <1>4, HeldNext
  <2>2. CASE k = c
    BY <1>1, <1>4, <2>1, <2>2 DEF Moves, StackFacts
  <2>3. CASE k # c
    <3>1. stack'[k] = stack[k]
      BY <2>3 DEF StackFacts
    <3>2. stack[k][i].name \in live
      BY <1>1, <1>4, <3>1 DEF Holding, Depth
    <3> QED BY <1>1, <2>1, <3>1, <3>2
  <2> QED BY <2>2, <2>3
<1> QED BY <1>2, <1>3, <1>4 DEF Holding, Depth

LEMMA AccountedMoved ==
  ASSUME StatementsInv, NEW c \in Callers, NEW s, NEW created, NEW sent,
         Moves(c, s, created, sent), StackFacts(c, s), SettleFacts(created, sent)
  PROVE  Accounted'
<1>1. /\ TypeOK /\ Owning /\ Accounted /\ live' = (live \cup created) \cap Held' /\ names' = names
      /\ abandoned \subseteq abandoned'
      /\ QueueFacts((live \cup created) \ Held', sent)
  BY DEF StatementsInv, SettleFacts, Moves
<1>2. \A n \in live \cup created : n \in live' \/ ToClose(n)'
  BY <1>1, ToCloseMoved
<1>3. ASSUME NEW k \in Callers, NEW i \in Nat, NEW n, Prepares(k, i, n), ~Prepares(k, i, n)'
      PROVE  n \in abandoned' \/ (n \in created /\ stack[k][i].at = "answered")
  <2>1. k = c /\ i > Len(s) /\ i \in 1..Depth(c)
    BY <1>1, <1>3, PreparesMoved
  <2>2. stack[c][i].fn = "prepare" /\ stack[c][i].name = n
    BY <1>3, <2>1 DEF Prepares
  <2> QED BY <2>1, <2>2 DEF Moves
<1>4. ASSUME NEW n \in names'
      PROVE  \/ n \in live' \/ n \in abandoned' \/ ToClose(n)'
             \/ \E k \in Callers, i \in Nat : Prepares(k, i, n)'
  <2>1. \/ n \in live \/ n \in abandoned \/ ToClose(n)
        \/ \E k \in Callers, i \in Nat : Prepares(k, i, n)
    BY <1>1, <1>4 DEF Accounted
  <2>2. ToClose(n) => ToClose(n)'
    BY <1>1, ToCloseMoved
  <2> QED BY <1>1, <1>2, <1>3, <2>1, <2>2
<1>5. ASSUME NEW i \in 1..Len(sendq'), sendq'[i].op = "parse", sendq'[i].owner = None
      PROVE  sendq'[i].name \in abandoned'
  <2>1. CASE i \in 1..Len(sendq) /\ OwnerStep(sendq'[i], sendq[i])
    <3>1. sendq[i].op = "parse" /\ sendq'[i].name = sendq[i].name
      BY <1>5, <2>1 DEF OwnerStep
    <3>2. CASE sendq[i].owner = None
      BY <1>1, <2>1, <3>1, <3>2 DEF Accounted
    <3>3. CASE sendq[i].owner # None
      <4>1. sendq[i] \in WireRequest
        BY <1>1, <2>1, ElementOfSeq DEF TypeOK
      <4>2. PICK k \in Callers, d \in Nat : sendq[i].owner = <<k, d>>
        BY <3>3, <4>1, Owners
      <4>3. ~(d <= Len(stack'[k]))
        BY <1>5, <2>1, <4>2, <4>1, Owners DEF OwnerStep
      <4>4. d \in 1..Depth(k) /\ Asks(stack[k][d], sendq[i])
        BY <1>1, <2>1, <4>2 DEF Owning
      <4>5. Prepares(k, d, sendq[i].name) /\ stack[k][d].at = "sent"
        BY <3>1, <4>4 DEF Asks, Prepares
      <4>6. ~Prepares(k, d, sendq[i].name)'
        <5>1. Len(stack'[k]) \in Nat
          BY DEF StackFacts
        <5> QED BY <4>3, <5>1 DEF Prepares, Depth
      <4> QED BY <1>3, <3>1, <4>5, <4>6
    <3> QED BY <3>2, <3>3
  <2>2. CASE \E n \in (live \cup created) \ Held' : sendq'[i] = Close(n)
    BY <1>5, <2>2 DEF Close, Request
  <2>3. CASE Len(sent) = 1 /\ sendq'[i] = sent[1]
    <3>1. sent[1].owner = <<c, Len(s)>>
      BY <2>3, SentFacts DEF Moves, SentBy
    <3>2. <<c, Len(s)>> # None
      BY DEF None
    <3> QED BY <1>5, <2>3, <3>1, <3>2
  <2> QED BY <1>1, <2>1, <2>2, <2>3 DEF QueueFacts
<1> QED BY <1>4, <1>5 DEF Accounted

LEMMA RunFindsMoved ==
  ASSUME StatementsInv, NEW c \in Callers, NEW s, NEW created, NEW sent,
         Moves(c, s, created, sent), StackFacts(c, s), SettleFacts(created, sent),
         Naming', Holding'
  PROVE  RunFindsStatement'
<1>1. /\ TypeOK /\ RunFindsStatement /\ names' = names
      /\ QueueFacts((live \cup created) \ Held', sent)
  BY DEF StatementsInv, SettleFacts
<1>2. Len(sendq) \in Nat /\ Len(sendq') \in Nat
  BY <1>1, LenProperties DEF TypeOK, SettleFacts
<1>3. SUFFICES ASSUME NEW i \in 1..Len(sendq'), sendq'[i].op = "run"
               PROVE  /\ sendq'[i].name \in names'
                      /\ \A j \in 1..i - 1 : sendq'[j].op = "close" => sendq'[j].name # sendq'[i].name
  BY DEF RunFindsStatement
<1>4. CASE i \in 1..Len(sendq) /\ OwnerStep(sendq'[i], sendq[i])
  <2>1. sendq[i].op = "run" /\ sendq'[i].name = sendq[i].name
    BY <1>3, <1>4 DEF OwnerStep
  <2>2. /\ sendq[i].name \in names
        /\ \A j \in 1..i - 1 : sendq[j].op = "close" => sendq[j].name # sendq[i].name
    BY <1>1, <1>4, <2>1 DEF RunFindsStatement
  <2>3. \A j \in 1..i - 1 : j \in 1..Len(sendq)
    BY <1>2, <1>4
  <2>4. \A j \in 1..i - 1 : OwnerStep(sendq'[j], sendq[j])
    BY <1>1, <2>3 DEF QueueFacts
  <2>5. \A j \in 1..i - 1 : sendq'[j].op = sendq[j].op /\ sendq'[j].name = sendq[j].name
    BY <2>4 DEF OwnerStep
  <2> QED BY <1>1, <2>1, <2>2, <2>5
<1>5. CASE \E n \in (live \cup created) \ Held' : sendq'[i] = Close(n)
  BY <1>3, <1>5 DEF Close, Request
<1>6. CASE Len(sent) = 1 /\ sendq'[i] = sent[1]
  <2>1. SentBy(c, s, sent[1])
    BY <1>6, SentFacts DEF Moves
  <2>2. /\ s # <<>> /\ s[Len(s)].fn \in {"query", "lookup", "detail"} /\ s[Len(s)].at = "sent"
        /\ sendq'[i].name = s[Len(s)].name
    BY <1>3, <1>6, <2>1 DEF SentBy, Asks
  <2>3. Len(s) \in 1..Len(s) /\ stack'[c] = s
    <3>1. s \in Seq(Frame)
      BY DEF Moves, StackOK
    <3> QED BY <2>2, <3>1, EmptySeq DEF StackFacts
  <2>4. PICK n : n = sendq'[i].name
    OBVIOUS
  <2>5. n \in live'
    BY <2>2, <2>3, <2>4 DEF Holding, Depth
  <2>6. n \in names' /\ ~ToClose(n)'
    BY <2>5 DEF Naming
  <2>7. \A j \in 1..i - 1 : j \in 1..Len(sendq')
    BY <1>2, <1>3
  <2>8. \A j \in 1..i - 1 : sendq'[j].op = "close" => sendq'[j].name # n
    BY <2>6, <2>7 DEF ToClose
  <2> QED BY <2>4, <2>6, <2>8
<1> QED BY <1>1, <1>3, <1>4, <1>5, <1>6 DEF QueueFacts

LEMMA MovesInv ==
  ASSUME StatementsInv, NEW c \in Callers, NEW s, NEW created, NEW sent,
         Moves(c, s, created, sent), Settle(created, sent)
  PROVE  StatementsInv'
<1>1. TypeOK /\ StackFacts(c, s) /\ SettleFacts(created, sent)
  BY Moved, MovedSettled DEF StatementsInv
<1>2. TypeOK' /\ Owning' /\ Naming' /\ Holding' /\ Accounted'
  BY <1>1, TypeMoved, OwningMoved, NamingMoved, HoldingMoved, AccountedMoved
<1>3. RunFindsStatement'
  BY <1>1, <1>2, RunFindsMoved
<1> QED BY <1>2, <1>3 DEF StatementsInv

-----------------------------------------------------------------------------
(* Stacks that grow, shrink and change                                     *)

\* The frame f can be the i-th of s.
Fits(s, i, f) ==
  /\ FrameOK(f)
  /\ i = 1 => Outermost(f)
  /\ i > 1 => Nested(s[i - 1], f)

LEMMA FitsSame ==
  ASSUME NEW s, StackOK(s), NEW i \in 1..Len(s), NEW f, FrameOK(f),
         f.fn = s[i].fn, f.slot = s[i].slot
  PROVE  Fits(s, i, f)
<1>1. s \in Seq(Frame) /\ Len(s) \in Nat /\ s # <<>>
  BY LenProperties DEF StackOK
<1>2. CASE i = 1
  BY <1>1, <1>2 DEF StackOK, Outermost, Fits
<1>3. CASE i # 1
  <2>1. i - 1 \in 1..Len(s) - 1 /\ (i - 1) + 1 = i /\ i > 1
    BY <1>1, <1>3
  <2>2. Nested(s[i - 1], s[i])
    BY <2>1 DEF StackOK
  <2> QED BY <1>3, <2>2 DEF Nested, Fits
<1> QED BY <1>2, <1>3

\* Frames that fit each other make a stack.
LEMMA StackBuilt ==
  ASSUME NEW t \in Seq(Frame), \A i \in 1..Len(t) : Fits(t, i, t[i])
  PROVE  StackOK(t)
<1>1. Len(t) \in Nat
  BY LenProperties
<1>2. \A i \in 1..Len(t) : FrameOK(t[i])
  BY DEF Fits
<1>3. ASSUME t # <<>> PROVE Outermost(t[1])
  <2>1. 1 \in 1..Len(t)
    BY <1>1, <1>3, EmptySeq
  <2> QED BY <2>1 DEF Fits
<1>4. ASSUME NEW i \in 1..Len(t) - 1 PROVE Nested(t[i], t[i + 1])
  <2>1. i + 1 \in 1..Len(t) /\ i + 1 > 1 /\ (i + 1) - 1 = i
    BY <1>1
  <2>2. i + 1 > 1 => Nested(t[(i + 1) - 1], t[i + 1])
    BY <2>1 DEF Fits
  <2> QED BY <2>1, <2>2
<1> QED BY <1>2, <1>3, <1>4 DEF StackOK

LEMMA StackFits ==
  ASSUME NEW s, StackOK(s), NEW i \in 1..Len(s)
  PROVE  Fits(s, i, s[i])
<1>1. FrameOK(s[i])
  BY DEF StackOK
<1> QED BY <1>1, FitsSame

\* What fits depends only on the frame before.
LEMMA FitsBefore ==
  ASSUME NEW s, NEW t, NEW i, NEW f, Fits(s, i, f), i > 1 => t[i - 1] = s[i - 1]
  PROVE  Fits(t, i, f)
BY DEF Fits

\* The last frame of s becomes f.
LEMMA TopChanged ==
  ASSUME NEW s, StackOK(s), s # <<>>, NEW f, Fits(s, Len(s), f),
         NEW t, t = [s EXCEPT ![Len(s)] = f]
  PROVE  /\ StackOK(t) /\ Len(t) = Len(s) /\ Len(s) \in 1..Len(s) /\ t[Len(s)] = f
         /\ \A i \in 1..Len(s) : i # Len(s) => t[i] = s[i]
<1>1. s \in Seq(Frame) /\ Len(s) \in Nat /\ Len(s) \in 1..Len(s) /\ f \in Frame
  BY LenProperties, EmptySeq DEF StackOK, Fits, FrameOK
<1>2. /\ t \in Seq(Frame) /\ Len(t) = Len(s) /\ t[Len(s)] = f
      /\ \A i \in 1..Len(s) : i # Len(s) => t[i] = s[i]
  BY <1>1, ExceptSeq
<1>3. ASSUME NEW i \in 1..Len(t) PROVE Fits(t, i, t[i])
  <2>1. i \in 1..Len(s)
    BY <1>2
  <2>2. i > 1 => i - 1 \in 1..Len(s) /\ i - 1 # Len(s)
    BY <1>1, <2>1
  <2>3. i > 1 => t[i - 1] = s[i - 1]
    BY <1>2, <2>2
  <2>4. Fits(s, i, t[i])
    BY <1>2, <2>1, StackFits
  <2> QED BY <2>3, <2>4, FitsBefore
<1> QED BY <1>1, <1>2, <1>3, StackBuilt

\* g is put on top of s.
On(s, g, t) ==
  /\ StackOK(t) /\ Len(t) = Len(s) + 1 /\ t[Len(s) + 1] = g
  /\ \A i \in 1..Len(s) : t[i] = s[i]

LEMMA Grown ==
  ASSUME NEW s, StackOK(s), s # <<>>, NEW g, FrameOK(g), Nested(s[Len(s)], g)
  PROVE  On(s, g, Append(s, g))
<1> DEFINE t == Append(s, g)
<1>1. s \in Seq(Frame) /\ Len(s) \in Nat /\ Len(s) \in 1..Len(s) /\ g \in Frame
  BY LenProperties, EmptySeq DEF StackOK, FrameOK
<1>2. /\ t \in Seq(Frame) /\ Len(t) = Len(s) + 1 /\ t[Len(s) + 1] = g
      /\ \A i \in 1..Len(s) : t[i] = s[i]
  BY <1>1, AppendProperties
<1>3. ASSUME NEW i \in 1..Len(t) PROVE Fits(t, i, t[i])
  <2>1. CASE i \in 1..Len(s)
    <3>1. i > 1 => i - 1 \in 1..Len(s)
      BY <1>1, <2>1
    <3>2. i > 1 => t[i - 1] = s[i - 1]
      BY <1>2, <3>1
    <3>3. Fits(s, i, t[i])
      BY <1>2, <2>1, StackFits
    <3> QED BY <3>2, <3>3, FitsBefore
  <2>2. CASE i = Len(s) + 1
    <3>1. i # 1 /\ i - 1 = Len(s)
      BY <1>1, <2>2
    <3> QED BY <1>1, <1>2, <2>2, <3>1 DEF Fits
  <2> QED BY <1>1, <1>2, <1>3, <2>1, <2>2
<1>4. StackOK(t)
  BY <1>2, <1>3, StackBuilt
<1> QED BY <1>2, <1>4 DEF On

\* The last frame of s goes, and the one before it becomes f.
Under(s, f, t) ==
  /\ StackOK(t) /\ Len(t) = Len(s) - 1 /\ t[Len(s) - 1] = f
  /\ \A i \in 1..Len(s) - 2 : t[i] = s[i]

LEMMA Shrunk ==
  ASSUME NEW s, StackOK(s), Len(s) > 1, NEW f, Fits(s, Len(s) - 1, f)
  PROVE  Under(s, f, SubSeq(s, 1, Len(s) - 2) \o <<f>>)
<1> DEFINE t == SubSeq(s, 1, Len(s) - 2) \o <<f>>
<1>1. s \in Seq(Frame) /\ Len(s) \in Nat /\ f \in Frame
  BY LenProperties DEF StackOK, Fits, FrameOK
<1>2. PICK n \in Nat : n = Len(s) - 2
  <2>1. Len(s) - 2 \in Nat
    BY <1>1
  <2> QED BY <2>1
<1>3. PICK r \in Seq(Frame) : /\ r = SubSeq(s, 1, n) /\ Len(r) = n
                              /\ \A i \in 1..n : r[i] = s[i]
  <2>1. 1 \in Int /\ n \in Int /\ \A i \in 1..n : i \in 1..Len(s)
    BY <1>1, <1>2
  <2>2. \A i \in 1..n : s[i] \in Frame
    BY <1>1, <2>1, ElementOfSeq
  <2>3. /\ SubSeq(s, 1, n) \in Seq(Frame)
        /\ Len(SubSeq(s, 1, n)) = IF 1 <= n THEN n - 1 + 1 ELSE 0
        /\ \A i \in 1..n - 1 + 1 : SubSeq(s, 1, n)[i] = s[1 + i - 1]
    BY <1>1, <2>1, <2>2, SubSeqProperties
  <2>4. n - 1 + 1 = n /\ (IF 1 <= n THEN n - 1 + 1 ELSE 0) = n /\ \A i \in 1..n : 1 + i - 1 = i
    BY <1>2
  <2>5. Len(SubSeq(s, 1, n)) = n /\ \A i \in 1..n : SubSeq(s, 1, n)[i] = s[i]
    BY <2>3, <2>4
  <2> QED BY <2>3, <2>5
<1>4. t = Append(r, f)
  BY <1>1, <1>2, <1>3, AppendIsConcat
<1>5. /\ t \in Seq(Frame) /\ Len(t) = n + 1 /\ t[n + 1] = f
      /\ \A i \in 1..n : t[i] = s[i]
  <2>1. /\ Append(r, f) \in Seq(Frame) /\ Len(Append(r, f)) = Len(r) + 1
        /\ \A i \in 1..Len(r) : Append(r, f)[i] = r[i]
        /\ Append(r, f)[Len(r) + 1] = f
    BY <1>1, <1>3, AppendProperties
  <2> QED BY <1>3, <1>4, <2>1
<1>6. ASSUME NEW i \in 1..Len(t) PROVE Fits(t, i, t[i])
  <2>1. i > 1 => i - 1 \in 1..n
    BY <1>2, <1>5
  <2>2. i > 1 => t[i - 1] = s[i - 1]
    BY <1>5, <2>1
  <2>3. Fits(s, i, t[i])
    <3>1. CASE i \in 1..n
      <4>1. i \in 1..Len(s)
        BY <1>1, <1>2, <3>1
      <4> QED BY <1>5, <3>1, <4>1, StackFits
    <3>2. CASE i = n + 1
      <4>1. i = Len(s) - 1
        BY <1>1, <1>2, <3>2
      <4> QED BY <1>5, <3>2, <4>1
    <3> QED BY <1>2, <1>5, <3>1, <3>2
  <2> QED BY <2>2, <2>3, FitsBefore
<1>7. n + 1 = Len(s) - 1
  BY <1>1, <1>2
<1>8. StackOK(t)
  BY <1>5, <1>6, StackBuilt
<1> QED BY <1>2, <1>5, <1>7, <1>8 DEF Under

-----------------------------------------------------------------------------
(* The steps of a caller, by what they do to its stack                     *)

\* What the callers have and the cache refers to a statement there is.
Keeps(created) ==
  /\ owned' \in [Callers -> SUBSET Nat] /\ slots' \in [Slots -> Nat]
  /\ \A k \in Callers : owned'[k] \subseteq live \cup created
  /\ \A t \in Slots : slots'[t] # 0 => slots'[t] \in live \cup created

\* So does a call that has got hold of its statement.
Holds(f, created) ==
  f.fn \in {"query", "lookup", "detail"} /\ f.at # "start" => f.name \in live \cup created

LEMMA KeepsSame ==
  ASSUME StatementsInv, UNCHANGED <<owned, slots>>, NEW created
  PROVE  Keeps(created)
BY DEF StatementsInv, TypeOK, Holding, Keeps

LEMMA OldHolds ==
  ASSUME StatementsInv, NEW c \in Callers, NEW i \in 1..Depth(c), NEW created
  PROVE  Holds(stack[c][i], created)
BY DEF StatementsInv, Holding, Holds

\* The frames of a caller, the innermost and the one around it.
LEMMA Innermost ==
  ASSUME TypeOK, NEW c \in Callers, Busy(c)
  PROVE  /\ StackOK(stack[c]) /\ Depth(c) \in Nat /\ Depth(c) \in 1..Depth(c)
         /\ FrameOK(Top(c)) /\ Top(c) \in Frame
         /\ Depth(c) = 1 => Outermost(Top(c))
         /\ Depth(c) # 1 => /\ Depth(c) > 1 /\ Depth(c) - 1 \in 1..Depth(c)
                            /\ FrameOK(Below(c)) /\ Below(c) \in Frame
                            /\ Nested(Below(c), Top(c))
<1>1. StackOK(stack[c]) /\ stack[c] \in Seq(Frame) /\ stack[c] # <<>>
  BY DEF TypeOK, Busy
<1>2. Depth(c) \in Nat \ {0}
  BY <1>1, EmptySeq DEF Depth
<1>3. Depth(c) \in 1..Depth(c)
  BY <1>2
<1>4. FrameOK(Top(c)) /\ Top(c) \in Frame
  BY <1>3, FrameIn DEF Top
<1>5. Depth(c) = 1 => Outermost(Top(c))
  BY <1>1 DEF StackOK, Top
<1>6. ASSUME Depth(c) # 1
      PROVE  /\ Depth(c) > 1 /\ Depth(c) - 1 \in 1..Depth(c)
             /\ FrameOK(Below(c)) /\ Below(c) \in Frame
             /\ Nested(Below(c), Top(c))
  <2>1. /\ Depth(c) > 1 /\ Depth(c) - 1 \in 1..Depth(c) /\ Depth(c) - 1 \in 1..Depth(c) - 1
        /\ (Depth(c) - 1) + 1 = Depth(c)
    BY <1>2, <1>6
  <2>2. FrameOK(Below(c)) /\ Below(c) \in Frame
    BY <2>1, FrameIn DEF Below
  <2>3. Nested(stack[c][Depth(c) - 1], stack[c][(Depth(c) - 1) + 1])
    BY <1>1, <2>1 DEF StackOK, Depth
  <2> QED BY <2>1, <2>2, <2>3 DEF Below, Top
<1> QED BY <1>1, <1>2, <1>3, <1>4, <1>5, <1>6

\* What f sends when it is the d-th frame of c, and before was not waiting for an answer.
Asking(c, d, f, sent) ==
  \/ sent = <<>>
  \/ \E q \in WireRequest :
       /\ sent = <<q>> /\ q.owner = <<c, d>> /\ Asks(f, q)
       /\ d <= Depth(c) => stack[c][d].at \notin {"sent", "answered"}
       /\ q.op = "run" => f.fn \in {"query", "lookup", "detail"} /\ q.name = f.name

\* A step that changes the innermost frame.
LEMMA TopMoves ==
  ASSUME StatementsInv, NEW c \in Callers, Busy(c), NEW f, FrameOK(f), Same(Top(c), f),
         Holds(f, {}), UNCHANGED <<owned, slots, nextName, abandoned>>,
         stack' = WithTop(c, f), NEW sent, Asking(c, Depth(c), f, sent), Settle({}, sent)
  PROVE  StatementsInv'
<1>1. TypeOK /\ Depth(c) = Len(stack[c]) /\ stack[c] # <<>>
  BY DEF StatementsInv, Depth, Busy
<1>2. /\ StackOK(stack[c]) /\ Depth(c) \in Nat /\ Depth(c) \in 1..Depth(c)
  BY <1>1, Innermost
<1>3. PICK s : s = [stack[c] EXCEPT ![Len(stack[c])] = f]
  OBVIOUS
<1>4. Fits(stack[c], Len(stack[c]), f)
  BY <1>1, <1>2, FitsSame DEF Same, Top
<1>5. /\ StackOK(s) /\ Len(s) = Depth(c) /\ s[Depth(c)] = f
      /\ \A i \in 1..Depth(c) : i # Depth(c) => s[i] = stack[c][i]
  BY <1>1, <1>2, <1>3, <1>4, TopChanged
<1>6. stack' = [stack EXCEPT ![c] = s]
  BY <1>3 DEF WithTop, Depth
<1>7. \A i \in 1..Depth(c) : Same(stack[c][i], s[i]) /\ Holds(s[i], {})
  <2>1. ASSUME NEW i \in 1..Depth(c), i # Depth(c) PROVE Same(stack[c][i], s[i]) /\ Holds(s[i], {})
    <3>1. s[i] = stack[c][i]
      BY <1>5, <2>1
    <3>2. Holds(stack[c][i], {}) /\ Same(stack[c][i], stack[c][i])
      BY <1>1, FrameIn, SameSelf, OldHolds
    <3> QED BY <3>1, <3>2
  <2> QED BY <1>5, <2>1 DEF Top
<1>8. Keeps({})
  BY KeepsSame
<1>9. s # <<>>
  BY <1>2, <1>5
<1>10. Sends(c, s, sent)
  BY <1>5, <1>9 DEF Asking, Sends
<1>11. Moves(c, s, {}, sent)
  <2>1. /\ nextName' \in {nextName, nextName + 1} /\ abandoned \subseteq abandoned'
        /\ Creates(c, s, {})
    BY DEF Creates
  <2>2. Len(s) <= Depth(c) + 1 /\ ~(Len(s) > Depth(c)) /\ \A i \in 1..Depth(c) : ~(i > Len(s))
    BY <1>2, <1>5
  <2>3. \A i \in 1..Len(s) : /\ Same(stack[c][i], s[i])
                             /\ s[i].fn \in {"query", "lookup", "detail"} /\ s[i].at # "start" =>
                                  s[i].name \in live \cup {}
    BY <1>5, <1>7 DEF Holds
  <2> QED BY <1>5, <1>6, <1>8, <1>10, <2>1, <2>2, <2>3 DEF Moves, Keeps
<1> QED BY <1>11, MovesInv

\* A step that calls g: the innermost frame becomes f.
LEMMA CallMoves ==
  ASSUME StatementsInv, NEW c \in Callers, Busy(c), NEW f, FrameOK(f), Same(Top(c), f),
         Holds(f, {}), NEW g, FrameOK(g), Nested(f, g),
         g.fn = "prepare" => g.name = nextName /\ nextName' = nextName + 1 /\ g.ans = "none",
         g.fn # "prepare" => g.at = "start" /\ nextName' = nextName,
         UNCHANGED <<owned, slots, abandoned>>,
         stack' = Pushed(c, f, g), NEW sent, Asking(c, Depth(c) + 1, g, sent), Settle({}, sent)
  PROVE  StatementsInv'
<1>1. TypeOK /\ Depth(c) = Len(stack[c]) /\ stack[c] # <<>>
  BY DEF StatementsInv, Depth, Busy
<1>2. /\ StackOK(stack[c]) /\ Depth(c) \in Nat /\ Depth(c) \in 1..Depth(c)
  BY <1>1, Innermost
<1>3. PICK r : r = [stack[c] EXCEPT ![Len(stack[c])] = f]
  OBVIOUS
<1>4. Fits(stack[c], Len(stack[c]), f)
  BY <1>1, <1>2, FitsSame DEF Same, Top
<1>5. /\ StackOK(r) /\ Len(r) = Depth(c) /\ r[Depth(c)] = f
      /\ \A i \in 1..Depth(c) : i # Depth(c) => r[i] = stack[c][i]
  BY <1>1, <1>2, <1>3, <1>4, TopChanged
<1>6. PICK s : s = Append(r, g)
  OBVIOUS
<1>7. /\ StackOK(s) /\ Len(s) = Depth(c) + 1 /\ s[Depth(c) + 1] = g
      /\ \A i \in 1..Depth(c) : s[i] = r[i]
  <2>1. r # <<>>
    BY <1>2, <1>5
  <2>2. StackOK(r) /\ FrameOK(g) /\ Nested(r[Len(r)], g)
    BY <1>5
  <2>3. /\ StackOK(s) /\ Len(s) = Len(r) + 1 /\ s[Len(r) + 1] = g
        /\ \A i \in 1..Len(r) : s[i] = r[i]
    BY <1>6, <2>1, <2>2, Grown DEF On
  <2> QED BY <1>5, <2>3
<1>8. stack' = [stack EXCEPT ![c] = s]
  BY <1>3, <1>6 DEF Pushed, Depth
<1>9. \A i \in 1..Depth(c) : Same(stack[c][i], s[i]) /\ Holds(s[i], {})
  <2>1. ASSUME NEW i \in 1..Depth(c), i # Depth(c) PROVE Same(stack[c][i], s[i]) /\ Holds(s[i], {})
    <3>1. s[i] = stack[c][i]
      BY <1>5, <1>7, <2>1
    <3>2. Holds(stack[c][i], {}) /\ Same(stack[c][i], stack[c][i])
      BY <1>1, FrameIn, SameSelf, OldHolds
    <3> QED BY <3>1, <3>2
  <2> QED BY <1>2, <1>5, <1>7, <2>1 DEF Top
<1>10. Keeps({})
  BY KeepsSame
<1>11. s # <<>>
  BY <1>2, <1>7
<1>12. Sends(c, s, sent)
  BY <1>7, <1>11 DEF Asking, Sends
<1>13. Moves(c, s, {}, sent)
  <2>1. /\ nextName' \in {nextName, nextName + 1} /\ abandoned \subseteq abandoned'
        /\ Creates(c, s, {})
    BY DEF Creates
  <2>2. Len(s) <= Depth(c) + 1 /\ \A i \in 1..Depth(c) : ~(i > Len(s))
    BY <1>2, <1>7
  <2>3. \A i \in 1..Len(s) : i \in 1..Depth(c) \/ (i = Depth(c) + 1 /\ ~(i <= Depth(c)))
    BY <1>2, <1>7
  <2>4. \A i \in 1..Len(s) : /\ i <= Depth(c) => Same(stack[c][i], s[i])
                             /\ s[i].fn \in {"query", "lookup", "detail"} /\ s[i].at # "start" =>
                                  s[i].name \in live \cup {}
    BY <1>7, <1>9, <2>3 DEF Holds
  <2> QED BY <1>7, <1>8, <1>10, <1>12, <2>1, <2>2, <2>4 DEF Moves, Keeps
<1> QED BY <1>13, MovesInv

\* A step that returns: the frame around the innermost becomes f.
LEMMA ReturnMoves ==
  ASSUME StatementsInv, NEW c \in Callers, Busy(c), Depth(c) # 1, NEW f, FrameOK(f),
         Same(Below(c), f), NEW created, Holds(f, created), Keeps(created),
         \/ created = {} \/ /\ created = {Top(c).name} /\ Top(c).fn = "prepare"
                            /\ Top(c).at = "answered",
         abandoned \subseteq abandoned',
         Top(c).fn = "prepare" => Top(c).name \in abandoned' \/ created = {Top(c).name},
         nextName' = nextName, stack' = Popped(c, f), Settle(created, <<>>)
  PROVE  StatementsInv'
<1>1. TypeOK /\ Depth(c) = Len(stack[c]) /\ stack[c] # <<>>
  BY DEF StatementsInv, Depth, Busy
<1>2. /\ StackOK(stack[c]) /\ Depth(c) \in Nat /\ Depth(c) \in 1..Depth(c)
      /\ Depth(c) > 1 /\ Depth(c) - 1 \in 1..Depth(c)
      /\ FrameOK(Top(c)) /\ Top(c) \in Frame
  BY <1>1, Innermost
<1>3. PICK s : s = SubSeq(stack[c], 1, Len(stack[c]) - 2) \o <<f>>
  OBVIOUS
<1>4. Fits(stack[c], Len(stack[c]) - 1, f)
  BY <1>1, <1>2, FitsSame DEF Same, Below
<1>5. /\ StackOK(s) /\ Len(s) = Depth(c) - 1 /\ s[Depth(c) - 1] = f
      /\ \A i \in 1..Depth(c) - 2 : s[i] = stack[c][i]
  <2>1. Len(stack[c]) > 1
    BY <1>1, <1>2
  <2>2. Under(stack[c], f, SubSeq(stack[c], 1, Len(stack[c]) - 2) \o <<f>>)
    BY <1>2, <1>4, <2>1, Shrunk
  <2>3. Under(stack[c], f, s)
    BY <1>3, <2>2
  <2> QED BY <1>1, <2>3 DEF Under
<1>6. stack' = [stack EXCEPT ![c] = s]
  BY <1>3 DEF Popped, Depth
<1>7. \A i \in 1..Len(s) : Same(stack[c][i], s[i]) /\ Holds(s[i], created)
  <2>1. ASSUME NEW i \in 1..Depth(c) - 2
        PROVE  Same(stack[c][i], s[i]) /\ Holds(s[i], created)
    <3>1. s[i] = stack[c][i] /\ i \in 1..Depth(c)
      BY <1>2, <1>5
    <3>2. Holds(stack[c][i], created) /\ Same(stack[c][i], stack[c][i])
      BY <1>1, <3>1, FrameIn, SameSelf, OldHolds
    <3> QED BY <3>1, <3>2
  <2>2. \A i \in 1..Len(s) : i \in 1..Depth(c) - 2 \/ i = Depth(c) - 1
    BY <1>2, <1>5
  <2> QED BY <1>5, <2>1, <2>2 DEF Below
<1>8. Creates(c, s, created)
  <2>1. CASE created = {}
    BY <2>1 DEF Creates
  <2>2. CASE created = {Top(c).name} /\ Top(c).fn = "prepare" /\ Top(c).at = "answered"
    <3>1. Prepares(c, Depth(c), Top(c).name) /\ Top(c).name \in Nat
      BY <1>2, <2>2 DEF Prepares, Top, Frame
    <3>2. Len(s) < Depth(c)
      BY <1>2, <1>5
    <3> QED BY <2>2, <3>1, <3>2 DEF Creates
  <2> QED BY <2>1, <2>2
<1>9. \A i \in 1..Depth(c) : i > Len(s) /\ stack[c][i].fn = "prepare" =>
        \/ stack[c][i].name \in abandoned'
        \/ stack[c][i].at = "answered" /\ created = {stack[c][i].name}
  <2>1. \A i \in 1..Depth(c) : i > Len(s) => i = Depth(c)
    BY <1>2, <1>5
  <2>2. Top(c).fn = "prepare" => \/ Top(c).name \in abandoned'
                                 \/ Top(c).at = "answered" /\ created = {Top(c).name}
    OBVIOUS
  <2> QED BY <2>1, <2>2 DEF Top
<1>10. Moves(c, s, created, <<>>)
  <2>1. nextName' \in {nextName, nextName + 1} /\ Sends(c, s, <<>>)
    BY DEF Sends
  <2>2. Len(s) <= Depth(c) + 1 /\ ~(Len(s) > Depth(c))
    BY <1>2, <1>5
  <2>3. \A i \in 1..Len(s) : /\ i <= Depth(c) => Same(stack[c][i], s[i])
                             /\ s[i].fn \in {"query", "lookup", "detail"} /\ s[i].at # "start" =>
                                  s[i].name \in live \cup created
    BY <1>7 DEF Holds
  <2> QED BY <1>5, <1>6, <1>8, <1>9, <2>1, <2>2, <2>3 DEF Moves, Keeps
<1> QED BY <1>10, MovesInv

\* A step that ends the call.
LEMMA EndMoves ==
  ASSUME StatementsInv, NEW c \in Callers, Busy(c), NEW created, Keeps(created),
         \/ created = {} \/ /\ created = {Top(c).name} /\ Top(c).fn = "prepare"
                            /\ Top(c).at = "answered",
         abandoned \subseteq abandoned',
         \A i \in 1..Depth(c) : stack[c][i].fn = "prepare" =>
           \/ stack[c][i].name \in abandoned'
           \/ stack[c][i].at = "answered" /\ created = {stack[c][i].name},
         nextName' = nextName, stack' = [stack EXCEPT ![c] = <<>>], Settle(created, <<>>)
  PROVE  StatementsInv'
<1>1. TypeOK /\ Depth(c) = Len(stack[c]) /\ stack[c] # <<>>
  BY DEF StatementsInv, Depth, Busy
<1>2. /\ Depth(c) \in Nat /\ Depth(c) \in 1..Depth(c) /\ Top(c) \in Frame
  BY <1>1, Innermost
<1>3. PICK s : s = <<>>
  OBVIOUS
<1>4. StackOK(s) /\ Len(s) = 0
  BY <1>3 DEF StackOK
<1>5. Creates(c, s, created)
  <2>1. CASE created = {}
    BY <2>1 DEF Creates
  <2>2. CASE created = {Top(c).name} /\ Top(c).fn = "prepare" /\ Top(c).at = "answered"
    <3>1. Prepares(c, Depth(c), Top(c).name) /\ Top(c).name \in Nat
      BY <1>2, <2>2 DEF Prepares, Top, Frame
    <3>2. Len(s) < Depth(c)
      BY <1>2, <1>4
    <3> QED BY <2>2, <3>1, <3>2 DEF Creates
  <2> QED BY <2>1, <2>2
<1>6. Moves(c, s, created, <<>>)
  <2>1. /\ nextName' \in {nextName, nextName + 1} /\ Sends(c, s, <<>>)
        /\ stack' = [stack EXCEPT ![c] = s]
    BY <1>3 DEF Sends
  <2>2. Len(s) <= Depth(c) + 1 /\ ~(Len(s) > Depth(c)) /\ \A i \in 1..Len(s) : FALSE
    BY <1>2, <1>4
  <2> QED BY <1>4, <1>5, <2>1, <2>2 DEF Moves, Keeps
<1> QED BY <1>6, MovesInv

\* A step that begins a call.
LEMMA StartMoves ==
  ASSUME StatementsInv, NEW c \in Callers, ~Busy(c), NEW f, FrameOK(f), Outermost(f),
         f.fn = "prepare" => f.name = nextName /\ nextName' = nextName + 1 /\ f.ans = "none",
         f.fn # "prepare" => nextName' = nextName,
         Holds(f, {}), UNCHANGED <<owned, slots, abandoned>>,
         stack' = [stack EXCEPT ![c] = <<f>>], NEW sent, Asking(c, 1, f, sent), Settle({}, sent)
  PROVE  StatementsInv'
<1>1. Depth(c) = 0
  BY DEF Depth, Busy
<1>2. PICK s : s = <<f>>
  OBVIOUS
<1>3. StackOK(s) /\ Len(s) = 1 /\ s[1] = f /\ s # <<>>
  <2>1. f \in Frame
    BY DEF FrameOK
  <2>2. s \in Seq(Frame) /\ Len(s) = 1 /\ s[1] = f /\ s # <<>>
    BY <1>2, <2>1
  <2> QED BY <2>2 DEF StackOK
<1>4. Keeps({})
  BY KeepsSame
<1>5. Sends(c, s, sent)
  BY <1>1, <1>3 DEF Asking, Sends
<1>6. Moves(c, s, {}, sent)
  <2>1. /\ nextName' \in {nextName, nextName + 1} /\ abandoned \subseteq abandoned'
        /\ Creates(c, s, {}) /\ stack' = [stack EXCEPT ![c] = s]
    BY <1>2 DEF Creates
  <2>2. /\ Len(s) <= Depth(c) + 1 /\ \A i \in 1..Len(s) : i = 1 /\ ~(i <= Depth(c))
        /\ \A i \in 1..Depth(c) : FALSE
    BY <1>1, <1>3
  <2>3. \A i \in 1..Len(s) : s[i].fn \in {"query", "lookup", "detail"} /\ s[i].at # "start" =>
                               s[i].name \in live \cup {}
    BY <1>3, <2>2 DEF Holds
  <2> QED BY <1>3, <1>4, <1>5, <2>1, <2>2, <2>3 DEF Moves, Keeps
<1> QED BY <1>6, MovesInv

\* A step that leaves the stacks alone.
LEMMA KeepMoves ==
  ASSUME StatementsInv, NEW c \in Callers, Keeps({}), UNCHANGED <<stack, nextName, abandoned>>,
         Settle({}, <<>>)
  PROVE  StatementsInv'
<1>1. TypeOK /\ stack \in [Callers -> Seq(Frame)] /\ StackOK(stack[c]) /\ Depth(c) = Len(stack[c])
  BY DEF StatementsInv, TypeOK, Depth
<1>2. Depth(c) \in Nat
  BY <1>1, LenProperties
<1>3. \A i \in 1..Depth(c) : Same(stack[c][i], stack[c][i]) /\ Holds(stack[c][i], {})
  BY <1>1, FrameIn, SameSelf, OldHolds
<1>4. Moves(c, stack[c], {}, <<>>)
  <2>1. /\ nextName' \in {nextName, nextName + 1} /\ abandoned \subseteq abandoned'
        /\ Creates(c, stack[c], {}) /\ Sends(c, stack[c], <<>>)
        /\ stack' = [stack EXCEPT ![c] = stack[c]]
    BY <1>1 DEF Creates, Sends
  <2>2. /\ Len(stack[c]) <= Depth(c) + 1 /\ ~(Len(stack[c]) > Depth(c))
        /\ \A i \in 1..Depth(c) : ~(i > Len(stack[c]))
    BY <1>1, <1>2
  <2>3. \A i \in 1..Len(stack[c]) :
          /\ i <= Depth(c) => Same(stack[c][i], stack[c][i])
          /\ stack[c][i].fn \in {"query", "lookup", "detail"} /\ stack[c][i].at # "start" =>
               stack[c][i].name \in live \cup {}
    BY <1>1, <1>3 DEF Holds
  <2> QED BY <1>1, <2>1, <2>2, <2>3 DEF Moves, Keeps
<1> QED BY <1>4, MovesInv

-----------------------------------------------------------------------------
(* The steps of a caller                                                   *)

LEMMA NewFrameFacts ==
  ASSUME NEW fn \in {"prepare", "lookup", "detail", "query", "typed"},
         NEW slot \in Slots \cup {"user"}, NEW n \in Nat,
         NEW at \in {"start", "holding", "sent", "answered"},
         NEW f, f = NewFrame(fn, slot, n, at)
  PROVE  /\ f \in Frame /\ f.fn = fn /\ f.slot = slot /\ f.name = n /\ f.at = at
         /\ f.ans = "none" /\ f.buf = 0 /\ ~f.whole /\ f.todo = <<>>
<1>1. 0 \in 0..ChanCap /\ <<>> \in Seq(Oids)
  BY StatementsAssumption
<1> QED BY <1>1 DEF NewFrame, Frame

LEMMA RequestFacts ==
  ASSUME NEW op \in {"parse", "run", "typed", "close"}, NEW slot \in Slots \cup {"user"},
         NEW n \in Nat, NEW c \in Callers, NEW d \in Nat,
         NEW q, q = Request(op, slot, n, <<c, d>>)
  PROVE  q \in WireRequest /\ q.op = op /\ q.slot = slot /\ q.name = n /\ q.owner = <<c, d>>
BY DEF Request, WireRequest, Owner

LEMMA StartSteps ==
  ASSUME StatementsInv, NEW c \in Callers, CallPrepare(c) \/ CallQuery(c) \/ CallTyped(c)
  PROVE  StatementsInv'
<1>1. /\ TypeOK /\ Holding /\ nextName \in Nat /\ ~Busy(c)
  BY DEF StatementsInv, TypeOK, CallPrepare, CallQuery, CallTyped, Start, Call
<1>2. CASE CallPrepare(c)
  <2>1. PICK f : f = NewFrame("prepare", "user", nextName, "sent")
    OBVIOUS
  <2>2. PICK q : q = Request("parse", "user", nextName, <<c, 1>>)
    OBVIOUS
  <2>3. /\ f \in Frame /\ f.fn = "prepare" /\ f.slot = "user" /\ f.name = nextName /\ f.at = "sent"
        /\ f.ans = "none" /\ f.buf = 0 /\ ~f.whole /\ f.todo = <<>>
    BY <1>1, <2>1, NewFrameFacts
  <2>4. /\ q \in WireRequest /\ q.op = "parse" /\ q.name = nextName /\ q.owner = <<c, 1>>
    BY <1>1, <2>2, RequestFacts
  <2>5. FrameOK(f) /\ Outermost(f) /\ Holds(f, {})
    BY <2>3 DEF FrameOK, Outermost, Holds
  <2>6. Asking(c, 1, f, <<q>>)
    <3>1. Asks(f, q)
      BY <2>3, <2>4 DEF Asks
    <3>2. 1 <= Depth(c) => FALSE
      BY <1>1 DEF Depth, Busy
    <3> QED BY <2>4, <3>1, <3>2 DEF Asking
  <2>7. /\ stack' = [stack EXCEPT ![c] = <<f>>] /\ Settle({}, <<q>>)
        /\ UNCHANGED <<owned, slots, abandoned>> /\ nextName' = nextName + 1
    BY <1>2, <2>1, <2>2 DEF CallPrepare, Start
  <2> QED BY <1>1, <2>3, <2>5, <2>6, <2>7, StartMoves
<1>3. CASE CallQuery(c)
  <2>1. PICK n \in owned[c] : Start(c, NewFrame("query", "user", n, "holding"), <<>>)
    BY <1>3 DEF CallQuery
  <2>2. n \in Nat /\ n \in live
    <3>1. n \in live /\ live \subseteq Nat
      BY <1>1 DEF TypeOK, Holding
    <3> QED BY <3>1
  <2>3. PICK f : f = NewFrame("query", "user", n, "holding")
    OBVIOUS
  <2>4. /\ f \in Frame /\ f.fn = "query" /\ f.slot = "user" /\ f.name = n /\ f.at = "holding"
        /\ f.ans = "none" /\ f.buf = 0 /\ ~f.whole /\ f.todo = <<>>
    <3>1. 0 \in 0..ChanCap /\ <<>> \in Seq(Oids)
      BY StatementsAssumption
    <3> QED BY <2>2, <2>3, <3>1 DEF NewFrame, Frame
  <2>5. FrameOK(f) /\ Outermost(f) /\ Holds(f, {})
    BY <2>2, <2>4 DEF FrameOK, Outermost, Holds
  <2>6. Asking(c, 1, f, <<>>)
    BY DEF Asking
  <2>7. /\ stack' = [stack EXCEPT ![c] = <<f>>] /\ Settle({}, <<>>)
        /\ UNCHANGED <<owned, slots, abandoned>> /\ nextName' = nextName
    BY <1>3, <2>1, <2>3 DEF CallQuery, Start
  <2> QED BY <1>1, <2>4, <2>5, <2>6, <2>7, StartMoves
<1>4. CASE CallTyped(c)
  <2>1. PICK f : f = NewFrame("typed", "user", 0, "sent")
    OBVIOUS
  <2>2. PICK q : q = Request("typed", "user", 0, <<c, 1>>)
    OBVIOUS
  <2>3. /\ f \in Frame /\ f.fn = "typed" /\ f.slot = "user" /\ f.name = 0 /\ f.at = "sent"
        /\ f.ans = "none" /\ f.buf = 0 /\ ~f.whole /\ f.todo = <<>>
    BY <2>1, NewFrameFacts
  <2>4. /\ q \in WireRequest /\ q.op = "typed" /\ q.name = 0 /\ q.owner = <<c, 1>>
    BY <2>2 DEF Request, WireRequest, Owner
  <2>5. FrameOK(f) /\ Outermost(f) /\ Holds(f, {})
    BY <2>3 DEF FrameOK, Outermost, Holds
  <2>6. Asking(c, 1, f, <<q>>)
    <3>1. Asks(f, q)
      BY <2>3, <2>4 DEF Asks
    <3>2. 1 <= Depth(c) => FALSE
      BY <1>1 DEF Depth, Busy
    <3> QED BY <2>4, <3>1, <3>2 DEF Asking
  <2>7. /\ stack' = [stack EXCEPT ![c] = <<f>>] /\ Settle({}, <<q>>)
        /\ UNCHANGED <<owned, slots, abandoned>> /\ nextName' = nextName
    BY <1>4, <2>1, <2>2 DEF CallTyped, Start
  <2> QED BY <1>1, <2>3, <2>5, <2>6, <2>7, StartMoves
<1> QED BY <1>2, <1>3, <1>4

LEMMA DropStep ==
  ASSUME StatementsInv, NEW c \in Callers, DropStatement(c)
  PROVE  StatementsInv'
<1>1. PICK n \in owned[c] : owned' = [owned EXCEPT ![c] = @ \ {n}]
  BY DEF DropStatement
<1>2. TypeOK /\ Holding
  BY DEF StatementsInv
<1>3. Keeps({})
  <2>1. owned' \in [Callers -> SUBSET Nat] /\ \A k \in Callers : owned'[k] \subseteq owned[k]
    BY <1>1, <1>2 DEF TypeOK
  <2>2. slots' = slots
    BY DEF DropStatement
  <2> QED BY <1>2, <2>1, <2>2 DEF Keeps, Holding, TypeOK
<1> QED BY <1>3, KeepMoves DEF DropStatement

LEMMA GiveUpStep ==
  ASSUME StatementsInv, NEW c \in Callers, Busy(c), GiveUp(c)
  PROVE  StatementsInv'
<1>1. \A i \in 1..Depth(c) : stack[c][i].fn = "prepare" => stack[c][i].name \in abandoned'
  <2>1. SUFFICES ASSUME NEW i \in 1..Depth(c), stack[c][i].fn = "prepare"
                 PROVE  stack[c][i].name \in abandoned'
    OBVIOUS
  <2>2. stack[c][i] \in {g \in Frames(c) : g.fn = "prepare"}
    BY <2>1 DEF Frames
  <2> QED BY <2>2 DEF GiveUp
<1>2. Keeps({}) /\ abandoned \subseteq abandoned'
  BY KeepsSame DEF GiveUp
<1> QED BY <1>1, <1>2, EndMoves DEF GiveUp

LEMMA RunStep ==
  ASSUME StatementsInv, NEW c \in Callers, Run(c)
  PROVE  StatementsInv'
<1>1. TypeOK /\ Busy(c) /\ Top(c).at = "holding"
  BY DEF StatementsInv, Run
<1>2. FrameOK(Top(c)) /\ Top(c) \in Frame /\ Depth(c) \in 1..Depth(c) /\ Depth(c) \in Nat
  BY <1>1, Innermost
<1>3. Holds(Top(c), {})
  BY <1>2, OldHolds DEF Top
<1>4. PICK e : e = Top(c)
  OBVIOUS
<1>5. PICK f : f = [e EXCEPT !.at = "sent"]
  OBVIOUS
<1>6. /\ f \in Frame /\ f.at = "sent" /\ f.fn = e.fn /\ f.slot = e.slot /\ f.name = e.name
      /\ f.ans = e.ans /\ f.buf = e.buf /\ f.whole = e.whole /\ f.todo = e.todo /\ f.oid = e.oid
  BY <1>2, <1>4, <1>5 DEF Frame
<1>7. e.fn \in {"query", "lookup", "detail"} /\ e.ans = "none" /\ e.todo = <<>>
  BY <1>1, <1>2, <1>4 DEF FrameOK, Frame
<1>8. FrameOK(f) /\ Same(Top(c), f) /\ Holds(f, {})
  BY <1>1, <1>2, <1>3, <1>4, <1>6, <1>7 DEF FrameOK, Same, Holds
<1>9. PICK q : q = Request("run", Top(c).slot, Top(c).name, <<c, Depth(c)>>)
  OBVIOUS
<1>10. /\ q \in WireRequest /\ q.op = "run" /\ q.slot = e.slot /\ q.name = e.name
       /\ q.owner = <<c, Depth(c)>>
  <2>1. e.slot \in Slots \cup {"user"} /\ e.name \in Nat
    BY <1>2, <1>4 DEF Frame
  <2> QED BY <1>2, <1>4, <1>9, <2>1, RequestFacts
<1>11. Asking(c, Depth(c), f, <<q>>)
  <2>1. Asks(f, q)
    BY <1>6, <1>7, <1>8, <1>10 DEF Asks, FrameOK
  <2>2. stack[c][Depth(c)].at \notin {"sent", "answered"}
    BY <1>1 DEF Top
  <2> QED BY <1>6, <1>7, <1>10, <2>1, <2>2 DEF Asking
<1>12. /\ stack' = WithTop(c, f) /\ Settle({}, <<q>>)
       /\ UNCHANGED <<owned, slots, nextName, abandoned>>
  BY <1>4, <1>5, <1>9 DEF Run
<1> QED BY <1>1, <1>8, <1>11, <1>12, TopMoves

LEMMA BeginStep ==
  ASSUME StatementsInv, NEW c \in Callers, Begin(c)
  PROVE  StatementsInv'
<1>1. TypeOK /\ Holding /\ Busy(c) /\ Top(c).at = "start" /\ nextName \in Nat
  BY DEF StatementsInv, Begin, TypeOK
<1>2. FrameOK(Top(c)) /\ Top(c) \in Frame /\ Depth(c) \in 1..Depth(c) /\ Depth(c) \in Nat
  BY <1>1, Innermost
<1>3. PICK e : e = Top(c)
  OBVIOUS
<1>4. e.fn \in {"lookup", "detail"} /\ e.slot \in Slots /\ e.ans = "none" /\ e.todo = <<>>
  BY <1>1, <1>2, <1>3 DEF FrameOK, Frame
<1>5. UNCHANGED <<owned, slots, abandoned>>
  BY DEF Begin
<1>6. CASE slots[Top(c).slot] # 0 /\ ~Top(c).fallback
  <2>1. PICK n : n = slots[e.slot]
    OBVIOUS
  <2>2. n \in live /\ n \in Nat
    BY <1>1, <1>3, <1>4, <1>6, <2>1 DEF Holding, TypeOK
  <2>3. PICK f : f = [e EXCEPT !.name = n, !.at = "holding"]
    OBVIOUS
  <2>4. /\ f \in Frame /\ f.at = "holding" /\ f.fn = e.fn /\ f.slot = e.slot /\ f.name = n
        /\ f.ans = e.ans /\ f.buf = e.buf /\ f.whole = e.whole /\ f.todo = e.todo /\ f.oid = e.oid
    BY <1>2, <1>3, <2>2, <2>3 DEF Frame
  <2>5. FrameOK(f) /\ Same(Top(c), f) /\ Holds(f, {})
    BY <1>1, <1>2, <1>3, <1>4, <2>2, <2>4 DEF FrameOK, Same, Holds
  <2>6. Asking(c, Depth(c), f, <<>>)
    BY DEF Asking
  <2>7. stack' = WithTop(c, f) /\ Settle({}, <<>>) /\ nextName' = nextName
    BY <1>3, <1>6, <2>1, <2>3 DEF Begin
  <2> QED BY <1>1, <1>5, <2>5, <2>6, <2>7, TopMoves
<1>7. CASE ~(slots[Top(c).slot] # 0 /\ ~Top(c).fallback)
  <2>1. PICK g : g = NewFrame("prepare", e.slot, nextName, "sent")
    OBVIOUS
  <2>2. /\ g \in Frame /\ g.fn = "prepare" /\ g.slot = e.slot /\ g.name = nextName /\ g.at = "sent"
        /\ g.ans = "none" /\ g.buf = 0 /\ ~g.whole /\ g.todo = <<>>
    BY <1>1, <1>4, <2>1, NewFrameFacts
  <2>3. FrameOK(g) /\ Nested(Top(c), g)
    BY <1>1, <1>4, <2>2 DEF FrameOK, Nested
  <2>4. Same(Top(c), Top(c)) /\ Holds(Top(c), {})
    BY <1>1, <1>2, SameSelf DEF Holds
  <2>5. PICK q : q = Request("parse", e.slot, nextName, <<c, Depth(c) + 1>>)
    OBVIOUS
  <2>6. /\ q \in WireRequest /\ q.op = "parse" /\ q.name = nextName /\ q.owner = <<c, Depth(c) + 1>>
    <3>1. Depth(c) + 1 \in Nat /\ e.slot \in Slots \cup {"user"}
      BY <1>2, <1>4
    <3> QED BY <1>1, <2>5, <3>1 DEF Request, WireRequest, Owner
  <2>7. Asking(c, Depth(c) + 1, g, <<q>>)
    <3>1. Asks(g, q)
      BY <2>2, <2>6 DEF Asks
    <3>2. ~(Depth(c) + 1 <= Depth(c))
      BY <1>2
    <3> QED BY <2>6, <3>1, <3>2 DEF Asking
  <2>8. stack' = Pushed(c, Top(c), g) /\ Settle({}, <<q>>) /\ nextName' = nextName + 1
    BY <1>3, <1>7, <2>1, <2>5 DEF Begin
  <2> QED BY <1>1, <1>2, <1>5, <2>2, <2>3, <2>4, <2>7, <2>8, CallMoves
<1> QED BY <1>6, <1>7

LEMMA ResolveStep ==
  ASSUME StatementsInv, NEW c \in Callers, Resolve(c)
  PROVE  StatementsInv'
<1>1. TypeOK /\ Busy(c) /\ Top(c).at = "answered" /\ Top(c).todo # <<>>
  BY DEF StatementsInv, Resolve, Ready
<1>2. FrameOK(Top(c)) /\ Top(c) \in Frame /\ Depth(c) \in 1..Depth(c)
  BY <1>1, Innermost
<1>3. PICK e : e = Top(c)
  OBVIOUS
<1>4. /\ e.todo \in Seq(Oids) /\ Head(e.todo) \in Oids /\ Tail(e.todo) \in Seq(Oids)
  <2>1. e.todo \in Seq(Oids) /\ e.todo # <<>>
    BY <1>1, <1>2, <1>3 DEF Frame
  <2> QED BY <2>1, HeadTailProperties
<1>5. Holds(e, {})
  BY <1>2, <1>3, OldHolds DEF Top
<1>6. UNCHANGED <<owned, slots, nextName, abandoned>> /\ Settle({}, <<>>)
  BY DEF Resolve
<1>7. CASE Head(e.todo) \in types
  <2>1. PICK f : f = [e EXCEPT !.todo = Tail(@)]
    OBVIOUS
  <2>2. /\ f \in Frame /\ f.at = e.at /\ f.fn = e.fn /\ f.slot = e.slot /\ f.name = e.name
        /\ f.ans = e.ans /\ f.buf = e.buf /\ f.whole = e.whole /\ f.oid = e.oid
    BY <1>2, <1>3, <1>4, <2>1 DEF Frame
  <2>3. e.buf \in Nat
    BY <1>2, <1>3, StatementsAssumption DEF Frame
  <2>4. e.fn = "prepare" => e.slot = "user"
    BY <1>1, <1>2, <1>3 DEF FrameOK
  <2>5. FrameOK(f) /\ Same(Top(c), f) /\ Holds(f, {})
    <3>1. FrameOK(f)
      BY <1>1, <1>2, <1>3, <2>2, <2>4 DEF FrameOK
    <3>2. Same(e, f) /\ Holds(f, {})
      BY <1>1, <1>3, <1>5, <2>2, <2>3 DEF Same, Holds, Used
    <3> QED BY <1>3, <3>1, <3>2
  <2>6. Asking(c, Depth(c), f, <<>>)
    BY DEF Asking
  <2>7. stack' = WithTop(c, f)
    BY <1>3, <1>7, <2>1 DEF Resolve
  <2> QED BY <1>1, <1>6, <2>5, <2>6, <2>7, TopMoves
<1>8. CASE Head(e.todo) \notin types
  <2>1. PICK g0 : g0 = NewFrame("lookup", "info", 0, "start")
    OBVIOUS
  <2>2. PICK g : g = [g0 EXCEPT !.oid = Head(e.todo)]
    OBVIOUS
  <2>3. /\ g0 \in Frame /\ g0.fn = "lookup" /\ g0.slot = "info" /\ g0.at = "start"
        /\ g0.ans = "none" /\ g0.buf = 0 /\ ~g0.whole /\ g0.todo = <<>>
    BY <2>1, NewFrameFacts DEF Slots
  <2>4. /\ g \in Frame /\ g.fn = "lookup" /\ g.slot = "info" /\ g.at = "start"
        /\ g.ans = "none" /\ g.buf = 0 /\ ~g.whole /\ g.todo = <<>> /\ g.oid \in Oids
    BY <1>4, <2>2, <2>3 DEF Frame
  <2>5. FrameOK(g) /\ Nested(e, g)
    BY <1>1, <1>3, <2>4 DEF FrameOK, Nested, Slots
  <2>6. Same(Top(c), e) /\ FrameOK(e)
    BY <1>2, <1>3, SameSelf
  <2>7. Asking(c, Depth(c) + 1, g, <<>>)
    BY DEF Asking
  <2>8. stack' = Pushed(c, e, g)
    BY <1>3, <1>8, <2>1, <2>2 DEF Resolve
  <2> QED BY <1>1, <1>5, <1>6, <2>4, <2>5, <2>6, <2>7, <2>8, CallMoves
<1> QED BY <1>7, <1>8

LEMMA DrainStep ==
  ASSUME StatementsInv, NEW c \in Callers, Drain(c)
  PROVE  StatementsInv'
<1>1. TypeOK /\ Busy(c) /\ Top(c).at = "answered" /\ Top(c).buf > 0
  BY DEF StatementsInv, Drain, Ready
<1>2. FrameOK(Top(c)) /\ Top(c) \in Frame /\ Depth(c) \in 1..Depth(c)
  BY <1>1, Innermost
<1>3. PICK e : e = Top(c)
  OBVIOUS
<1>4. Holds(e, {})
  BY <1>2, <1>3, OldHolds DEF Top
<1>5. e.buf \in 0..ChanCap /\ e.buf - 1 \in 0..ChanCap /\ e.buf \in Nat
  BY <1>1, <1>2, <1>3, StatementsAssumption DEF Frame
<1>6. PICK f : f = [e EXCEPT !.buf = @ - 1]
  OBVIOUS
<1>7. /\ f \in Frame /\ f.at = e.at /\ f.fn = e.fn /\ f.slot = e.slot /\ f.name = e.name
      /\ f.ans = e.ans /\ f.buf = e.buf - 1 /\ f.whole = e.whole /\ f.todo = e.todo /\ f.oid = e.oid
  BY <1>2, <1>3, <1>5, <1>6 DEF Frame
<1>8. FrameOK(f)
  BY <1>1, <1>2, <1>3, <1>7 DEF FrameOK
<1>9. Same(e, f) /\ Holds(f, {})
  BY <1>1, <1>3, <1>4, <1>5, <1>7 DEF Same, Holds, Used
<1>10. Asking(c, Depth(c), f, <<>>)
  BY DEF Asking
<1>11. /\ stack' = WithTop(c, f) /\ Settle({}, <<>>)
       /\ UNCHANGED <<owned, slots, nextName, abandoned>>
  BY <1>3, <1>6 DEF Drain
<1> QED BY <1>1, <1>3, <1>8, <1>9, <1>10, <1>11, TopMoves

LEMMA AnsweredStep ==
  ASSUME StatementsInv, NEW c \in Callers, Answered(c)
  PROVE  StatementsInv'
<1>1. TypeOK /\ Busy(c) /\ Top(c).at = "sent" /\ Top(c).ans = "ok"
  BY DEF StatementsInv, Answered, Has
<1>2. FrameOK(Top(c)) /\ Top(c) \in Frame /\ Depth(c) \in 1..Depth(c)
  BY <1>1, Innermost
<1>3. PICK e : e = Top(c)
  OBVIOUS
<1>4. Holds(e, {})
  BY <1>2, <1>3, OldHolds DEF Top
<1>5. e.buf \in 0..ChanCap /\ e.buf - 1 \in 0..ChanCap /\ e.buf \in Nat /\ e.todo = <<>>
  BY <1>1, <1>2, <1>3, StatementsAssumption DEF Frame, FrameOK
<1>6. PICK f : f = [e EXCEPT !.at = "answered", !.buf = @ - 1]
  OBVIOUS
<1>7. /\ f \in Frame /\ f.at = "answered" /\ f.fn = e.fn /\ f.slot = e.slot /\ f.name = e.name
      /\ f.ans = e.ans /\ f.buf = e.buf - 1 /\ f.whole = e.whole /\ f.todo = e.todo /\ f.oid = e.oid
  BY <1>2, <1>3, <1>5, <1>6 DEF Frame
<1>8. UNCHANGED <<owned, slots, nextName, abandoned>> /\ Settle({}, <<>>)
  BY DEF Answered
<1>9. CASE HasDetail(f)
  <2>1. f.fn = "lookup" /\ f.oid \in Oids /\ Kind[f.oid] \in {"enum", "composite"}
    BY <1>2, <1>3, <1>7, <1>9 DEF HasDetail, FrameOK
  <2>2. FrameOK(f) /\ Same(e, f) /\ Holds(f, {})
    <3>1. FrameOK(f)
      BY <1>1, <1>2, <1>3, <1>5, <1>7 DEF FrameOK
    <3>2. Same(e, f) /\ Holds(f, {})
      BY <1>1, <1>3, <1>4, <1>5, <1>7 DEF Same, Holds, Used
    <3> QED BY <3>1, <3>2
  <2>3. PICK g : g = NewFrame("detail", Kind[f.oid], 0, "start")
    OBVIOUS
  <2>4. /\ g \in Frame /\ g.fn = "detail" /\ g.slot = Kind[f.oid] /\ g.at = "start"
        /\ g.ans = "none" /\ g.buf = 0 /\ ~g.whole /\ g.todo = <<>>
    <3>1. Kind[f.oid] \in Slots \cup {"user"}
      BY <2>1 DEF Slots
    <3> QED BY <2>3, <3>1, NewFrameFacts
  <2>5. FrameOK(g) /\ Nested(f, g)
    BY <1>7, <2>1, <2>4 DEF FrameOK, Nested, Slots
  <2>6. Asking(c, Depth(c) + 1, g, <<>>)
    BY DEF Asking
  <2>7. stack' = Pushed(c, f, g)
    BY <1>3, <1>6, <1>9, <2>3 DEF Answered
  <2> QED BY <1>1, <1>3, <1>8, <2>2, <2>4, <2>5, <2>6, <2>7, CallMoves
<1>10. CASE ~HasDetail(f)
  <2>1. PICK cols \in Wanted(f) : stack' = WithTop(c, [f EXCEPT !.todo = cols])
    BY <1>3, <1>6, <1>10 DEF Answered
  <2>2. /\ cols \in Seq(Oids)
        /\ cols # <<>> => f.fn \in {"prepare", "lookup", "typed"}
        /\ f.fn = "prepare" /\ f.slot # "user" => cols = <<>>
        /\ f.fn = "typed" /\ TypedColumns \subseteq {<<>>} => cols = <<>>
    <3>1. f.fn = "lookup" => f.oid \in Oids
      BY <1>2, <1>3, <1>7 DEF FrameOK
    <3>2. f.fn = "lookup" => Parts[f.oid] \in Seq(Oids)
      BY <3>1, StatementsAssumption
    <3>3. \/ f.fn = "typed" /\ cols \in TypedColumns
          \/ f.fn = "prepare" /\ f.slot = "user" /\ cols \in Columns
          \/ f.fn = "lookup" /\ cols = Parts[f.oid]
          \/ cols = <<>>
      BY <2>1 DEF Wanted
    <3>4. <<>> \in Seq(Oids) /\ Columns \subseteq Seq(Oids) /\ TypedColumns \subseteq Seq(Oids)
      BY StatementsAssumption
    <3> QED BY <3>2, <3>3, <3>4
  <2>3. PICK g : g = [f EXCEPT !.todo = cols]
    OBVIOUS
  <2>4. /\ g \in Frame /\ g.at = "answered" /\ g.fn = e.fn /\ g.slot = e.slot /\ g.name = e.name
        /\ g.ans = e.ans /\ g.buf = e.buf - 1 /\ g.whole = e.whole /\ g.todo = cols /\ g.oid = e.oid
    BY <1>7, <2>2, <2>3 DEF Frame
  <2>5. FrameOK(g)
    BY <1>1, <1>2, <1>3, <1>7, <2>2, <2>4 DEF FrameOK
  <2>6. Same(e, g) /\ Holds(g, {})
    BY <1>1, <1>3, <1>4, <1>5, <2>4 DEF Same, Holds, Used
  <2>7. Asking(c, Depth(c), g, <<>>)
    BY DEF Asking
  <2>8. stack' = WithTop(c, g)
    BY <2>1, <2>3
  <2> QED BY <1>1, <1>3, <1>8, <2>5, <2>6, <2>7, <2>8, TopMoves
<1> QED BY <1>9, <1>10

LEMMA UserNotSlot == "user" \notin Slots /\ {"info", "enum"} \subseteq Slots
BY DEF Slots

LEMMA FallBackStep ==
  ASSUME StatementsInv, NEW c \in Callers, FallBack(c)
  PROVE  StatementsInv'
<1>1. TypeOK /\ Busy(c) /\ Top(c).fn = "prepare" /\ Top(c).slot \in Slots
  BY UserNotSlot DEF StatementsInv, FallBack, Has, HasFallback
<1>2. Depth(c) # 1
  BY <1>1, Innermost, UserNotSlot DEF Outermost
<1>3. /\ Depth(c) - 1 \in 1..Depth(c) /\ FrameOK(Below(c)) /\ Below(c) \in Frame
      /\ Nested(Below(c), Top(c))
  BY <1>1, <1>2, Innermost
<1>4. PICK e : e = Below(c)
  OBVIOUS
<1>5. e.at = "start"
  BY <1>1, <1>3, <1>4 DEF Nested
<1>6. PICK f : f = [e EXCEPT !.fallback = TRUE]
  OBVIOUS
<1>7. /\ f \in Frame /\ f.at = e.at /\ f.fn = e.fn /\ f.slot = e.slot /\ f.name = e.name
      /\ f.ans = e.ans /\ f.buf = e.buf /\ f.whole = e.whole /\ f.todo = e.todo /\ f.oid = e.oid
  BY <1>3, <1>4, <1>6 DEF Frame
<1>8. FrameOK(f) /\ Same(e, f) /\ Holds(f, {})
  BY <1>3, <1>4, <1>5, <1>7 DEF FrameOK, Same, Holds
<1>9. Keeps({}) /\ abandoned \subseteq abandoned' /\ Top(c).name \in abandoned'
  BY KeepsSame DEF FallBack
<1>10. stack' = Popped(c, f) /\ Settle({}, <<>>) /\ nextName' = nextName
  BY <1>4, <1>6 DEF FallBack
<1> QED BY <1>1, <1>2, <1>4, <1>8, <1>9, <1>10, ReturnMoves

LEMMA PrepareDoneStep ==
  ASSUME StatementsInv, NEW c \in Callers, PrepareDone(c)
  PROVE  StatementsInv'
<1>1. /\ TypeOK /\ Holding /\ Busy(c) /\ Top(c).fn = "prepare" /\ Top(c).slot = "user"
      /\ Top(c).at = "answered"
  BY DEF StatementsInv, PrepareDone, Complete, Ready
<1>2. Depth(c) = 1 /\ Top(c) \in Frame
  BY <1>1, Innermost, UserNotSlot DEF Nested
<1>3. PICK n \in Nat : n = Top(c).name
  BY <1>2 DEF Frame
<1>4. Keeps({n})
  <2>1. owned' = [owned EXCEPT ![c] = @ \cup {n}] /\ slots' = slots
    BY <1>3 DEF PrepareDone
  <2>2. owned' \in [Callers -> SUBSET Nat] /\ \A k \in Callers : owned'[k] \subseteq owned[k] \cup {n}
    BY <1>1, <2>1 DEF TypeOK
  <2> QED BY <1>1, <2>1, <2>2 DEF Keeps, Holding, TypeOK
<1>5. \A i \in 1..Depth(c) : stack[c][i].fn = "prepare" =>
        stack[c][i].at = "answered" /\ {n} = {stack[c][i].name}
  BY <1>1, <1>2, <1>3 DEF Top
<1>6. /\ stack' = [stack EXCEPT ![c] = <<>>] /\ Settle({n}, <<>>) /\ nextName' = nextName
      /\ abandoned \subseteq abandoned'
  BY <1>3 DEF PrepareDone
<1> QED BY <1>1, <1>3, <1>4, <1>5, <1>6, EndMoves

LEMMA StatementCachedStep ==
  ASSUME StatementsInv, NEW c \in Callers, StatementCached(c)
  PROVE  StatementsInv'
<1>1. /\ TypeOK /\ Holding /\ Busy(c) /\ Top(c).fn = "prepare" /\ Top(c).slot \in Slots
      /\ Top(c).at = "answered"
  BY DEF StatementsInv, StatementCached, Complete, Ready
<1>2. Depth(c) # 1
  BY <1>1, Innermost, UserNotSlot DEF Outermost
<1>3. /\ Depth(c) - 1 \in 1..Depth(c) /\ FrameOK(Below(c)) /\ Below(c) \in Frame
      /\ Nested(Below(c), Top(c)) /\ Top(c) \in Frame
  BY <1>1, <1>2, Innermost
<1>4. PICK e : e = Below(c)
  OBVIOUS
<1>5. e.at = "start" /\ e.fn \in {"lookup", "detail"} /\ e.slot \in Slots
  BY <1>1, <1>3, <1>4 DEF Nested, FrameOK, Frame
<1>6. PICK n \in Nat : n = Top(c).name
  BY <1>3 DEF Frame
<1>7. PICK f : f = [e EXCEPT !.name = n, !.at = "holding"]
  OBVIOUS
<1>8. /\ f \in Frame /\ f.at = "holding" /\ f.fn = e.fn /\ f.slot = e.slot /\ f.name = n
      /\ f.ans = e.ans /\ f.buf = e.buf /\ f.whole = e.whole /\ f.todo = e.todo /\ f.oid = e.oid
  BY <1>3, <1>4, <1>6, <1>7 DEF Frame
<1>9. FrameOK(f)
  BY <1>3, <1>4, <1>5, <1>8 DEF FrameOK
<1>10. Same(e, f) /\ Holds(f, {n})
  BY <1>5, <1>8 DEF Same, Holds
<1>11. Keeps({n})
  <2>1. slots' = [slots EXCEPT ![e.slot] = n] /\ owned' = owned
    BY <1>4, <1>6 DEF StatementCached
  <2>2. slots' \in [Slots -> Nat] /\ \A t \in Slots : slots'[t] = slots[t] \/ slots'[t] = n
    BY <1>1, <1>5, <2>1 DEF TypeOK
  <2> QED BY <1>1, <2>1, <2>2 DEF Keeps, Holding, TypeOK
<1>12. /\ stack' = Popped(c, f) /\ Settle({n}, <<>>) /\ nextName' = nextName
       /\ abandoned \subseteq abandoned'
  BY <1>4, <1>6, <1>7 DEF StatementCached
<1>13. {n} = {Top(c).name}
  BY <1>6
<1> QED BY <1>1, <1>2, <1>4, <1>9, <1>10, <1>11, <1>12, <1>13, ReturnMoves

LEMMA LookupDoneStep ==
  ASSUME StatementsInv, NEW c \in Callers, LookupDone(c)
  PROVE  StatementsInv'
<1>1. TypeOK /\ Busy(c) /\ Top(c).fn = "lookup"
  BY DEF StatementsInv, LookupDone, Complete, Ready
<1>2. Depth(c) # 1
  BY <1>1, Innermost DEF Outermost
<1>3. /\ Depth(c) - 1 \in 1..Depth(c) /\ FrameOK(Below(c)) /\ Below(c) \in Frame
      /\ Nested(Below(c), Top(c))
  BY <1>1, <1>2, Innermost
<1>4. PICK e : e = Below(c)
  OBVIOUS
<1>5. e.at = "answered" /\ e.todo # <<>>
  BY <1>1, <1>3, <1>4 DEF Nested
<1>6. Tail(e.todo) \in Seq(Oids)
  <2>1. e.todo \in Seq(Oids)
    BY <1>3, <1>4 DEF Frame
  <2> QED BY <1>5, <2>1, HeadTailProperties
<1>7. PICK f : f = [e EXCEPT !.todo = Tail(@)]
  OBVIOUS
<1>8. /\ f \in Frame /\ f.at = e.at /\ f.fn = e.fn /\ f.slot = e.slot /\ f.name = e.name
      /\ f.ans = e.ans /\ f.buf = e.buf /\ f.whole = e.whole /\ f.oid = e.oid
  BY <1>3, <1>4, <1>6, <1>7 DEF Frame
<1>9. e.fn = "prepare" => e.slot = "user"
  BY <1>3, <1>4, <1>5 DEF FrameOK
<1>10. FrameOK(f)
  BY <1>3, <1>4, <1>5, <1>8, <1>9 DEF FrameOK
<1>11. Holds(e, {}) /\ e.buf \in Nat
  <2>1. Holds(e, {})
    BY <1>3, <1>4, OldHolds DEF Below
  <2>2. e.buf \in Nat
    BY <1>3, <1>4, StatementsAssumption DEF Frame
  <2> QED BY <2>1, <2>2
<1>12. Same(e, f) /\ Holds(f, {})
  BY <1>5, <1>8, <1>11 DEF Same, Holds, Used
<1>13. Keeps({}) /\ abandoned \subseteq abandoned'
  BY KeepsSame DEF LookupDone
<1>14. stack' = Popped(c, f) /\ Settle({}, <<>>) /\ nextName' = nextName
  BY <1>4, <1>7 DEF LookupDone
<1> QED BY <1>1, <1>2, <1>4, <1>10, <1>12, <1>13, <1>14, ReturnMoves

LEMMA DetailDoneStep ==
  ASSUME StatementsInv, NEW c \in Callers, DetailDone(c)
  PROVE  StatementsInv'
<1>1. TypeOK /\ Busy(c) /\ Top(c).fn = "detail"
  BY DEF StatementsInv, DetailDone, Drained, Complete, Ready
<1>2. Depth(c) # 1
  BY <1>1, Innermost DEF Outermost
<1>3. /\ Depth(c) - 1 \in 1..Depth(c) /\ FrameOK(Below(c)) /\ Below(c) \in Frame
      /\ Nested(Below(c), Top(c))
  BY <1>1, <1>2, Innermost
<1>4. PICK e : e = Below(c)
  OBVIOUS
<1>5. e.at = "answered" /\ e.fn = "lookup" /\ e.oid \in Oids
  BY <1>1, <1>3, <1>4 DEF Nested, FrameOK
<1>6. Parts[e.oid] \in Seq(Oids)
  BY <1>5, StatementsAssumption
<1>7. PICK f : f = [e EXCEPT !.todo = Parts[e.oid]]
  OBVIOUS
<1>8. /\ f \in Frame /\ f.at = e.at /\ f.fn = e.fn /\ f.slot = e.slot /\ f.name = e.name
      /\ f.ans = e.ans /\ f.buf = e.buf /\ f.whole = e.whole /\ f.oid = e.oid
  BY <1>3, <1>4, <1>6, <1>7 DEF Frame
<1>9. FrameOK(f)
  BY <1>3, <1>4, <1>5, <1>8 DEF FrameOK
<1>10. Holds(e, {}) /\ e.buf \in Nat
  <2>1. Holds(e, {})
    BY <1>3, <1>4, OldHolds DEF Below
  <2>2. e.buf \in Nat
    BY <1>3, <1>4, StatementsAssumption DEF Frame
  <2> QED BY <2>1, <2>2
<1>11. Same(e, f) /\ Holds(f, {})
  BY <1>5, <1>8, <1>10 DEF Same, Holds, Used
<1>12. Keeps({}) /\ abandoned \subseteq abandoned'
  BY KeepsSame DEF DetailDone
<1>13. stack' = Popped(c, f) /\ Settle({}, <<>>) /\ nextName' = nextName
  BY <1>4, <1>7 DEF DetailDone
<1> QED BY <1>1, <1>2, <1>4, <1>9, <1>11, <1>12, <1>13, ReturnMoves

LEMMA RowsDoneStep ==
  ASSUME StatementsInv, NEW c \in Callers, RowsDone(c)
  PROVE  StatementsInv'
<1>1. TypeOK /\ Busy(c) /\ Top(c).fn \in {"query", "typed"}
  BY DEF StatementsInv, RowsDone, Drained, Complete, Ready
<1>2. Depth(c) = 1
  BY <1>1, Innermost DEF Nested
<1>3. \A i \in 1..Depth(c) : stack[c][i].fn # "prepare"
  BY <1>1, <1>2 DEF Top
<1>4. Keeps({}) /\ abandoned \subseteq abandoned'
  BY KeepsSame DEF RowsDone
<1> QED BY <1>1, <1>3, <1>4, EndMoves DEF RowsDone

\* No step of a caller breaks the invariant.
LEMMA CallerSteps ==
  ASSUME StatementsInv, NEW c \in Callers,
         \/ CallPrepare(c) \/ CallQuery(c) \/ CallTyped(c)
         \/ DropStatement(c) \/ Cancel(c) \/ Advance(c)
  PROVE  StatementsInv'
<1>1. ASSUME Cancel(c) \/ Failed(c) PROVE StatementsInv'
  BY <1>1, GiveUpStep DEF Cancel, Failed, Has
<1> QED BY <1>1, StartSteps, DropStep, BeginStep, RunStep, FallBackStep, AnsweredStep, ResolveStep,
           DrainStep, PrepareDoneStep, StatementCachedStep, LookupDoneStep, DetailDoneStep,
           RowsDoneStep DEF Advance

-----------------------------------------------------------------------------
(* The steps of the server                                                 *)

\* The queue without its first request.
Shorter ==
  /\ sendq' \in Seq(WireRequest) /\ Len(sendq) \in Nat /\ Len(sendq') \in Nat
  /\ 1 \in 1..Len(sendq)
  /\ \A i \in 1..Len(sendq') : i + 1 \in 1..Len(sendq) /\ i + 1 # 1 /\ sendq'[i] = sendq[i + 1]
  /\ \A i \in 1..Len(sendq) : i # 1 => i - 1 \in 1..Len(sendq') /\ sendq'[i - 1] = sendq[i]

LEMMA TailFacts ==
  ASSUME sendq \in Seq(WireRequest), sendq # <<>>, sendq' = Tail(sendq)
  PROVE  Shorter /\ Head(sendq) = sendq[1] /\ sendq[1] \in WireRequest
<1>1. Len(sendq) \in Nat \ {0}
  BY EmptySeq
<1>2. /\ sendq' \in Seq(WireRequest) /\ Len(sendq') = Len(sendq) - 1
      /\ \A i \in 1..Len(sendq') : sendq'[i] = sendq[i + 1]
  BY HeadTailProperties
<1>3. 1 \in 1..Len(sendq) /\ Len(sendq') \in Nat
  BY <1>1, <1>2
<1>4. \A i \in 1..Len(sendq') : i + 1 \in 1..Len(sendq) /\ i + 1 # 1
  BY <1>1, <1>2
<1>5. \A i \in 1..Len(sendq) : i # 1 => i - 1 \in 1..Len(sendq') /\ (i - 1) + 1 = i
  BY <1>1, <1>2
<1>6. \A i \in 1..Len(sendq) : i # 1 => sendq'[i - 1] = sendq[(i - 1) + 1]
  BY <1>2, <1>5
<1>7. Head(sendq) = sendq[1] /\ sendq[1] \in WireRequest
  BY <1>3, ElementOfSeq
<1> QED BY <1>1, <1>2, <1>3, <1>4, <1>5, <1>6, <1>7 DEF Shorter

\* The answer to the request m: that it was done, or an error.
Outcome(m, ans, left) ==
  /\ flight' = IF m.owner = None THEN <<>>
               ELSE <<[owner |-> m.owner, ans |-> ans, left |-> left]>>
  /\ left \in Nat \ {0} /\ ans \in {"ok", "undefined", "error"}
  /\ m.op = "parse" => left = 2
  /\ m.op = "run" /\ m.slot = "info" => left <= 3
  /\ \/ /\ ans = "ok"
        /\ names' = CASE m.op = "parse" -> names \cup {m.name}
                      [] m.op = "close" -> names \ {m.name}
                      [] OTHER -> names
     \/ ans # "ok" /\ names' = names /\ m.op # "close"

LEMMA ExecuteOutcome ==
  ASSUME StatementsInv, Execute
  PROVE  /\ Shorter /\ sendq[1] \in WireRequest /\ flight = <<>>
         /\ \E ans \in {"ok", "undefined", "error"}, left \in Nat : Outcome(sendq[1], ans, left)
         /\ UNCHANGED <<stack, owned, slots, live, nextName, abandoned>>
<1>1. /\ Shorter /\ Head(sendq) = sendq[1] /\ sendq[1] \in WireRequest
  BY TailFacts DEF Execute, StatementsInv, TypeOK
<1>2. flight = <<>> /\ UNCHANGED <<stack, owned, slots, live, nextName, abandoned>>
  BY DEF Execute
<1>3. PICK m : m = sendq[1]
  OBVIOUS
<1>4. \A x : Append(<<>>, x) = <<x>>
  OBVIOUS
<1>5. ASSUME Respond(m, "ok", Rest(m)),
             names' = CASE m.op = "parse" -> names \cup {m.name}
                        [] m.op = "close" -> names \ {m.name}
                        [] OTHER -> names
      PROVE  Outcome(m, "ok", 1 + Rest(m))
  <2>1. 1 + Rest(m) \in Nat \ {0}
    BY StatementsAssumption DEF Rest
  <2>2. m.op = "parse" => 1 + Rest(m) = 2
    BY DEF Rest
  <2>3. m.op = "run" /\ m.slot = "info" => 1 + Rest(m) <= 3
    BY DEF Rest
  <2>4. flight' = IF m.owner = None THEN <<>>
                  ELSE <<[owner |-> m.owner, ans |-> "ok", left |-> 1 + Rest(m)]>>
    BY <1>2, <1>4, <1>5 DEF Respond
  <2> QED BY <1>5, <2>1, <2>2, <2>3, <2>4 DEF Outcome
<1>6. ASSUME m.op # "close", NEW ans \in Errors(m), Respond(m, ans, 1), names' = names
      PROVE  ans \in {"undefined", "error"} /\ Outcome(m, ans, 2)
  <2>1. ans \in {"undefined", "error"}
    BY <1>6 DEF Errors
  <2>2. flight' = IF m.owner = None THEN <<>>
                  ELSE <<[owner |-> m.owner, ans |-> ans, left |-> 2]>>
    BY <1>2, <1>4, <1>6 DEF Respond
  <2> QED BY <1>6, <2>1, <2>2 DEF Outcome
<1>7. \E ans \in {"ok", "undefined", "error"}, left \in Nat : Outcome(m, ans, left)
  <2>1. \/ /\ Respond(m, "ok", Rest(m))
           /\ names' = CASE m.op = "parse" -> names \cup {m.name}
                         [] m.op = "close" -> names \ {m.name}
                         [] OTHER -> names
        \/ m.op # "close" /\ names' = names /\ \E ans \in Errors(m) : Respond(m, ans, 1)
    BY <1>1, <1>3 DEF Execute
  <2>2. 1 + Rest(m) \in Nat
    BY StatementsAssumption DEF Rest
  <2> QED BY <1>5, <1>6, <2>1, <2>2
<1> QED BY <1>1, <1>2, <1>3, <1>7

\* The names the server has after it has executed m.
LEMMA NamesAfter ==
  ASSUME NEW m, NEW ans, NEW left, Outcome(m, ans, left)
  PROVE  /\ \A n \in names' : n \in names \/ (m.op = "parse" /\ n = m.name /\ ans = "ok")
         /\ \A n \in names : n \in names' \/ (m.op = "close" /\ n = m.name)
         /\ m.op = "close" => m.name \notin names'
         /\ m.op = "parse" /\ ans = "ok" => m.name \in names'
BY DEF Outcome

LEMMA ExecuteOwning ==
  ASSUME StatementsInv, Shorter, flight = <<>>, stack' = stack, NEW ans, NEW left,
         Outcome(sendq[1], ans, left), sendq[1] \in WireRequest
  PROVE  Owning' /\ flight' \in Seq(Response)
<1>1. PICK m : m = sendq[1]
  OBVIOUS
<1>2. TypeOK /\ Owning
  BY DEF StatementsInv
<1>3. ASSUME NEW i \in 1..Len(sendq'), NEW c \in Callers, NEW d \in Nat, sendq'[i].owner = <<c, d>>
      PROVE  d \in 1..Len(stack'[c]) /\ Asks(stack'[c][d], sendq'[i])
  BY <1>2, <1>3 DEF Owning, Shorter, Depth
<1>4. ASSUME NEW i \in 1..Len(sendq'), NEW j \in 1..Len(sendq'), i # j, sendq'[i].owner # None
      PROVE  sendq'[i].owner # sendq'[j].owner
  <2>1. i + 1 \in 1..Len(sendq) /\ j + 1 \in 1..Len(sendq) /\ i + 1 # j + 1
    BY <1>4 DEF Shorter
  <2>2. sendq'[i] = sendq[i + 1] /\ sendq'[j] = sendq[j + 1]
    BY DEF Shorter
  <2> QED BY <1>2, <1>4, <2>1, <2>2 DEF Owning
<1>5. flight' \in Seq(Response) /\ Len(flight') <= 1
  <2>1. CASE m.owner = None
    <3>1. flight' = <<>>
      BY <1>1, <2>1 DEF Outcome
    <3> QED BY <3>1
  <2>2. CASE m.owner # None
    <3>1. m.owner \in Callers \X Nat
      BY <1>1, <2>2 DEF WireRequest, Owner
    <3>2. PICK h : h = [owner |-> m.owner, ans |-> ans, left |-> left]
      OBVIOUS
    <3>3. h \in Response /\ flight' = <<h>>
      BY <1>1, <2>2, <3>1, <3>2 DEF Outcome, Response
    <3> QED BY <3>3
  <2> QED BY <2>1, <2>2
<1>6. ASSUME NEW c \in Callers, NEW d \in Nat, flight' # <<>>, Head(flight').owner = <<c, d>>
      PROVE  /\ d \in 1..Len(stack'[c]) /\ stack'[c][d].at \in {"sent", "answered"}
             /\ Bounded(stack'[c][d], Head(flight').left)
             /\ \A i \in 1..Len(sendq') : sendq'[i].owner # <<c, d>>
  <2>1. PICK h : h = [owner |-> m.owner, ans |-> ans, left |-> left]
    OBVIOUS
  <2>2. flight' = <<h>> /\ m.owner # None
    BY <1>1, <1>6, <2>1 DEF Outcome
  <2>3. m.owner = <<c, d>> /\ Head(flight').left = left
    BY <1>6, <2>1, <2>2
  <2>4. 1 \in 1..Len(sendq)
    BY DEF Shorter
  <2>5. d \in 1..Depth(c) /\ Asks(stack[c][d], m)
    BY <1>1, <1>2, <2>3, <2>4 DEF Owning
  <2>6. Bounded(stack[c][d], left)
    <3>1. Used(stack[c][d]) = 0
      <4>1. FrameOK(stack[c][d])
        BY <1>2, <2>5, FrameIn
      <4> QED BY <2>5, <4>1 DEF FrameOK, Asks, Used
    <3>2. left \in Nat
      BY DEF Outcome
    <3> QED BY <1>1, <2>5, <3>1, <3>2 DEF Asks, Outcome, Bounded
  <2>7. \A i \in 1..Len(sendq') : sendq'[i].owner # <<c, d>>
    <3>1. SUFFICES ASSUME NEW i \in 1..Len(sendq') PROVE sendq'[i].owner # <<c, d>>
      OBVIOUS
    <3>2. i + 1 \in 1..Len(sendq) /\ i + 1 # 1 /\ sendq'[i] = sendq[i + 1]
      BY DEF Shorter
    <3> QED BY <1>1, <1>2, <2>2, <2>3, <2>4, <3>2 DEF Owning
  <2> QED BY <2>3, <2>5, <2>6, <2>7 DEF Asks, Depth
<1> QED BY <1>3, <1>4, <1>5, <1>6 DEF Owning, Depth

LEMMA ExecuteNaming ==
  ASSUME StatementsInv, Shorter, flight = <<>>, NEW ans, NEW left,
         Outcome(sendq[1], ans, left), sendq[1] \in WireRequest,
         UNCHANGED <<stack, live, nextName>>
  PROVE  Naming'
<1>1. PICK m : m = sendq[1]
  OBVIOUS
<1>2. TypeOK /\ Owning /\ Naming /\ 1 \in 1..Len(sendq)
  BY DEF StatementsInv, Shorter
<1>3. \A n : ToClose(n)' => ToClose(n)
  BY DEF ToClose, Shorter
<1>4. \A c \in Callers, i \in Nat, n \in Nat : Prepares(c, i, n)' <=> Prepares(c, i, n)
  BY DEF Prepares, Depth
<1>5. m.op = "close" => ToClose(m.name)
  BY <1>1, <1>2 DEF ToClose
<1>6. live' \subseteq names'
  BY <1>1, <1>2, <1>5, NamesAfter DEF Naming
<1>7. \A n \in live' \cup names' : n < nextName'
  BY <1>1, <1>2, NamesAfter DEF Naming
<1>8. \A n \in live' : ~ToClose(n)'
  BY <1>2, <1>3 DEF Naming
<1>9. ASSUME NEW c \in Callers, NEW i \in Nat, NEW n \in Nat, Prepares(c, i, n)
      PROVE  /\ n < nextName' /\ n \notin live' /\ ~ToClose(n)'
             /\ stack'[c][i].ans = "ok" => n \in names'
             /\ \A k \in Callers, j \in Nat : Prepares(k, j, n) => k = c /\ j = i
  <2>1. n < nextName /\ n \notin live /\ ~ToClose(n) /\ (stack[c][i].ans = "ok" => n \in names)
    BY <1>2, <1>9 DEF Naming
  <2>2. stack'[c][i].ans = "ok" => n \in names'
    BY <1>1, <1>5, <2>1, NamesAfter
  <2>3. \A k \in Callers, j \in Nat : Prepares(k, j, n) => k = c /\ j = i
    BY <1>2, <1>9 DEF Naming
  <2> QED BY <1>3, <2>1, <2>2, <2>3
<1>10. \A i \in 1..Len(sendq') : sendq'[i].op \in {"parse", "close"} => sendq'[i].name < nextName'
  BY <1>2 DEF Naming, Shorter
<1>11. ASSUME NEW c \in Callers, NEW d \in Nat, flight' # <<>>, Head(flight').owner = <<c, d>>,
              Head(flight').ans = "ok", stack'[c][d].fn = "prepare"
       PROVE  stack'[c][d].name \in names'
  <2>1. PICK h : h = [owner |-> m.owner, ans |-> ans, left |-> left]
    OBVIOUS
  <2>2. flight' = <<h>>
    BY <1>1, <1>11, <2>1 DEF Outcome
  <2>3. m.owner = <<c, d>> /\ ans = "ok"
    BY <1>11, <2>1, <2>2
  <2>4. Asks(stack[c][d], m)
    BY <1>1, <1>2, <2>3 DEF Owning
  <2>5. m.op = "parse" /\ m.name = stack[c][d].name
    BY <1>11, <2>4 DEF Asks
  <2> QED BY <1>1, <2>3, <2>5, NamesAfter
<1> QED BY <1>4, <1>6, <1>7, <1>8, <1>9, <1>10, <1>11 DEF Naming

LEMMA ExecuteStep ==
  ASSUME StatementsInv, Execute
  PROVE  StatementsInv'
<1>1. /\ Shorter /\ sendq[1] \in WireRequest /\ flight = <<>>
      /\ UNCHANGED <<stack, owned, slots, live, nextName, abandoned>>
  BY ExecuteOutcome
<1>2. PICK ans \in {"ok", "undefined", "error"}, left \in Nat : Outcome(sendq[1], ans, left)
  BY ExecuteOutcome
<1>3. Owning' /\ Naming' /\ flight' \in Seq(Response)
  BY <1>1, <1>2, ExecuteOwning, ExecuteNaming
<1>4. /\ TypeOK /\ Owning /\ Accounted /\ Holding /\ RunFindsStatement
  BY DEF StatementsInv
<1>5. PICK m : m = sendq[1]
  OBVIOUS
<1>6. /\ \A n \in names' : n \in names \/ (m.op = "parse" /\ n = m.name /\ ans = "ok")
      /\ \A n \in names : n \in names' \/ (m.op = "close" /\ n = m.name)
      /\ m.op = "close" => m.name \notin names'
  BY <1>2, <1>5, NamesAfter
<1>7. TypeOK'
  <2>1. names' \subseteq Nat
    BY <1>1, <1>4, <1>5, <1>6 DEF TypeOK, WireRequest
  <2>2. sendq' \in Seq(WireRequest)
    BY <1>1 DEF Shorter
  <2> QED BY <1>1, <1>3, <1>4, <2>1, <2>2 DEF TypeOK
<1>8. Holding'
  BY <1>1, <1>4 DEF Holding, Depth
<1>9. Accounted'
  <2>1. ASSUME NEW n \in names'
        PROVE  \/ n \in live' \/ n \in abandoned' \/ ToClose(n)'
               \/ \E c \in Callers, i \in Nat : Prepares(c, i, n)'
    <3>1. ASSUME NEW c \in Callers, NEW i \in Nat, Prepares(c, i, n) PROVE Prepares(c, i, n)'
      BY <1>1, <3>1 DEF Prepares, Depth
    <3>2. CASE n \in names
      <4>1. ASSUME ToClose(n) PROVE ToClose(n)'
        <5>1. PICK i \in 1..Len(sendq) : sendq[i].op = "close" /\ sendq[i].name = n
          BY <4>1 DEF ToClose
        <5>2. i # 1
          BY <1>5, <1>6, <2>1, <5>1
        <5>3. i - 1 \in 1..Len(sendq') /\ sendq'[i - 1] = sendq[i]
          BY <1>1, <5>2 DEF Shorter
        <5> QED BY <5>1, <5>3 DEF ToClose
      <4> QED BY <1>1, <1>4, <3>1, <3>2, <4>1 DEF Accounted
    <3>3. CASE m.op = "parse" /\ n = m.name
      <4>1. 1 \in 1..Len(sendq)
        BY <1>1 DEF Shorter
      <4>2. CASE m.owner = None
        BY <1>1, <1>4, <1>5, <3>3, <4>1, <4>2 DEF Accounted
      <4>3. CASE m.owner # None
        <5>1. PICK c \in Callers, d \in Nat : m.owner = <<c, d>>
          BY <1>1, <1>5, <4>3, Owners
        <5>2. d \in 1..Depth(c) /\ Asks(stack[c][d], m)
          BY <1>4, <1>5, <4>1, <5>1 DEF Owning
        <5>3. Prepares(c, d, n)
          BY <3>3, <5>2 DEF Asks, Prepares
        <5> QED BY <3>1, <5>3
      <4> QED BY <4>2, <4>3
    <3> QED BY <1>6, <2>1, <3>2, <3>3
  <2>2. \A i \in 1..Len(sendq') : sendq'[i].op = "parse" /\ sendq'[i].owner = None =>
          sendq'[i].name \in abandoned'
    BY <1>1, <1>4 DEF Accounted, Shorter
  <2> QED BY <2>1, <2>2 DEF Accounted
<1>10. RunFindsStatement'
  <2>1. SUFFICES ASSUME NEW i \in 1..Len(sendq'), sendq'[i].op = "run"
                 PROVE  /\ sendq'[i].name \in names'
                        /\ \A j \in 1..i - 1 : sendq'[j].op = "close" =>
                             sendq'[j].name # sendq'[i].name
    BY DEF RunFindsStatement
  <2>2. i + 1 \in 1..Len(sendq) /\ sendq'[i] = sendq[i + 1] /\ 1 \in 1..(i + 1) - 1
    <3>1. i + 1 \in 1..Len(sendq) /\ sendq'[i] = sendq[i + 1]
      BY <1>1 DEF Shorter
    <3> QED BY <3>1, SMT
  <2>3. /\ sendq[i + 1].name \in names
        /\ \A j \in 1..(i + 1) - 1 : sendq[j].op = "close" => sendq[j].name # sendq[i + 1].name
    BY <1>4, <2>1, <2>2 DEF RunFindsStatement
  <2>4. sendq[i + 1].name \in names'
    BY <1>5, <1>6, <2>2, <2>3
  <2>5. ASSUME NEW j \in 1..i - 1 PROVE sendq'[j].op = "close" => sendq'[j].name # sendq'[i].name
    <3>1. j \in 1..Len(sendq') /\ j + 1 \in 1..(i + 1) - 1
      BY <1>1, <2>1 DEF Shorter
    <3>2. sendq'[j] = sendq[j + 1]
      BY <1>1, <3>1 DEF Shorter
    <3> QED BY <2>2, <2>3, <3>1, <3>2
  <2> QED BY <2>2, <2>4, <2>5
<1> QED BY <1>3, <1>7, <1>8, <1>9, <1>10 DEF StatementsInv

\* What a delivery does to the frame f that waits for the answer h, but for its counts.
Told(f, h, g) ==
  /\ g.fn = f.fn /\ g.slot = f.slot /\ g.name = f.name /\ g.oid = f.oid /\ g.todo = f.todo
  /\ g.at = f.at /\ g.fallback = f.fallback /\ g.buf = f.buf + 1
  /\ g.ans = IF f.ans = "none" THEN h.ans ELSE f.ans

\* A delivery changes one frame, and shortens or removes what is in flight.
Delivers(c, d, h, g) ==
  /\ c \in Callers /\ d \in 1..Depth(c) /\ h.owner = <<c, d>> /\ h \in Response
  /\ flight = <<h>> /\ Told(stack[c][d], h, g) /\ FrameOK(g)
  /\ stack'[c] = [stack[c] EXCEPT ![d] = g]
  /\ stack' = [stack EXCEPT ![c] = [stack[c] EXCEPT ![d] = g]]
  /\ \A k \in Callers, i \in Nat : i \in 1..Depth(k) =>
       \/ stack'[k][i] = stack[k][i]
       \/ k = c /\ i = d /\ stack'[k][i] = g
  /\ \A k \in Callers : Len(stack'[k]) = Depth(k)
  /\ \/ flight' = <<>>
     \/ flight' = <<[h EXCEPT !.left = @ - 1]>> /\ h.left - 1 \in Nat \ {0}
  /\ UNCHANGED <<owned, slots, live, nextName, sendq, names, abandoned>>

LEMMA One ==
  ASSUME NEW S, NEW q \in Seq(S), q # <<>>, Len(q) <= 1
  PROVE  q = <<Head(q)>> /\ Head(q) \in S /\ Tail(q) = <<>>
<1>1. Len(q) = 1
  <2>1. Len(q) \in Nat \ {0}
    BY EmptySeq
  <2> QED BY <2>1
<1>2. q = <<q[1]>> /\ Head(q) = q[1]
  <2>1. <<q[1]>> \in Seq(S) /\ Len(<<q[1]>>) = 1 /\ <<q[1]>>[1] = q[1]
    <3>1. q[1] \in S
      BY <1>1, ElementOfSeq
    <3> QED BY <3>1
  <2>2. \A i \in 1..1 : q[i] = <<q[1]>>[i]
    BY <2>1
  <2> QED BY <1>1, <2>1, <2>2, SeqEqual
<1>3. Head(q) \in S /\ Tail(q) \in Seq(S) /\ Len(Tail(q)) = 0
  BY <1>1, HeadTailProperties
<1>4. Tail(q) = <<>>
  BY <1>3, EmptySeq
<1> QED BY <1>2, <1>3, <1>4

LEMMA DeliverFacts ==
  ASSUME StatementsInv, Deliver
  PROVE  \E c \in Callers, d \in Nat : \E h, g : Delivers(c, d, h, g)
<1>1. TypeOK /\ Owning /\ flight # <<>>
  BY DEF StatementsInv, Deliver
<1>2. flight \in Seq(Response) /\ Len(flight) <= 1
  BY <1>1 DEF TypeOK, Owning
<1>3. PICK h \in Response : h = Head(flight) /\ flight = <<h>> /\ Tail(flight) = <<>>
  BY <1>1, <1>2, One
<1>4. PICK c \in Callers, d \in Nat : h.owner = <<c, d>>
  BY DEF Response
<1>5. h.owner[1] = c /\ h.owner[2] = d
  BY <1>4
<1>6. d \in 1..Depth(c) /\ stack[c][d].at \in {"sent", "answered"}
  BY <1>1, <1>3, <1>4 DEF Owning
<1>7. PICK f : f = stack[c][d]
  OBVIOUS
<1>8. FrameOK(f) /\ f \in Frame
  BY <1>1, <1>6, <1>7, FrameIn
<1>9. f.buf \in 0..ChanCap /\ f.buf < ChanCap
  BY <1>3, <1>5, <1>7, <1>8 DEF Deliver, Room, Frame
<1>10. f.buf + 1 \in 0..ChanCap /\ f.buf + 1 > 0
  BY <1>9, StatementsAssumption
<1>11. h.ans \in {"ok", "undefined", "error"} /\ h.left \in Nat \ {0}
  BY DEF Response
<1>12. PICK g : g = [f EXCEPT !.buf = @ + 1, !.whole = (h.left = 1),
                              !.ans = IF @ = "none" THEN h.ans ELSE @]
  OBVIOUS
<1>13. g \in Frame /\ Told(f, h, g)
  <2>1. PICK a : a = IF f.ans = "none" THEN h.ans ELSE f.ans
    OBVIOUS
  <2>2. a \in {"none", "ok", "undefined", "error"}
    BY <1>8, <1>11, <2>1 DEF Frame
  <2>3. PICK b \in 0..ChanCap : b = f.buf + 1
    BY <1>10
  <2>4. PICK w \in BOOLEAN : w = (h.left = 1)
    OBVIOUS
  <2>5. g = [f EXCEPT !.buf = b, !.whole = w, !.ans = a]
    BY <1>12, <2>1, <2>3, <2>4
  <2>6. /\ g \in Frame /\ g.fn = f.fn /\ g.slot = f.slot /\ g.name = f.name /\ g.oid = f.oid
        /\ g.todo = f.todo /\ g.at = f.at /\ g.fallback = f.fallback /\ g.buf = b /\ g.ans = a
    BY <1>8, <2>2, <2>5 DEF Frame
  <2> QED BY <2>1, <2>3, <2>6 DEF Told
<1>14. FrameOK(g)
  BY <1>6, <1>7, <1>8, <1>10, <1>11, <1>13 DEF FrameOK, Told
<1>15. stack' = [stack EXCEPT ![c][d] = g]
  BY <1>3, <1>5, <1>7, <1>12 DEF Deliver
<1>16. PICK s : s = [stack[c] EXCEPT ![d] = g]
  OBVIOUS
<1>17. stack' = [stack EXCEPT ![c] = s]
  BY <1>15, <1>16
<1>18. /\ s \in Seq(Frame) /\ Len(s) = Depth(c)
       /\ \A i \in 1..Depth(c) : s[i] = IF i = d THEN g ELSE stack[c][i]
  <2>1. stack[c] \in Seq(Frame) /\ d \in 1..Len(stack[c])
    BY <1>1, <1>6 DEF TypeOK, Depth
  <2> QED BY <1>13, <1>16, <2>1, ExceptSeq DEF Depth
<1>19. stack'[c] = s /\ \A k \in Callers : k # c => stack'[k] = stack[k]
  BY <1>1, <1>17 DEF TypeOK
<1>20. \A k \in Callers, i \in Nat : i \in 1..Depth(k) =>
         \/ stack'[k][i] = stack[k][i]
         \/ k = c /\ i = d /\ stack'[k][i] = g
  BY <1>18, <1>19
<1>21. \A k \in Callers : Len(stack'[k]) = Depth(k)
  BY <1>18, <1>19 DEF Depth
<1>22. \/ flight' = <<>>
       \/ flight' = <<[h EXCEPT !.left = @ - 1]>> /\ h.left - 1 \in Nat \ {0}
  <2>1. CASE h.left = 1
    <3>1. flight' = Tail(flight)
      BY <1>3, <2>1 DEF Deliver
    <3> QED BY <1>3, <3>1
  <2>2. CASE h.left # 1
    <3>1. flight' = [flight EXCEPT ![1].left = @ - 1]
      BY <1>3, <2>2 DEF Deliver
    <3>2. flight' = <<[h EXCEPT !.left = @ - 1]>>
      BY <1>3, <3>1
    <3>3. h.left - 1 \in Nat \ {0}
      BY <1>11, <2>2
    <3> QED BY <3>2, <3>3
  <2> QED BY <2>1, <2>2
<1>23. UNCHANGED <<owned, slots, live, nextName, sendq, names, abandoned>>
  BY DEF Deliver
<1>24. Delivers(c, d, h, g)
  BY <1>3, <1>4, <1>6, <1>7, <1>13, <1>14, <1>16, <1>17, <1>19, <1>20, <1>21, <1>22, <1>23
     DEF Delivers
<1> QED BY <1>24

LEMMA DeliverType ==
  ASSUME StatementsInv, NEW c, NEW d \in Nat, NEW h, NEW g, Delivers(c, d, h, g)
  PROVE  TypeOK'
<1>1. TypeOK /\ Owning
  BY DEF StatementsInv
<1>2. c \in Callers /\ d \in 1..Depth(c) /\ FrameOK(g) /\ Told(stack[c][d], h, g)
  BY DEF Delivers
<1>3. PICK s : s = stack'[c]
  OBVIOUS
<1>4. /\ StackOK(stack[c]) /\ stack[c] \in Seq(Frame) /\ Depth(c) = Len(stack[c])
      /\ Depth(c) \in Nat
  <2>1. StackOK(stack[c]) /\ stack[c] \in Seq(Frame) /\ Depth(c) = Len(stack[c])
    BY <1>1, <1>2 DEF TypeOK, Depth
  <2> QED BY <2>1, LenProperties
<1>5. s = [stack[c] EXCEPT ![d] = g] /\ g \in Frame
  BY <1>2, <1>3 DEF Delivers, FrameOK
<1>6. /\ s \in Seq(Frame) /\ Len(s) = Depth(c)
      /\ \A i \in 1..Depth(c) : s[i] = IF i = d THEN g ELSE stack[c][i]
  BY <1>2, <1>4, <1>5, ExceptSeq
<1>7. ASSUME NEW i \in 1..Len(s) PROVE Fits(s, i, s[i])
  <2>1. i \in 1..Len(stack[c]) /\ i \in 1..Depth(c)
    BY <1>4, <1>6
  <2>2. Fits(stack[c], i, s[i])
    <3>1. CASE i = d
      <4>1. s[i] = g
        BY <1>6, <2>1, <3>1
      <4>2. g.fn = stack[c][i].fn /\ g.slot = stack[c][i].slot
        BY <1>2, <3>1 DEF Told
      <4> QED BY <1>2, <1>4, <2>1, <4>1, <4>2, FitsSame
    <3>2. CASE i # d
      BY <1>4, <1>6, <2>1, <3>2, StackFits
    <3> QED BY <3>1, <3>2
  <2>3. i > 1 => i - 1 \in 1..Depth(c)
    BY <1>4, <2>1
  <2>4. CASE i - 1 = d
    <3>1. i > 1 => s[i - 1] = g
      BY <1>6, <2>3, <2>4
    <3>2. i > 1 => Nested(stack[c][d], s[i])
      BY <2>2, <2>4 DEF Fits
    <3>3. i > 1 => Nested(g, s[i])
      BY <1>2, <3>2 DEF Nested, Told
    <3> QED BY <2>2, <3>1, <3>3 DEF Fits
  <2>5. CASE i - 1 # d
    <3>1. i > 1 => s[i - 1] = stack[c][i - 1]
      BY <1>6, <2>3, <2>5
    <3> QED BY <2>2, <3>1, FitsBefore
  <2> QED BY <2>4, <2>5
<1>8. StackOK(s)
  BY <1>6, <1>7, StackBuilt
<1>9. stack' = [stack EXCEPT ![c] = s]
  BY <1>5 DEF Delivers
<1>10. stack' \in [Callers -> Seq(Frame)] /\ \A k \in Callers : StackOK(stack'[k])
  BY <1>1, <1>6, <1>8, <1>9 DEF TypeOK
<1>11. flight' \in Seq(Response)
  <2>1. h \in Response
    BY DEF Delivers
  <2>2. CASE flight' = <<>>
    BY <2>2
  <2>3. CASE flight' = <<[h EXCEPT !.left = @ - 1]>> /\ h.left - 1 \in Nat \ {0}
    <3>1. [h EXCEPT !.left = @ - 1] \in Response
      BY <2>1, <2>3 DEF Response
    <3> QED BY <2>3, <3>1
  <2> QED BY <2>2, <2>3 DEF Delivers
<1> QED BY <1>1, <1>10, <1>11 DEF Delivers, TypeOK

LEMMA DeliverOwning ==
  ASSUME StatementsInv, NEW c, NEW d \in Nat, NEW h, NEW g, Delivers(c, d, h, g)
  PROVE  Owning'
<1>1. /\ TypeOK /\ Owning /\ c \in Callers /\ d \in 1..Depth(c) /\ sendq' = sendq
      /\ flight = <<h>> /\ h.owner = <<c, d>> /\ h \in Response
      /\ Told(stack[c][d], h, g) /\ \A k \in Callers : Len(stack'[k]) = Depth(k)
  BY DEF StatementsInv, Delivers
<1>2. Head(flight) = h /\ flight # <<>>
  BY <1>1
<1>3. \A i \in 1..Len(sendq) : sendq[i].owner # <<c, d>>
  BY <1>1, <1>2 DEF Owning
<1>4. ASSUME NEW i \in 1..Len(sendq), NEW k \in Callers, NEW e \in Nat, sendq[i].owner = <<k, e>>
      PROVE  e \in 1..Len(stack'[k]) /\ Asks(stack'[k][e], sendq[i])
  <2>1. e \in 1..Depth(k) /\ Asks(stack[k][e], sendq[i]) /\ ~(k = c /\ e = d)
    BY <1>1, <1>3, <1>4 DEF Owning
  <2>2. stack'[k][e] = stack[k][e]
    BY <2>1 DEF Delivers
  <2> QED BY <1>1, <2>1, <2>2
<1>5. ASSUME NEW k \in Callers, NEW e \in Nat, flight' # <<>>, Head(flight').owner = <<k, e>>
      PROVE  /\ e \in 1..Len(stack'[k]) /\ stack'[k][e].at \in {"sent", "answered"}
             /\ Bounded(stack'[k][e], Head(flight').left)
             /\ \A i \in 1..Len(sendq') : sendq'[i].owner # <<k, e>>
  <2>1. flight' = <<[h EXCEPT !.left = @ - 1]>>
    BY <1>5 DEF Delivers
  <2>2. Head(flight').owner = h.owner /\ Head(flight').left = h.left - 1 /\ h.left \in Nat
    BY <1>1, <2>1 DEF Response
  <2>3. k = c /\ e = d
    BY <1>1, <1>5, <2>2
  <2>4. /\ stack[c][d].at \in {"sent", "answered"} /\ Bounded(stack[c][d], h.left)
    BY <1>1, <1>2 DEF Owning
  <2>5. stack'[c][d].fn = stack[c][d].fn /\ stack'[c][d].at = stack[c][d].at
        /\ stack'[c][d].buf \in {stack[c][d].buf, stack[c][d].buf + 1}
    <3>1. stack'[c][d] = stack[c][d] \/ stack'[c][d] = g
      BY <1>1 DEF Delivers
    <3> QED BY <1>1, <3>1 DEF Told
  <2>6. stack[c][d].buf \in Nat
    <3>1. stack[c][d] \in Frame
      BY <1>1, FrameIn
    <3> QED BY <3>1, StatementsAssumption DEF Frame
  <2>7. Bounded(stack'[c][d], h.left - 1)
    BY <2>2, <2>4, <2>5, <2>6 DEF Bounded, Used
  <2> QED BY <1>1, <1>3, <2>2, <2>3, <2>4, <2>5, <2>7
<1>6. Len(flight') <= 1
  <2>1. \A x : Len(<<x>>) = 1 /\ Len(<<>>) = 0
    OBVIOUS
  <2>2. flight' = <<>> \/ flight' = <<[h EXCEPT !.left = @ - 1]>>
    BY DEF Delivers
  <2>3. CASE flight' = <<>>
    BY <2>1, <2>3
  <2>4. CASE flight' = <<[h EXCEPT !.left = @ - 1]>>
    <3>1. PICK x : x = [h EXCEPT !.left = @ - 1]
      OBVIOUS
    <3>2. flight' = <<x>>
      BY <2>4, <3>1
    <3>3. Len(<<x>>) = 1
      OBVIOUS
    <3> QED BY <3>2, <3>3
  <2> QED BY <2>2, <2>3, <2>4
<1> QED BY <1>1, <1>4, <1>5, <1>6 DEF Owning, Depth

LEMMA DeliverStep ==
  ASSUME StatementsInv, Deliver
  PROVE  StatementsInv'
<1>a. PICK c \in Callers, d \in Nat : \E h, g : Delivers(c, d, h, g)
  BY DeliverFacts
<1>1. PICK h, g : Delivers(c, d, h, g)
  BY <1>a
<1>2. TypeOK' /\ Owning'
  BY <1>1, DeliverType, DeliverOwning
<1>3. /\ TypeOK /\ Owning /\ Naming /\ Holding /\ Accounted /\ RunFindsStatement
  BY DEF StatementsInv
<1>4. /\ UNCHANGED <<owned, slots, live, nextName, sendq, names, abandoned>>
      /\ d \in 1..Depth(c) /\ Told(stack[c][d], h, g)
      /\ flight = <<h>> /\ h.owner = <<c, d>>
  BY <1>1 DEF Delivers
<1>5. ASSUME NEW k \in Callers, NEW i \in Nat, i \in 1..Depth(k)
      PROVE  /\ stack'[k][i].fn = stack[k][i].fn /\ stack'[k][i].name = stack[k][i].name
             /\ stack'[k][i].at = stack[k][i].at
             /\ stack'[k][i].ans # stack[k][i].ans =>
                  k = c /\ i = d /\ stack'[k][i].ans = h.ans
  <2>1. stack'[k][i] = stack[k][i] \/ (k = c /\ i = d /\ stack'[k][i] = g)
    BY <1>1, <1>5 DEF Delivers
  <2> QED BY <1>4, <2>1 DEF Told
<1>6. \A k \in Callers : Len(stack'[k]) = Depth(k)
  BY <1>1 DEF Delivers
<1>7. ASSUME NEW k \in Callers, NEW i \in Nat, NEW n PROVE Prepares(k, i, n)' <=> Prepares(k, i, n)
  BY <1>5, <1>6 DEF Prepares, Depth
<1>8. \A n : ToClose(n)' <=> ToClose(n)
  BY <1>4 DEF ToClose
<1>9. Head(flight) = h /\ flight # <<>>
  BY <1>4
<1>10. Naming'
  <2>1. ASSUME NEW k \in Callers, NEW i \in Nat, NEW n \in Nat, Prepares(k, i, n)
        PROVE  /\ n < nextName /\ n \notin live /\ ~ToClose(n)
               /\ stack'[k][i].ans = "ok" => n \in names
               /\ \A e \in Callers, j \in Nat : Prepares(e, j, n) => e = k /\ j = i
    <3>1. /\ n < nextName /\ n \notin live /\ ~ToClose(n)
          /\ stack[k][i].ans = "ok" => n \in names
          /\ \A e \in Callers, j \in Nat : Prepares(e, j, n) => e = k /\ j = i
      BY <1>3, <2>1 DEF Naming
    <3>2. i \in 1..Depth(k) /\ stack[k][i].fn = "prepare" /\ stack[k][i].name = n
      BY <2>1 DEF Prepares
    <3>3. ASSUME k = c, i = d, h.ans = "ok" PROVE n \in names
      BY <1>3, <1>4, <1>9, <3>2, <3>3 DEF Naming
    <3> QED BY <1>5, <3>1, <3>2, <3>3
  <2>2. ASSUME NEW k \in Callers, NEW e \in Nat, flight' # <<>>, Head(flight').owner = <<k, e>>,
               Head(flight').ans = "ok", stack'[k][e].fn = "prepare"
        PROVE  stack'[k][e].name \in names
    <3>1. flight' = <<[h EXCEPT !.left = @ - 1]>> /\ h \in Response
      BY <1>1, <2>2 DEF Delivers
    <3>2. Head(flight').owner = h.owner /\ Head(flight').ans = h.ans
      BY <3>1 DEF Response
    <3>3. k = c /\ e = d
      BY <1>4, <2>2, <3>2
    <3>4. stack[c][d].fn = "prepare" /\ stack'[c][d].name = stack[c][d].name
      BY <1>4, <1>5, <2>2, <3>3
    <3> QED BY <1>3, <1>4, <1>9, <2>2, <3>2, <3>3, <3>4 DEF Naming
  <2>3. /\ live' \subseteq names' /\ \A n \in live' \cup names' : n < nextName'
        /\ \A n \in live' : ~ToClose(n)'
        /\ \A i \in 1..Len(sendq') : sendq'[i].op \in {"parse", "close"} => sendq'[i].name < nextName'
    BY <1>3, <1>4, <1>8 DEF Naming
  <2>4. \A k \in Callers, i \in Nat, n \in Nat : Prepares(k, i, n)' =>
          /\ n < nextName' /\ n \notin live' /\ ~ToClose(n)'
          /\ stack'[k][i].ans = "ok" => n \in names'
          /\ \A e \in Callers, j \in Nat : Prepares(e, j, n)' => e = k /\ j = i
    BY <1>4, <1>7, <1>8, <2>1
  <2> QED BY <1>4, <2>2, <2>3, <2>4 DEF Naming
<1>11. Holding'
  <2>1. ASSUME NEW k \in Callers, NEW i \in 1..Len(stack'[k]),
               stack'[k][i].fn \in {"query", "lookup", "detail"}, stack'[k][i].at # "start"
        PROVE  stack'[k][i].name \in live
    <3>1. i \in 1..Depth(k) /\ i \in Nat
      BY <1>6, <2>1
    <3> QED BY <1>3, <1>5, <2>1, <3>1 DEF Holding
  <2> QED BY <1>3, <1>4, <2>1 DEF Holding, Depth
<1>12. Accounted'
  BY <1>3, <1>4, <1>7, <1>8 DEF Accounted
<1>13. RunFindsStatement'
  BY <1>3, <1>4 DEF RunFindsStatement
<1> QED BY <1>2, <1>10, <1>11, <1>12, <1>13 DEF StatementsInv

-----------------------------------------------------------------------------
(* The invariant                                                           *)

LEMMA InitInv ==
  ASSUME Init
  PROVE  StatementsInv
<1>1. /\ \A c \in Callers : stack[c] = <<>> /\ Depth(c) = 0 /\ owned[c] = {}
      /\ stack \in [Callers -> Seq(Frame)] /\ owned \in [Callers -> SUBSET Nat]
      /\ slots \in [Slots -> Nat] /\ \A s \in Slots : slots[s] = 0
      /\ live = {} /\ names = {} /\ nextName = 1 /\ sendq = <<>> /\ flight = <<>>
  BY DEF Init, Depth
<1>2. Len(sendq) = 0 /\ Len(flight) = 0
  BY <1>1
<1>3. \A c \in Callers : StackOK(stack[c])
  BY <1>1 DEF StackOK
<1>4. TypeOK
  BY <1>1, <1>3 DEF TypeOK
<1>5. Owning
  BY <1>1, <1>2 DEF Owning
<1>6. \A c \in Callers, i \in Nat, n \in Nat : ~Prepares(c, i, n)
  BY <1>1 DEF Prepares
<1>7. Naming
  BY <1>1, <1>2, <1>6 DEF Naming
<1>8. Holding
  BY <1>1 DEF Holding
<1>9. Accounted
  BY <1>1, <1>2 DEF Accounted
<1>10. RunFindsStatement
  BY <1>2 DEF RunFindsStatement
<1> QED BY <1>4, <1>5, <1>7, <1>8, <1>9, <1>10 DEF StatementsInv

LEMMA SameInv ==
  ASSUME StatementsInv, UNCHANGED <<stack, owned, slots, live, nextName, sendq, flight, names, abandoned>>
  PROVE  StatementsInv'
<1>1. /\ \A c \in Callers, i \in Nat : \A n : Prepares(c, i, n)' <=> Prepares(c, i, n)
      /\ \A n : ToClose(n)' <=> ToClose(n)
  BY DEF Prepares, ToClose, Depth
<1>2. TypeOK'
  BY DEF StatementsInv, TypeOK
<1>3. Owning'
  BY DEF StatementsInv, Owning, Depth
<1>4. Naming'
  BY <1>1 DEF StatementsInv, Naming
<1>5. Holding'
  BY DEF StatementsInv, Holding, Depth
<1>6. Accounted'
  BY <1>1 DEF StatementsInv, Accounted
<1>7. RunFindsStatement'
  BY DEF StatementsInv, RunFindsStatement
<1> QED BY <1>2, <1>3, <1>4, <1>5, <1>6, <1>7 DEF StatementsInv

LEMMA NextInv ==
  ASSUME StatementsInv, [Next]_vars
  PROVE  StatementsInv'
<1>1. ASSUME NEW c \in Callers,
             \/ CallPrepare(c) \/ CallQuery(c) \/ CallTyped(c)
             \/ DropStatement(c) \/ Cancel(c) \/ Advance(c)
      PROVE  StatementsInv'
  BY <1>1, CallerSteps
<1>2. CASE ClearTypeCache
  BY <1>2, SameInv DEF ClearTypeCache
<1>3. CASE UNCHANGED vars
  BY <1>3, SameInv DEF vars
<1> QED BY <1>1, <1>2, <1>3, ExecuteStep, DeliverStep DEF Next

\* What the calls, the queue and the server keep to, for any number of callers: every
\* request in the queue is awaited by the frame that owns it or by none, no name is
\* prepared twice, what is held is live and what is live is on the server and is not
\* to be closed (client.rs, prepare.rs, statement.rs).
THEOREM StatementsInvCorrect == Spec => []StatementsInv
<1>1. Init => StatementsInv
  BY InitInv
<1>2. StatementsInv /\ [Next]_vars => StatementsInv'
  BY NextInv
<1> QED BY <1>1, <1>2, PTL DEF Spec

\* A statement is on the server when a request that runs it gets there: no Close
\* overtakes it, whichever of its holders let go first (query.rs, statement.rs).
THEOREM RunFindsCorrect == Spec => []RunFindsStatement
<1>1. StatementsInv => RunFindsStatement
  BY DEF StatementsInv
<1> QED BY <1>1, StatementsInvCorrect, PTL

LEMMA AccountedImplies ==
  ASSUME StatementsInv
  PROVE  NamesAccounted
<1>1. ASSUME NEW n, ToClose(n) PROVE n \in Closing
  BY <1>1 DEF ToClose, Closing
<1>2. ASSUME NEW c \in Callers, NEW i \in Nat, NEW n, Prepares(c, i, n) PROVE n \in Preparing
  <2>1. stack[c][i] \in {g \in Frames(c) : g.fn = "prepare"} /\ stack[c][i].name = n
    BY <1>2 DEF Prepares, Frames
  <2> QED BY <2>1 DEF Preparing
<1> QED BY <1>1, <1>2 DEF StatementsInv, Accounted, NamesAccounted

\* Every statement the server has is in use, being prepared or about to be closed, or
\* its prepare was given up before there was a Statement to close it (prepare.rs,
\* statement.rs).
THEOREM AccountedCorrect == Spec => []NamesAccounted
<1>1. StatementsInv => NamesAccounted
  BY AccountedImplies
<1> QED BY <1>1, StatementsInvCorrect, PTL

\* An mpsc::channel(1) holds a batch and one more for its only sender; and no query_typed
\* has columns whose types are to be looked up, which StatementsTyped.cfg is about.
RoomyAndKnown == ChanCap >= 2 /\ TypedColumns \subseteq {<<>>}

LEMMA FullImplies ==
  ASSUME StatementsInv, RoomyAndKnown
  PROVE  FullIsBeingRead
<1>1. TypeOK /\ Owning
  BY DEF StatementsInv
<1>2. SUFFICES ASSUME flight # <<>>,
                      NEW c, c = Head(flight).owner[1], NEW d, d = Head(flight).owner[2],
                      d # Depth(c)
               PROVE  Room(stack[c][d])
  BY DEF FullIsBeingRead
<1>3. PICK h : h = Head(flight)
  OBVIOUS
<1>4. h \in Response
  BY <1>1, <1>2, <1>3, HeadTailProperties DEF TypeOK
<1>5. h.owner = <<c, d>> /\ c \in Callers /\ d \in Nat /\ h.left \in Nat \ {0}
  BY <1>2, <1>3, <1>4 DEF Response
<1>6. PICK f : f = stack[c][d]
  OBVIOUS
<1>7. d \in 1..Depth(c) /\ f.at \in {"sent", "answered"} /\ Bounded(f, h.left)
  BY <1>1, <1>2, <1>3, <1>5, <1>6 DEF Owning
<1>8. FrameOK(f) /\ f \in Frame
  BY <1>1, <1>5, <1>6, <1>7, FrameIn
<1>9. Nested(f, stack[c][d + 1])
  <2>1. StackOK(stack[c]) /\ Depth(c) = Len(stack[c]) /\ stack[c] \in Seq(Frame)
    BY <1>1, <1>5 DEF TypeOK, Depth
  <2>2. Len(stack[c]) \in Nat
    BY <2>1, LenProperties
  <2>3. d \in 1..Len(stack[c]) - 1
    BY <1>2, <1>7, <2>1, <2>2
  <2> QED BY <1>6, <2>1, <2>3 DEF StackOK
<1>10. f.at = "answered" /\ f.fn \in {"prepare", "lookup"}
  BY <1>7, <1>8, <1>9 DEF Nested, FrameOK, RoomyAndKnown
<1>11. f.buf \in Nat /\ ChanCap \in Nat /\ ChanCap >= 2
  BY <1>8, StatementsAssumption DEF Frame, RoomyAndKnown
<1>12. h.left + (f.buf + 1) <= 3
  <2>1. h.left + (f.buf + 1) <= 2 \/ h.left + (f.buf + 1) <= 3
    BY <1>7, <1>10 DEF Bounded, Used
  <2> QED BY <1>5, <1>11, <2>1
<1>13. f.buf < ChanCap
  BY <1>5, <1>11, <1>12
<1> QED BY <1>6, <1>13 DEF Room

\* A response that cannot be delivered is one its caller is reading: a call never waits
\* for an answer while one it has left unread, and too long for the channel, stands
\* before it and before every other answer (prepare.rs, query.rs), where a channel has
\* its real room and no query_typed looks types up.
THEOREM FullCorrect == RoomyAndKnown /\ Spec => []FullIsBeingRead
<1>1. CASE RoomyAndKnown
  <2>1. StatementsInv => FullIsBeingRead
    BY <1>1, FullImplies
  <2> QED BY <1>1, <2>1, StatementsInvCorrect, PTL
<1>2. CASE ~RoomyAndKnown
  BY <1>2, PTL
<1> QED BY <1>1, <1>2
=============================================================================
