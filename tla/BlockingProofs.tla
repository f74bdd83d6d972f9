---------------------------- MODULE BlockingProofs ----------------------------
(***************************************************************************)
(* Proofs about the blocking client, for any number of requests, batches,  *)
(* notifications and places in a channel.  Notifications reach the         *)
(* iterators once and in order, whichever call reads them off the socket;  *)
(* and what a call returns is its own response, though earlier ones were   *)
(* abandoned.                                                              *)
(*                                                                         *)
(* The second needs what is true of the parts of responses on their way:   *)
(* each follows on the one before it, the first continues the request at   *)
(* the head of the line, and the server continues the last.                *)
(***************************************************************************)
EXTENDS Blocking, SequenceTheorems, TLAPS

Items ==
  {m \in [type : {"part", "note", "fatal", "eof"}, n : Nat, req : Nat, last : BOOLEAN] :
     m.type # "part" => m.last = FALSE}

-----------------------------------------------------------------------------
(* Notifications.                                                          *)

Seen == handed \o queue

NotesTyped ==
  /\ inbound \in Seq(Items)
  /\ toServer \in Seq(Nat) /\ sendq \in Seq(Nat)
  /\ queue \in Seq(Nat) /\ handed \in Seq(Nat)
  /\ sent \in Nat /\ noted \in Nat /\ notes \in Nat
  /\ lost \in BOOLEAN

\* Notifications rise, from those seen to those coming.
Rising(q, seen, n) ==
  /\ \A i \in 1..Len(seen) : seen[i] \in 1..n
  /\ \A i, j \in 1..Len(seen) : i < j => seen[i] < seen[j]
  /\ \A j \in 1..Len(q) : q[j].type = "note" => q[j].n \in 1..n
  /\ \A i \in 1..Len(seen), j \in 1..Len(q) : q[j].type = "note" => seen[i] < q[j].n
  /\ \A i, j \in 1..Len(q) :
       q[i].type = "note" /\ q[j].type = "note" /\ i < j => q[i].n < q[j].n

\* None is missing.
Whole(q, seen, n) ==
  /\ \A i \in 1..Len(seen) : seen[i] = i
  /\ \A k \in (Len(seen) + 1)..n : \E j \in 1..Len(q) : q[j].type = "note" /\ q[j].n = k

NotesInv ==
  /\ NotesTyped
  /\ Rising(inbound, Seen, notes)
  /\ lost = FALSE => Whole(inbound, Seen, notes)

-----------------------------------------------------------------------------
(* The parts on their way.                                                 *)

Mine == got \o chan
Put == sent - Len(sendq)
Received == Put - Len(waiting)
Served == Put - Len(toServer)

IsPart(q, i) == i \in 1..Len(q) /\ q[i].type = "part"
NoParts(q) == \A i \in 1..Len(q) : q[i].type # "part"
First(q, i) == IsPart(q, i) /\ \A k \in 1..Len(q) : k < i => q[k].type # "part"
Last(q, i) == IsPart(q, i) /\ \A k \in 1..Len(q) : i < k => q[k].type # "part"
Adjacent(q, i, j) ==
  /\ IsPart(q, i) /\ IsPart(q, j) /\ i < j
  /\ \A k \in 1..Len(q) : i < k /\ k < j => q[k].type # "part"

\* Requests are numbered without a gap up to a.
Numbers(q, a) == Len(q) <= a /\ \A i \in 1..Len(q) : q[i] = (a - Len(q)) + i

\* A part is followed by the next of its response, or by the first of the next response.
Follows(p, r) ==
  IF p.last = TRUE THEN r.req = p.req + 1 /\ r.n = 1 ELSE r.req = p.req /\ r.n = p.n + 1
Chained(q) == \A i, j \in 1..Len(q) : Adjacent(q, i, j) => Follows(q[i], q[j])
Heads(q, r) == \A i \in 1..Len(q) : First(q, i) => q[i].req = r + 1
Resumes(q, n) == \A i \in 1..Len(q) : First(q, i) => q[i].n = n + 1
Below(q, a) == \A i \in 1..Len(q) : IsPart(q, i) => q[i].req <= a
\* The server, which has served s requests and n parts of the next, goes on after the last.
Lasts(q, s, n) ==
  \A i \in 1..Len(q) : Last(q, i) =>
     IF q[i].last = TRUE THEN n = 0 /\ q[i].req = s ELSE n = q[i].n /\ q[i].req = s + 1
FatalLast(q) == \A i, j \in 1..Len(q) : q[i].type = "fatal" /\ q[j].type = "part" => j < i
NoFatal(q) == \A i \in 1..Len(q) : q[i].type # "fatal"

Numbering ==
  /\ Numbers(sendq, sent) /\ Numbers(waiting, Put)
  /\ srv = "up" => Numbers(toServer, Put)

Stream ==
  /\ Chained(inbound) /\ Heads(inbound, Received) /\ Below(inbound, Put)
  /\ FatalLast(inbound)

Serving ==
  srv = "up" =>
    /\ Lasts(inbound, Served, noted)
    /\ NoParts(inbound) => Served = Received
    /\ toServer = <<>> => noted = 0
    /\ NoFatal(inbound)

\* What is read of the response that a call reads, and what is to come of it.
Calls == Requests \cup {"next"}

Mining ==
  /\ op \in Calls =>
       \A i \in 1..Len(Mine) :
         /\ Mine[i].type \in {"part", "fatal"}
         /\ Mine[i].type = "part" => Mine[i].req = sent /\ Mine[i].n = i
  /\ reading # 0 =>
       /\ Received + 1 < sent \/ sendq # <<>> => Mine = <<>>
       /\ ~NoFatal(Mine) => NoParts(inbound) /\ srv # "up"
  /\ Wanted =>
       /\ Resumes(inbound, Len(Mine))
       /\ srv = "up" /\ NoParts(inbound) => noted = Len(Mine)

\* Who reads.
Calling ==
  /\ reading # 0 => /\ op \in Calls /\ reading = sent
                    /\ holds = "rows" \/ (op \in Requests /\ stage # "out")
  /\ reading = 0 => chan = <<>>
  /\ op \in Requests /\ stage # "out" /\ (reading = 0 \/ op = "open") => got = <<>>
  /\ holds = "rows" => op \in {"open", "next"} /\ reading # 0
  /\ stage # "out" => (op = "next" <=> holds = "rows")
  /\ op \in Calls /\ stage # "out" => outcome = "none"

Done ==
  op \in Calls /\ ~Failed(got) =>
    (((outcome = "ok" /\ op # "open") \/ outcome = "end") => Complete(got))

-----------------------------------------------------------------------------
(* Sequences.                                                              *)

LEMMA TailOf ==
  ASSUME NEW S, NEW q \in Seq(S), q # <<>>
  PROVE  /\ Len(q) \in Nat \ {0} /\ Tail(q) \in Seq(S) /\ Len(Tail(q)) = Len(q) - 1
         /\ \A i \in 1..Len(Tail(q)) : Tail(q)[i] = q[i + 1]
         /\ Head(q) = q[1] /\ Head(q) \in S
PROOF
  BY HeadTailProperties, EmptySeq, LenProperties, ElementOfSeq

LEMMA AppendOf ==
  ASSUME NEW S, NEW q \in Seq(S), NEW m \in S
  PROVE  /\ Len(q) \in Nat /\ Append(q, m) \in Seq(S) /\ Len(Append(q, m)) = Len(q) + 1
         /\ \A i \in 1..Len(q) : Append(q, m)[i] = q[i]
         /\ Append(q, m)[Len(q) + 1] = m
PROOF
  BY AppendProperties, LenProperties

LEMMA ConcatOf ==
  ASSUME NEW S, NEW q \in Seq(S), NEW p \in Seq(S)
  PROVE  /\ Len(q) \in Nat /\ Len(p) \in Nat
         /\ q \o p \in Seq(S) /\ Len(q \o p) = Len(q) + Len(p)
         /\ \A i \in 1..Len(q) : (q \o p)[i] = q[i]
         /\ \A i \in 1..Len(p) : (q \o p)[Len(q) + i] = p[i]
PROOF
<1>1. /\ q \o p \in Seq(S) /\ Len(q \o p) = Len(q) + Len(p)
      /\ \A i \in 1..Len(q) + Len(p) :
           (q \o p)[i] = IF i <= Len(q) THEN q[i] ELSE p[i - Len(q)]
  BY ConcatProperties
<1>2. Len(q) \in Nat /\ Len(p) \in Nat
  BY LenProperties
<1>3. \A i \in 1..Len(q) : (q \o p)[i] = q[i]
  BY <1>1, <1>2
<1>4. ASSUME NEW i \in 1..Len(p)
      PROVE  (q \o p)[Len(q) + i] = p[i]
  <2>1. Len(q) + i \in 1..Len(q) + Len(p) /\ ~(Len(q) + i <= Len(q)) /\ (Len(q) + i) - Len(q) = i
    BY <1>2
  <2> QED
    BY <1>1, <2>1
<1> QED
  BY <1>1, <1>2, <1>3, <1>4

\* The first of one sequence moved to the end of another changes their concatenation
\* in nothing.
LEMMA MoveOne ==
  ASSUME NEW S, NEW p \in Seq(S), NEW q \in Seq(S), q # <<>>
  PROVE  Append(p, Head(q)) \o Tail(q) = p \o q
PROOF
<1>1. Tail(q) \in Seq(S) /\ Len(Tail(q)) = Len(q) - 1 /\ Head(q) \in S /\ Head(q) = q[1]
      /\ Len(q) \in Nat \ {0} /\ \A i \in 1..Len(Tail(q)) : Tail(q)[i] = q[i + 1]
  BY TailOf
<1>2. PICK a : a = Append(p, Head(q))
  OBVIOUS
<1>3. a \in Seq(S) /\ Len(a) = Len(p) + 1 /\ Len(p) \in Nat /\ a[Len(p) + 1] = Head(q)
      /\ \A i \in 1..Len(p) : a[i] = p[i]
  BY <1>1, <1>2, AppendOf
<1>4. /\ a \o Tail(q) \in Seq(S) /\ Len(a \o Tail(q)) = Len(a) + Len(Tail(q))
      /\ \A i \in 1..Len(a) : (a \o Tail(q))[i] = a[i]
      /\ \A i \in 1..Len(Tail(q)) : (a \o Tail(q))[Len(a) + i] = Tail(q)[i]
  <2>1. PICK t : t = Tail(q)
    OBVIOUS
  <2>2. t \in Seq(S) /\ a \in Seq(S)
    BY <1>1, <1>3, <2>1
  <2>3. /\ a \o t \in Seq(S) /\ Len(a \o t) = Len(a) + Len(t)
        /\ \A i \in 1..Len(a) : (a \o t)[i] = a[i]
        /\ \A i \in 1..Len(t) : (a \o t)[Len(a) + i] = t[i]
    BY <2>2, ConcatOf
  <2> QED
    BY <2>1, <2>3
<1>5. /\ p \o q \in Seq(S) /\ Len(p \o q) = Len(p) + Len(q)
      /\ \A i \in 1..Len(p) : (p \o q)[i] = p[i]
      /\ \A i \in 1..Len(q) : (p \o q)[Len(p) + i] = q[i]
  BY ConcatOf
<1>6. Len(a \o Tail(q)) = Len(p \o q)
  BY <1>1, <1>3, <1>4, <1>5
<1>7. ASSUME NEW i \in 1..Len(p \o q)
      PROVE  (a \o Tail(q))[i] = (p \o q)[i]
  <2>1. CASE i <= Len(p)
    <3>1. i \in 1..Len(p) /\ i \in 1..Len(a)
      BY <1>3, <1>7, <2>1
    <3> QED
      BY <1>3, <1>4, <1>5, <3>1
  <2>2. CASE i = Len(p) + 1
    <3>1. i \in 1..Len(a) /\ 1 \in 1..Len(q)
      BY <1>1, <1>3, <2>2
    <3>2. (a \o Tail(q))[i] = Head(q)
      BY <1>3, <1>4, <2>2, <3>1
    <3>3. (p \o q)[i] = q[1]
      BY <1>5, <2>2, <3>1
    <3> QED
      BY <1>1, <3>2, <3>3
  <2>3. CASE i > Len(p) + 1
    <3>1. PICK k : k = i - Len(a)
      OBVIOUS
    <3>2. k \in 1..Len(Tail(q)) /\ i = Len(a) + k /\ k + 1 \in 1..Len(q) /\ i = Len(p) + (k + 1)
      BY <1>1, <1>3, <1>5, <1>7, <2>3, <3>1
    <3>3. (a \o Tail(q))[i] = q[k + 1]
      BY <1>1, <1>4, <3>2
    <3>4. (p \o q)[i] = q[k + 1]
      BY <1>5, <3>2
    <3> QED
      BY <3>3, <3>4
  <2> QED
    BY <1>3, <1>7, <2>1, <2>2, <2>3
<1>8. a \o Tail(q) = p \o q
  BY <1>4, <1>5, <1>6, <1>7, SeqEqual
<1> QED
  BY <1>2, <1>8

LEMMA ConcatAppend ==
  ASSUME NEW S, NEW p \in Seq(S), NEW q \in Seq(S), NEW m \in S
  PROVE  p \o Append(q, m) = Append(p \o q, m)
PROOF
<1>1. <<m>> \in Seq(S) /\ p \o q \in Seq(S)
  BY ConcatProperties
<1>2. Append(q, m) = q \o <<m>> /\ Append(p \o q, m) = (p \o q) \o <<m>>
  BY <1>1, AppendIsConcat
<1>3. (p \o q) \o <<m>> = p \o (q \o <<m>>)
  BY <1>1, ConcatAssociative
<1> QED
  BY <1>2, <1>3

-----------------------------------------------------------------------------
(* Notifications: what each kind of step does to them.                     *)

LEMMA OthersLeave ==
  ASSUME NEW q \in Seq(Items), q # <<>>, NEW seen \in Seq(Nat), NEW n \in Nat,
         Rising(q, seen, n)
  PROVE  /\ Rising(Tail(q), seen, n)
         /\ Head(q).type # "note" /\ Whole(q, seen, n) => Whole(Tail(q), seen, n)
PROOF
<1>1. PICK t : t = Tail(q)
  OBVIOUS
<1>2. t \in Seq(Items) /\ Len(t) = Len(q) - 1 /\ Len(q) \in Nat \ {0} /\ Head(q) = q[1]
      /\ \A i \in 1..Len(t) : t[i] = q[i + 1]
  BY <1>1, TailOf
<1>3. \A i \in 1..Len(t) : i + 1 \in 1..Len(q)
  BY <1>2
<1>4. Rising(t, seen, n)
  <2>1. /\ \A j \in 1..Len(t) : t[j].type = "note" => t[j].n \in 1..n
        /\ \A i \in 1..Len(seen), j \in 1..Len(t) : t[j].type = "note" => seen[i] < t[j].n
    BY <1>2, <1>3 DEF Rising
  <2>2. ASSUME NEW i \in 1..Len(t), NEW j \in 1..Len(t), i < j,
               t[i].type = "note", t[j].type = "note"
        PROVE  t[i].n < t[j].n
    <3>1. i + 1 < j + 1
      BY <1>2, <2>2
    <3> QED
      BY <1>2, <1>3, <2>2, <3>1 DEF Rising
  <2> QED
    BY <2>1, <2>2 DEF Rising
<1>5. ASSUME Head(q).type # "note", Whole(q, seen, n)
      PROVE  Whole(t, seen, n)
  <2>1. ASSUME NEW k \in (Len(seen) + 1)..n
        PROVE  \E j \in 1..Len(t) : t[j].type = "note" /\ t[j].n = k
    <3>1. PICK j \in 1..Len(q) : q[j].type = "note" /\ q[j].n = k
      BY <1>5, <2>1 DEF Whole
    <3>2. j # 1
      BY <1>2, <1>5, <3>1
    <3>3. PICK i : i = j - 1
      OBVIOUS
    <3>4. i \in 1..Len(t) /\ j = i + 1
      BY <1>2, <3>1, <3>2, <3>3
    <3> QED
      BY <1>2, <3>1, <3>4
  <2> QED
    BY <1>5, <2>1 DEF Whole
<1> QED
  BY <1>1, <1>4, <1>5

LEMMA NoteTaken ==
  ASSUME NEW q \in Seq(Items), q # <<>>, NEW seen \in Seq(Nat), NEW n \in Nat,
         Head(q).type = "note", Rising(q, seen, n)
  PROVE  /\ Head(q).n \in Nat
         /\ Rising(Tail(q), Append(seen, Head(q).n), n)
         /\ Whole(q, seen, n) => Whole(Tail(q), Append(seen, Head(q).n), n)
PROOF
<1>1. PICK t : t = Tail(q)
  OBVIOUS
<1>2. t \in Seq(Items) /\ Len(t) = Len(q) - 1 /\ Len(q) \in Nat \ {0} /\ Head(q) = q[1]
      /\ \A i \in 1..Len(t) : t[i] = q[i + 1]
  BY <1>1, TailOf
<1>3. \A i \in 1..Len(t) : i + 1 \in 1..Len(q) /\ 1 < i + 1
  BY <1>2
<1>4. PICK h : h = Head(q).n
  OBVIOUS
<1>5. h \in 1..n /\ q[1].type = "note" /\ q[1].n = h /\ h \in Nat
  BY <1>2, <1>4 DEF Rising
<1>6. PICK s : s = Append(seen, h)
  OBVIOUS
<1>7. s \in Seq(Nat) /\ Len(s) = Len(seen) + 1 /\ Len(seen) \in Nat /\ s[Len(seen) + 1] = h
      /\ \A i \in 1..Len(seen) : s[i] = seen[i]
  BY <1>5, <1>6, AppendOf
<1>8. \A i \in 1..Len(s) : i \in 1..Len(seen) \/ i = Len(seen) + 1
  BY <1>7
<1>9. Rising(t, s, n)
  <2>1. \A i \in 1..Len(s) : s[i] \in 1..n
    BY <1>5, <1>7, <1>8 DEF Rising
  <2>2. ASSUME NEW i \in 1..Len(s), NEW j \in 1..Len(s), i < j
        PROVE  s[i] < s[j]
    <3>1. i \in 1..Len(seen)
      BY <1>7, <2>2
    <3>2. CASE j \in 1..Len(seen)
      BY <1>7, <2>2, <3>1, <3>2 DEF Rising
    <3>3. CASE j = Len(seen) + 1
      <4>1. seen[i] < h
        BY <1>2, <1>5, <3>1 DEF Rising
      <4> QED
        BY <1>7, <3>1, <3>3, <4>1
    <3> QED
      BY <1>8, <3>2, <3>3
  <2>3. \A j \in 1..Len(t) : t[j].type = "note" => t[j].n \in 1..n
    BY <1>2, <1>3 DEF Rising
  <2>4. ASSUME NEW i \in 1..Len(s), NEW j \in 1..Len(t), t[j].type = "note"
        PROVE  s[i] < t[j].n
    <3>1. CASE i \in 1..Len(seen)
      BY <1>2, <1>3, <1>7, <2>4, <3>1 DEF Rising
    <3>2. CASE i = Len(seen) + 1
      <4>1. 1 \in 1..Len(q)
        BY <1>2
      <4>2. h < q[j + 1].n
        BY <1>2, <1>3, <1>5, <2>4, <4>1 DEF Rising
      <4> QED
        BY <1>2, <1>7, <3>2, <4>2
    <3> QED
      BY <1>8, <3>1, <3>2
  <2>5. ASSUME NEW i \in 1..Len(t), NEW j \in 1..Len(t), i < j,
               t[i].type = "note", t[j].type = "note"
        PROVE  t[i].n < t[j].n
    <3>1. i + 1 < j + 1
      BY <1>2, <2>5
    <3> QED
      BY <1>2, <1>3, <2>5, <3>1 DEF Rising
  <2> QED
    BY <2>1, <2>2, <2>3, <2>4, <2>5 DEF Rising
<1>10. ASSUME Whole(q, seen, n)
       PROVE  Whole(t, s, n)
  <2>1. h >= Len(seen) + 1
    <3>1. CASE Len(seen) = 0
      BY <1>5, <3>1
    <3>2. CASE Len(seen) # 0
      <4>1. Len(seen) \in 1..Len(seen) /\ 1 \in 1..Len(q)
        BY <1>2, <1>7, <3>2
      <4>2. seen[Len(seen)] = Len(seen)
        BY <1>10, <4>1 DEF Whole
      <4>3. seen[Len(seen)] < h
        BY <1>5, <4>1 DEF Rising
      <4> QED
        BY <1>5, <1>7, <4>2, <4>3
    <3> QED
      BY <3>1, <3>2
  <2>2. Len(seen) + 1 \in (Len(seen) + 1)..n
    BY <1>5, <1>7, <2>1
  <2>3. PICK j \in 1..Len(q) : q[j].type = "note" /\ q[j].n = Len(seen) + 1
    BY <1>10, <2>2 DEF Whole
  <2>4. h = Len(seen) + 1
    <3>1. CASE j = 1
      BY <1>5, <2>3, <3>1
    <3>2. CASE j # 1
      <4>1. 1 < j /\ 1 \in 1..Len(q)
        BY <1>2, <2>3, <3>2
      <4>2. h < Len(seen) + 1
        BY <1>5, <2>3, <4>1 DEF Rising
      <4> QED
        BY <1>5, <1>7, <2>1, <4>2
    <3> QED
      BY <3>1, <3>2
  <2>5. \A i \in 1..Len(s) : s[i] = i
    BY <1>7, <1>8, <1>10, <2>4 DEF Whole
  <2>6. ASSUME NEW k \in (Len(s) + 1)..n
        PROVE  \E i \in 1..Len(t) : t[i].type = "note" /\ t[i].n = k
    <3>1. k \in (Len(seen) + 1)..n /\ k # h
      BY <1>7, <2>4, <2>6
    <3>2. PICK l \in 1..Len(q) : q[l].type = "note" /\ q[l].n = k
      BY <1>10, <3>1 DEF Whole
    <3>3. l # 1
      BY <1>5, <3>1, <3>2
    <3>4. PICK i : i = l - 1
      OBVIOUS
    <3>5. i \in 1..Len(t) /\ l = i + 1
      BY <1>2, <3>2, <3>3, <3>4
    <3> QED
      BY <1>2, <3>2, <3>5
  <2> QED
    BY <2>5, <2>6 DEF Whole
<1> QED
  BY <1>1, <1>4, <1>5, <1>6, <1>9, <1>10

LEMMA OtherAdded ==
  ASSUME NEW q \in Seq(Items), NEW seen \in Seq(Nat), NEW n \in Nat, NEW m \in Items,
         m.type # "note", Rising(q, seen, n)
  PROVE  /\ Rising(Append(q, m), seen, n)
         /\ Whole(q, seen, n) => Whole(Append(q, m), seen, n)
PROOF
<1>1. PICK t : t = Append(q, m)
  OBVIOUS
<1>2. t \in Seq(Items) /\ Len(t) = Len(q) + 1 /\ Len(q) \in Nat /\ t[Len(q) + 1] = m
      /\ \A i \in 1..Len(q) : t[i] = q[i]
  BY <1>1, AppendOf
<1>3. \A i \in 1..Len(t) : t[i].type = "note" => i \in 1..Len(q)
  <2>1. \A i \in 1..Len(t) : i \in 1..Len(q) \/ i = Len(q) + 1
    BY <1>2
  <2> QED
    BY <1>2, <2>1
<1>4. \A i \in 1..Len(q) : i \in 1..Len(t)
  BY <1>2
<1>5. Rising(t, seen, n)
  BY <1>2, <1>3 DEF Rising
<1>6. Whole(q, seen, n) => Whole(t, seen, n)
  BY <1>2, <1>4 DEF Whole
<1> QED
  BY <1>1, <1>5, <1>6

LEMMA NoteAdded ==
  ASSUME NEW q \in Seq(Items), NEW seen \in Seq(Nat), NEW n \in Nat,
         Rising(q, seen, n)
  PROVE  /\ Item("note", n + 1) \in Items
         /\ Rising(Append(q, Item("note", n + 1)), seen, n + 1)
         /\ Whole(q, seen, n) => Whole(Append(q, Item("note", n + 1)), seen, n + 1)
PROOF
<1>1. PICK m : m = Item("note", n + 1)
  OBVIOUS
<1>2. m \in Items /\ m.type = "note" /\ m.n = n + 1
  BY <1>1 DEF Item, Items
<1>3. PICK t : t = Append(q, m)
  OBVIOUS
<1>4. t \in Seq(Items) /\ Len(t) = Len(q) + 1 /\ Len(q) \in Nat /\ t[Len(q) + 1] = m
      /\ \A i \in 1..Len(q) : t[i] = q[i]
  BY <1>2, <1>3, AppendOf
<1>5. \A i \in 1..Len(t) : i \in 1..Len(q) \/ i = Len(q) + 1
  BY <1>4
<1>6. 1..n \subseteq 1..n + 1 /\ n + 1 \in 1..n + 1 /\ \A k \in 1..n : k < n + 1
  OBVIOUS
<1>7. Rising(t, seen, n + 1)
  <2>1. \A i \in 1..Len(seen) : seen[i] \in 1..n + 1
    BY <1>6 DEF Rising
  <2>2. \A j \in 1..Len(t) : t[j].type = "note" => t[j].n \in 1..n + 1
    BY <1>2, <1>4, <1>5, <1>6 DEF Rising
  <2>3. \A i \in 1..Len(seen), j \in 1..Len(t) : t[j].type = "note" => seen[i] < t[j].n
    BY <1>2, <1>4, <1>5, <1>6 DEF Rising
  <2>4. ASSUME NEW i \in 1..Len(t), NEW j \in 1..Len(t), i < j,
               t[i].type = "note", t[j].type = "note"
        PROVE  t[i].n < t[j].n
    <3>1. i \in 1..Len(q)
      BY <1>4, <2>4
    <3>2. CASE j \in 1..Len(q)
      BY <1>4, <2>4, <3>1, <3>2 DEF Rising
    <3>3. CASE j = Len(q) + 1
      <4>1. t[i].n \in 1..n
        BY <1>4, <2>4, <3>1 DEF Rising
      <4> QED
        BY <1>2, <1>4, <1>6, <3>3, <4>1
    <3> QED
      BY <1>5, <3>2, <3>3
  <2> QED
    BY <2>1, <2>2, <2>3, <2>4 DEF Rising
<1>8. ASSUME Whole(q, seen, n)
      PROVE  Whole(t, seen, n + 1)
  <2>1. ASSUME NEW k \in (Len(seen) + 1)..n + 1
        PROVE  \E j \in 1..Len(t) : t[j].type = "note" /\ t[j].n = k
    <3>1. CASE k = n + 1
      <4>1. Len(q) + 1 \in 1..Len(t)
        BY <1>4
      <4> QED
        BY <1>2, <1>4, <3>1, <4>1
    <3>2. CASE k # n + 1
      <4>1. k \in (Len(seen) + 1)..n
        <5>1. Len(seen) \in Nat
          BY LenProperties
        <5> QED
          BY <2>1, <3>2, <5>1
      <4>2. PICK j \in 1..Len(q) : q[j].type = "note" /\ q[j].n = k
        BY <1>8, <4>1 DEF Whole
      <4>3. j \in 1..Len(t)
        BY <1>4, <4>2
      <4> QED
        BY <1>4, <4>2, <4>3
    <3> QED
      BY <3>1, <3>2
  <2> QED
    BY <1>8, <2>1 DEF Whole
<1> QED
  BY <1>1, <1>2, <1>3, <1>7, <1>8

NoteVars == <<inbound, toServer, sendq, queue, handed, sent, noted, notes, lost, waiting, srv>>

LEMMA NotesInit ==
  ASSUME Init
  PROVE  NotesInv
PROOF
<1>1. NotesTyped
  BY EmptySeq DEF Init, NotesTyped
<1>2. Seen = <<>> /\ Len(Seen) = 0 /\ Len(inbound) = 0 /\ notes = 0
  BY DEF Init, Seen
<1>3. Rising(inbound, Seen, notes)
  BY <1>2 DEF Rising
<1>4. Whole(inbound, Seen, notes)
  BY <1>2 DEF Whole
<1> QED
  BY <1>1, <1>3, <1>4 DEF NotesInv

\* A step that only takes something else off the stream, or adds it, or stops counting.
LEMMA NotesKeep ==
  ASSUME NotesInv, NotesTyped', Seen' = Seen, notes' = notes, lost' = FALSE => lost = FALSE,
         \/ inbound' = inbound
         \/ /\ inbound # <<>> /\ inbound' = Tail(inbound)
            /\ Head(inbound).type # "note" \/ lost' = TRUE
         \/ \E m \in Items : m.type # "note" /\ inbound' = Append(inbound, m)
  PROVE  NotesInv'
PROOF
<1>1. Seen \in Seq(Nat)
  BY ConcatProperties DEF NotesInv, NotesTyped, Seen
<1>2. /\ inbound \in Seq(Items) /\ notes \in Nat /\ Rising(inbound, Seen, notes)
      /\ lost = FALSE => Whole(inbound, Seen, notes)
  BY DEF NotesInv, NotesTyped
<1>3. Rising(inbound', Seen, notes) /\ (lost' = FALSE => Whole(inbound', Seen, notes))
  <2>1. CASE inbound' = inbound
    BY <1>2, <2>1
  <2>2. CASE /\ inbound # <<>> /\ inbound' = Tail(inbound)
             /\ Head(inbound).type # "note" \/ lost' = TRUE
    <3>1. lost' = FALSE => Head(inbound).type # "note"
      BY <2>2
    <3>2. /\ Rising(Tail(inbound), Seen, notes)
          /\ Head(inbound).type # "note" /\ Whole(inbound, Seen, notes)
               => Whole(Tail(inbound), Seen, notes)
      BY <1>1, <1>2, <2>2, OthersLeave
    <3> QED
      BY <1>2, <2>2, <3>1, <3>2
  <2>3. CASE \E m \in Items : m.type # "note" /\ inbound' = Append(inbound, m)
    <3>1. PICK m \in Items : m.type # "note" /\ inbound' = Append(inbound, m)
      BY <2>3
    <3>2. /\ Rising(Append(inbound, m), Seen, notes)
          /\ Whole(inbound, Seen, notes) => Whole(Append(inbound, m), Seen, notes)
      BY <1>1, <1>2, <3>1, OtherAdded
    <3> QED
      BY <1>2, <3>1, <3>2
  <2> QED
    BY <2>1, <2>2, <2>3
<1> QED
  BY <1>3 DEF NotesInv

\* An iterator takes a notification from the front of the queue.
LEMMA TakeKeeps ==
  ASSUME NEW o, queue # <<>>, Take(o), queue \in Seq(Nat), handed \in Seq(Nat)
  PROVE  queue' \in Seq(Nat) /\ handed' \in Seq(Nat) /\ Seen' = Seen
PROOF
<1>1. handed' = Append(handed, Head(queue)) /\ queue' = Tail(queue)
  BY DEF Take, OldestFirst
<1>2. Tail(queue) \in Seq(Nat) /\ Head(queue) \in Nat
  BY TailOf
<1>3. Append(handed, Head(queue)) \in Seq(Nat)
  BY <1>2, AppendOf
<1>4. Append(handed, Head(queue)) \o Tail(queue) = handed \o queue
  BY MoveOne
<1> QED
  BY <1>1, <1>2, <1>3, <1>4 DEF Seen

\* What the writes do, whatever was read.
LEMMA WrittenTyped ==
  ASSUME Written, toServer \in Seq(Nat), sendq \in Seq(Nat)
  PROVE  toServer' \in Seq(Nat) /\ sendq' \in Seq(Nat) /\ lost' = lost
PROOF
  BY ConcatProperties, EmptySeq DEF Written

\* The steps that leave all of it alone.
Aside ==
  \/ \E o \in Requests : CallRequest(o)
  \/ NextRow \/ TimeoutIter \/ DropBorrow
  \/ \E o \in Iterators : NextNotification(o)
  \/ \E o \in Closes : CloseInner(o)
  \/ ReadEof \/ PollAfterClose \/ Refused \/ Answered \/ RowsOpened \/ RowRead \/ RowsOver
  \/ GivesUp \/ Closed \/ FPending \/ Woken \/ Fire

LEMMA AsideLeaves ==
  ASSUME Aside
  PROVE  UNCHANGED NoteVars
PROOF
<1>1. ASSUME NEW o \in Requests, CallRequest(o)
      PROVE  UNCHANGED NoteVars
  BY <1>1 DEF CallRequest, taskVars, serverVars, NoteVars
<1>2. CASE NextRow \/ TimeoutIter \/ DropBorrow
  BY <1>2 DEF NextRow, TimeoutIter, DropBorrow, taskVars, serverVars, NoteVars
<1>3. ASSUME NEW o \in Iterators, NextNotification(o)
      PROVE  UNCHANGED NoteVars
  BY <1>3 DEF NextNotification, taskVars, serverVars, NoteVars
<1>4. ASSUME NEW o \in Closes, CloseInner(o)
      PROVE  UNCHANGED NoteVars
  BY <1>4 DEF CloseInner, serverVars, NoteVars
<1>5. CASE ReadEof
  BY <1>5 DEF ReadEof, serverVars, NoteVars
<1>6. CASE PollAfterClose \/ Refused \/ RowsOver \/ Closed \/ Woken \/ Fire
  BY <1>6 DEF PollAfterClose, Refused, RowsOver, Closed, Woken, Fire, taskVars, serverVars, NoteVars
<1>7. CASE Answered \/ RowsOpened \/ RowRead
  BY <1>7 DEF Answered, RowsOpened, RowRead, serverVars, NoteVars
<1>8. CASE GivesUp \/ FPending
  BY <1>8 DEF GivesUp, FPending, serverVars, NoteVars
<1> QED
  BY <1>1, <1>2, <1>3, <1>4, <1>5, <1>6, <1>7, <1>8 DEF Aside

\* The rest.
Moving ==
  \/ \E o \in Iterators : NextBuffered(o)
  \/ ReadPart \/ ReadNote \/ WriteFails \/ ReadFatal \/ ReadPending \/ Send \/ Notified
  \/ Server

LEMMA StepIs ==
  ASSUME [Next]_vars
  PROVE  UNCHANGED vars \/ Aside \/ Moving
PROOF
  BY DEF Next, Call, Poll, PollF, Aside, Moving

LEMMA NotesStep ==
  ASSUME NotesInv, [Next]_vars
  PROVE  NotesInv'
PROOF
<1>1. NotesTyped
  BY DEF NotesInv
<1>2. CASE UNCHANGED vars \/ Aside
  <2>1. UNCHANGED NoteVars
    BY <1>2, AsideLeaves DEF vars, callVars, taskVars, serverVars, NoteVars
  <2>2. NotesTyped' /\ Seen' = Seen /\ inbound' = inbound /\ notes' = notes /\ lost' = lost
    BY <1>1, <2>1 DEF NoteVars, NotesTyped, Seen
  <2> QED
    BY <2>2, NotesKeep
<1>3. ASSUME NEW o \in Iterators, NextBuffered(o)
      PROVE  NotesInv'
  <2>1. Take(o) /\ queue # <<>> /\ UNCHANGED <<inbound, toServer, sendq, sent, noted, notes, lost>>
    BY <1>3 DEF NextBuffered, taskVars, serverVars
  <2>2. queue' \in Seq(Nat) /\ handed' \in Seq(Nat) /\ Seen' = Seen
    BY <1>1, <2>1, TakeKeeps DEF NotesTyped
  <2>3. NotesTyped'
    BY <1>1, <2>1, <2>2 DEF NotesTyped
  <2> QED
    BY <2>1, <2>2, <2>3, NotesKeep
<1>4. CASE Notified
  <2>1. Take(op) /\ queue # <<>> /\ UNCHANGED <<inbound, toServer, sendq, sent, noted, notes, lost>>
    BY <1>4 DEF Notified, taskVars, serverVars
  <2>2. queue' \in Seq(Nat) /\ handed' \in Seq(Nat) /\ Seen' = Seen
    BY <1>1, <2>1, TakeKeeps DEF NotesTyped
  <2>3. NotesTyped'
    BY <1>1, <2>1, <2>2 DEF NotesTyped
  <2> QED
    BY <2>1, <2>2, <2>3, NotesKeep
<1>5. CASE ReadPart
  <2>1. /\ inbound # <<>> /\ inbound' = Tail(inbound) /\ Head(inbound).type # "note"
        /\ UNCHANGED <<toServer, sendq, queue, handed, sent, noted, notes, lost>>
    BY <1>5 DEF ReadPart, AtPart, callVars
  <2>2. Tail(inbound) \in Seq(Items)
    BY <1>1, <2>1, TailOf DEF NotesTyped
  <2>3. NotesTyped' /\ Seen' = Seen
    BY <1>1, <2>1, <2>2 DEF NotesTyped, Seen
  <2> QED
    BY <2>1, <2>3, NotesKeep
<1>6. CASE ReadNote
  <2>1. /\ inbound # <<>> /\ inbound' = Tail(inbound) /\ Head(inbound).type = "note"
        /\ queue' = Append(queue, Head(inbound).n) /\ Written
        /\ UNCHANGED <<handed, sent, noted, notes>>
    BY <1>6 DEF ReadNote, AtNote
  <2>2. /\ inbound \in Seq(Items) /\ queue \in Seq(Nat) /\ handed \in Seq(Nat) /\ notes \in Nat
        /\ toServer \in Seq(Nat) /\ sendq \in Seq(Nat)
    BY <1>1 DEF NotesTyped
  <2>3. Tail(inbound) \in Seq(Items)
    BY <2>1, <2>2, TailOf
  <2>4. Seen \in Seq(Nat)
    BY <2>2, ConcatProperties DEF Seen
  <2>5. /\ Head(inbound).n \in Nat
        /\ Rising(Tail(inbound), Append(Seen, Head(inbound).n), notes)
        /\ Whole(inbound, Seen, notes) => Whole(Tail(inbound), Append(Seen, Head(inbound).n), notes)
    BY <2>1, <2>2, <2>4, NoteTaken DEF NotesInv
  <2>6. PICK h : h = Head(inbound).n
    OBVIOUS
  <2>7. Append(queue, h) \in Seq(Nat) /\ handed \o Append(queue, h) = Append(handed \o queue, h)
    BY <2>2, <2>5, <2>6, AppendProperties, ConcatAppend
  <2>8. Seen' = Append(Seen, h)
    BY <2>1, <2>6, <2>7 DEF Seen
  <2>9. toServer' \in Seq(Nat) /\ sendq' \in Seq(Nat) /\ lost' = lost
    BY <2>1, <2>2, WrittenTyped
  <2>10. NotesTyped'
    BY <1>1, <2>1, <2>3, <2>6, <2>7, <2>9 DEF NotesTyped
  <2>11. NotesInv => (lost = FALSE => Whole(inbound, Seen, notes))
    BY DEF NotesInv
  <2> QED
    BY <2>1, <2>5, <2>6, <2>8, <2>9, <2>10, <2>11 DEF NotesInv
<1>7. CASE WriteFails
  <2>1. /\ lost' = TRUE /\ (inbound' = inbound \/ (inbound # <<>> /\ inbound' = Tail(inbound)))
        /\ UNCHANGED <<toServer, sendq, queue, handed, sent, noted, notes>>
    BY <1>7 DEF WriteFails, AtNote
  <2>2. inbound # <<>> => Tail(inbound) \in Seq(Items)
    BY <1>1, TailOf DEF NotesTyped
  <2>3. NotesTyped' /\ Seen' = Seen
    BY <1>1, <2>1, <2>2 DEF NotesTyped, Seen
  <2> QED
    BY <2>1, <2>3, NotesKeep
<1>8. CASE ReadFatal
  <2>1. /\ inbound # <<>> /\ inbound' = Tail(inbound) /\ Head(inbound).type # "note"
        /\ UNCHANGED <<toServer, sendq, queue, handed, sent, noted, notes, lost>>
    BY <1>8 DEF ReadFatal
  <2>2. Tail(inbound) \in Seq(Items)
    BY <1>1, <2>1, TailOf DEF NotesTyped
  <2>3. NotesTyped' /\ Seen' = Seen
    BY <1>1, <2>1, <2>2 DEF NotesTyped, Seen
  <2> QED
    BY <2>1, <2>3, NotesKeep
<1>9. CASE ReadPending
  <2>1. Written /\ UNCHANGED <<inbound, queue, handed, sent, noted, notes>>
    BY <1>9 DEF ReadPending
  <2>2. toServer' \in Seq(Nat) /\ sendq' \in Seq(Nat) /\ lost' = lost
    BY <1>1, <2>1, WrittenTyped DEF NotesTyped
  <2>3. NotesTyped' /\ Seen' = Seen
    BY <1>1, <2>1, <2>2 DEF NotesTyped, Seen
  <2> QED
    BY <2>1, <2>2, <2>3, NotesKeep
<1>10. CASE Send
  <2>1. /\ sent' = sent + 1 /\ sendq' = Append(sendq, sent + 1)
        /\ UNCHANGED <<inbound, toServer, queue, handed, noted, notes, lost>>
    BY <1>10 DEF Send, callVars, serverVars
  <2>2. Append(sendq, sent + 1) \in Seq(Nat) /\ sent + 1 \in Nat
    BY <1>1, AppendProperties DEF NotesTyped
  <2>3. NotesTyped' /\ Seen' = Seen
    BY <1>1, <2>1, <2>2 DEF NotesTyped, Seen
  <2> QED
    BY <2>1, <2>3, NotesKeep
<1>11. CASE Answer
  <2>1. PICK l \in BOOLEAN :
             /\ inbound' = Append(inbound, Part(Head(toServer), noted + 1, l))
             /\ noted' = IF l THEN 0 ELSE noted + 1
             /\ toServer' = IF l THEN Tail(toServer) ELSE toServer
    BY <1>11 DEF Answer
  <2>2. toServer # <<>> /\ UNCHANGED <<sendq, queue, handed, sent, notes, lost>>
    BY <1>11 DEF Answer, callVars, taskVars
  <2>3. Head(toServer) \in Nat /\ Tail(toServer) \in Seq(Nat) /\ noted + 1 \in Nat /\ noted' \in Nat
    BY <1>1, <2>1, <2>2, TailOf DEF NotesTyped
  <2>4. PICK m : m = Part(Head(toServer), noted + 1, l)
    OBVIOUS
  <2>5. m \in Items /\ m.type # "note"
    BY <2>3, <2>4 DEF Part, Items
  <2>6. inbound' = Append(inbound, m) /\ Append(inbound, m) \in Seq(Items)
    BY <1>1, <2>1, <2>4, <2>5, AppendProperties DEF NotesTyped
  <2>7. NotesTyped' /\ Seen' = Seen
    BY <1>1, <2>1, <2>2, <2>3, <2>6 DEF NotesTyped, Seen
  <2> QED
    BY <2>2, <2>5, <2>6, <2>7, NotesKeep
<1>12. CASE Notify
  <2>1. /\ notes' = notes + 1 /\ inbound' = Append(inbound, Item("note", notes + 1))
        /\ UNCHANGED <<toServer, sendq, queue, handed, sent, noted, lost>>
    BY <1>12 DEF Notify, callVars, taskVars
  <2>2. /\ inbound \in Seq(Items) /\ queue \in Seq(Nat) /\ handed \in Seq(Nat) /\ notes \in Nat
    BY <1>1 DEF NotesTyped
  <2>3. Seen \in Seq(Nat) /\ Seen' = Seen
    BY <2>1, <2>2, ConcatProperties DEF Seen
  <2>4. /\ Item("note", notes + 1) \in Items
        /\ Rising(Append(inbound, Item("note", notes + 1)), Seen, notes + 1)
        /\ Whole(inbound, Seen, notes)
             => Whole(Append(inbound, Item("note", notes + 1)), Seen, notes + 1)
    BY <2>2, <2>3, NoteAdded DEF NotesInv
  <2>5. NotesTyped'
    <3>1. Append(inbound, Item("note", notes + 1)) \in Seq(Items) /\ notes + 1 \in Nat
      BY <2>2, <2>4, AppendProperties
    <3> QED
      BY <1>1, <2>1, <3>1 DEF NotesTyped
  <2>6. lost = FALSE => Whole(inbound, Seen, notes)
    BY DEF NotesInv
  <2> QED
    BY <2>1, <2>3, <2>4, <2>5, <2>6 DEF NotesInv
<1>13. CASE Hang
  <2>1. NotesTyped' /\ Seen' = Seen /\ inbound' = inbound /\ notes' = notes /\ lost' = lost
    BY <1>1, <1>13 DEF Hang, callVars, taskVars, NotesTyped, Seen
  <2> QED
    BY <2>1, NotesKeep
<1>14. CASE Announce \/ Vanish
  <2>1. PICK m \in Items : m.type # "note" /\ inbound' = Append(inbound, m)
    <3>1. Item("fatal", 0) \in Items /\ Item("eof", 0) \in Items
      BY DEF Item, Items
    <3>2. Item("fatal", 0).type # "note" /\ Item("eof", 0).type # "note"
      BY DEF Item
    <3> QED
      BY <1>14, <3>1, <3>2 DEF Announce, Vanish, Eof
  <2>2. UNCHANGED <<toServer, sendq, queue, handed, sent, noted, notes, lost>>
    BY <1>14 DEF Announce, Vanish, callVars, taskVars
  <2>3. Append(inbound, m) \in Seq(Items)
    BY <1>1, <2>1, AppendProperties DEF NotesTyped
  <2>4. NotesTyped' /\ Seen' = Seen
    BY <1>1, <2>1, <2>2, <2>3 DEF NotesTyped, Seen
  <2> QED
    BY <2>1, <2>2, <2>4, NotesKeep
<1> QED
  BY <1>2, <1>3, <1>4, <1>5, <1>6, <1>7, <1>8, <1>9, <1>10, <1>11, <1>12, <1>13, <1>14,
     StepIs DEF Moving, Server

LEMMA NotesGive ==
  ASSUME NotesInv
  PROVE  NotificationsKept
PROOF
<1>1. PICK s : s = handed \o queue
  OBVIOUS
<1>2. PICK c : c = {i \in DOMAIN inbound : inbound[i].type = "note"}
  OBVIOUS
<1>3. /\ s \in Seq(Nat) /\ inbound \in Seq(Items) /\ lost \in BOOLEAN /\ notes \in Nat
      /\ Rising(inbound, s, notes) /\ (lost = FALSE => Whole(inbound, s, notes))
  BY <1>1, ConcatProperties DEF NotesInv, NotesTyped, Seen
<1>4. DOMAIN s = 1..Len(s) /\ DOMAIN inbound = 1..Len(inbound)
  BY <1>3, LenProperties
<1>5. \A i, j \in DOMAIN s : i < j => s[i] < s[j]
  BY <1>3, <1>4 DEF Rising
<1>6. \A i, j \in c : i < j => inbound[i].n < inbound[j].n
  BY <1>2, <1>3, <1>4 DEF Rising
<1>7. ASSUME ~lost
      PROVE  /\ \A i \in DOMAIN s : s[i] = i
             /\ {inbound[i].n : i \in c} = (Len(s) + 1)..notes
  <2>1. Whole(inbound, s, notes)
    BY <1>3, <1>7
  <2>2. \A i \in DOMAIN s : s[i] = i
    BY <1>4, <2>1 DEF Whole
  <2>3. \A k \in (Len(s) + 1)..notes : k \in {inbound[i].n : i \in c}
    BY <1>2, <1>4, <2>1 DEF Whole
  <2>4. ASSUME NEW i \in c
        PROVE  inbound[i].n \in (Len(s) + 1)..notes
    <3>1. i \in 1..Len(inbound) /\ inbound[i].type = "note"
      BY <1>2, <1>4, <2>4
    <3>2. inbound[i].n \in 1..notes
      BY <1>3, <3>1 DEF Rising
    <3>3. Len(s) \in Nat
      BY <1>3, LenProperties
    <3>4. CASE Len(s) = 0
      BY <3>2, <3>4
    <3>5. CASE Len(s) # 0
      <4>1. Len(s) \in 1..Len(s)
        BY <3>3, <3>5
      <4>2. s[Len(s)] = Len(s)
        BY <2>1, <4>1 DEF Whole
      <4>3. s[Len(s)] < inbound[i].n
        BY <1>3, <3>1, <4>1 DEF Rising
      <4> QED
        BY <3>2, <3>3, <4>2, <4>3
    <3> QED
      BY <3>4, <3>5
  <2>5. {inbound[i].n : i \in c} = (Len(s) + 1)..notes
    BY <2>3, <2>4
  <2> QED
    BY <2>2, <2>5
<1> QED
  BY <1>1, <1>2, <1>5, <1>6, <1>7 DEF NotificationsKept

\* For any instance: notifications come out of the iterators once and in the order the
\* server sent them, whichever call read them off the socket, and none is missing unless
\* a write has failed (poll_block_on, Notifications).
THEOREM NotificationsCorrect == Spec => []NotificationsKept
PROOF
<1>1. Init => NotesInv
  BY NotesInit
<1>2. NotesInv /\ [Next]_vars => NotesInv'
  BY NotesStep
<1>3. NotesInv => NotificationsKept
  BY NotesGive
<1> QED
  BY <1>1, <1>2, <1>3, PTL DEF Spec

-----------------------------------------------------------------------------
(* Numbers without a gap.                                                  *)

LEMMA NumbersTail ==
  ASSUME NEW q \in Seq(Nat), q # <<>>, NEW a \in Int, Numbers(q, a)
  PROVE  Head(q) = (a - Len(q)) + 1 /\ Numbers(Tail(q), a)
PROOF
<1>1. PICK t : t = Tail(q)
  OBVIOUS
<1>2. t \in Seq(Nat) /\ Len(t) = Len(q) - 1 /\ Len(q) \in Nat \ {0} /\ Head(q) = q[1]
      /\ \A i \in 1..Len(t) : t[i] = q[i + 1]
  BY <1>1, TailOf
<1>3. 1 \in 1..Len(q) /\ \A i \in 1..Len(t) : i + 1 \in 1..Len(q)
  BY <1>2
<1>4. Len(t) <= a
  BY <1>2 DEF Numbers
<1>5. ASSUME NEW i \in 1..Len(t)
      PROVE  t[i] = (a - Len(t)) + i
  <2>1. q[i + 1] = (a - Len(q)) + (i + 1)
    BY <1>3 DEF Numbers
  <2> QED
    BY <1>2, <2>1
<1>6. Numbers(t, a)
  BY <1>4, <1>5 DEF Numbers
<1> QED
  BY <1>1, <1>2, <1>3, <1>6 DEF Numbers

LEMMA NumbersAppend ==
  ASSUME NEW q \in Seq(Nat), NEW a \in Nat, Numbers(q, a)
  PROVE  Numbers(Append(q, a + 1), a + 1)
PROOF
<1>1. PICK t : t = Append(q, a + 1)
  OBVIOUS
<1>2. Len(t) = Len(q) + 1 /\ Len(q) \in Nat /\ t[Len(q) + 1] = a + 1
      /\ \A i \in 1..Len(q) : t[i] = q[i]
  BY <1>1, AppendOf
<1>3. ASSUME NEW i \in 1..Len(t)
      PROVE  t[i] = ((a + 1) - Len(t)) + i
  <2>1. CASE i \in 1..Len(q)
    <3>1. q[i] = (a - Len(q)) + i
      BY <2>1 DEF Numbers
    <3> QED
      BY <1>2, <2>1, <3>1
  <2>2. CASE i = Len(q) + 1
    BY <1>2, <2>2
  <2> QED
    BY <1>2, <2>1, <2>2
<1>4. Numbers(t, a + 1)
  BY <1>2, <1>3 DEF Numbers
<1> QED
  BY <1>1, <1>4

LEMMA NumbersConcat ==
  ASSUME NEW w \in Seq(Nat), NEW q \in Seq(Nat), NEW a \in Nat,
         Numbers(w, a - Len(q)), Numbers(q, a)
  PROVE  Numbers(w \o q, a)
PROOF
<1>1. PICK t : t = w \o q
  OBVIOUS
<1>2. Len(t) = Len(w) + Len(q) /\ Len(w) \in Nat /\ Len(q) \in Nat
      /\ (\A i \in 1..Len(w) : t[i] = w[i]) /\ (\A i \in 1..Len(q) : t[Len(w) + i] = q[i])
  BY <1>1, ConcatOf
<1>3. ASSUME NEW i \in 1..Len(t)
      PROVE  t[i] = (a - Len(t)) + i
  <2>1. CASE i \in 1..Len(w)
    <3>1. w[i] = ((a - Len(q)) - Len(w)) + i
      BY <2>1 DEF Numbers
    <3> QED
      BY <1>2, <2>1, <3>1
  <2>2. CASE i > Len(w)
    <3>1. PICK k : k = i - Len(w)
      OBVIOUS
    <3>2. k \in 1..Len(q) /\ i = Len(w) + k
      BY <1>2, <1>3, <2>2, <3>1
    <3>3. q[k] = (a - Len(q)) + k
      BY <3>2 DEF Numbers
    <3>4. t[i] = q[k]
      BY <1>2, <3>2
    <3> QED
      BY <1>2, <3>2, <3>3, <3>4
  <2> QED
    BY <1>2, <2>1, <2>2
<1>4. Len(t) <= a
  BY <1>2 DEF Numbers
<1> QED
  BY <1>1, <1>3, <1>4 DEF Numbers

-----------------------------------------------------------------------------
(* What taking a message off the stream, or adding one, does to the parts. *)

LEMMA Shift ==
  ASSUME NEW q \in Seq(Items), q # <<>>, NEW t, t = Tail(q)
  PROVE  /\ t \in Seq(Items) /\ Len(q) \in Nat \ {0} /\ Len(t) = Len(q) - 1
         /\ Head(q) = q[1] /\ Head(q) \in Items
         /\ \A i \in 1..Len(t) : i + 1 \in 1..Len(q) /\ t[i] = q[i + 1]
         /\ \A i \in 1..Len(t) : IsPart(t, i) => IsPart(q, i + 1)
         /\ \A i, j \in 1..Len(t) : Adjacent(t, i, j) => Adjacent(q, i + 1, j + 1)
         /\ \A i \in 1..Len(t) : Last(t, i) => Last(q, i + 1)
         /\ \A i \in 1..Len(t) : First(t, i) =>
              IF Head(q).type = "part" THEN Adjacent(q, 1, i + 1) ELSE First(q, i + 1)
         /\ NoParts(t) /\ Head(q).type # "part" => NoParts(q)
         /\ NoParts(q) => NoParts(t)
         /\ Head(q).type = "part" => First(q, 1) /\ IsPart(q, 1)
         /\ NoParts(t) /\ Head(q).type = "part" => Last(q, 1)
PROOF
<1>1. t \in Seq(Items) /\ Len(t) = Len(q) - 1 /\ Len(q) \in Nat \ {0} /\ Head(q) = q[1]
      /\ Head(q) \in Items /\ \A i \in 1..Len(t) : t[i] = q[i + 1]
  BY TailOf
<1>2. \A i \in 1..Len(t) : i + 1 \in 1..Len(q)
  BY <1>1
<1>3. \A k \in 1..Len(q) : k = 1 \/ (k - 1 \in 1..Len(t) /\ (k - 1) + 1 = k)
  BY <1>1
<1>4. \A k \in 1..Len(q) : k = 1 \/ q[k] = t[k - 1]
  BY <1>1, <1>3
<1>5. \A i \in 1..Len(t) : IsPart(t, i) => IsPart(q, i + 1)
  BY <1>1, <1>2 DEF IsPart
<1>6. ASSUME NEW i \in 1..Len(t), NEW j \in 1..Len(t), Adjacent(t, i, j)
      PROVE  Adjacent(q, i + 1, j + 1)
  <2>1. IsPart(q, i + 1) /\ IsPart(q, j + 1) /\ i < j
    BY <1>5, <1>6 DEF Adjacent
  <2>2. ASSUME NEW k \in 1..Len(q), i + 1 < k, k < j + 1
        PROVE  q[k].type # "part"
    <3>1. PICK l : l = k - 1
      OBVIOUS
    <3>2. l \in 1..Len(t) /\ i < l /\ l < j /\ q[k] = t[l]
      BY <1>1, <1>3, <1>4, <2>2, <3>1
    <3> QED
      BY <1>6, <3>2 DEF Adjacent
  <2>3. i + 1 < j + 1
    BY <2>1
  <2> QED
    BY <2>1, <2>2, <2>3 DEF Adjacent
<1>7. ASSUME NEW i \in 1..Len(t), Last(t, i)
      PROVE  Last(q, i + 1)
  <2>1. IsPart(q, i + 1)
    BY <1>5, <1>7 DEF Last
  <2>2. ASSUME NEW k \in 1..Len(q), i + 1 < k
        PROVE  q[k].type # "part"
    <3>1. PICK l : l = k - 1
      OBVIOUS
    <3>2. l \in 1..Len(t) /\ i < l /\ q[k] = t[l]
      BY <1>1, <1>3, <1>4, <2>2, <3>1
    <3> QED
      BY <1>7, <3>2 DEF Last
  <2> QED
    BY <2>1, <2>2 DEF Last
<1>8. ASSUME NEW i \in 1..Len(t), First(t, i)
      PROVE  IF Head(q).type = "part" THEN Adjacent(q, 1, i + 1) ELSE First(q, i + 1)
  <2>1. IsPart(q, i + 1)
    BY <1>5, <1>8 DEF First
  <2>2. ASSUME NEW k \in 1..Len(q), 1 < k, k < i + 1
        PROVE  q[k].type # "part"
    <3>1. PICK l : l = k - 1
      OBVIOUS
    <3>2. l \in 1..Len(t) /\ l < i /\ q[k] = t[l]
      BY <1>1, <1>3, <1>4, <2>2, <3>1
    <3> QED
      BY <1>8, <3>2 DEF First
  <2>3. 1 \in 1..Len(q) /\ 1 < i + 1
    BY <1>1
  <2>4. CASE Head(q).type = "part"
    <3>1. IsPart(q, 1)
      BY <1>1, <2>3, <2>4 DEF IsPart
    <3> QED
      BY <2>1, <2>2, <2>3, <2>4, <3>1 DEF Adjacent
  <2>5. CASE Head(q).type # "part"
    <3>1. \A k \in 1..Len(q) : k < i + 1 => q[k].type # "part"
      <4>1. \A k \in 1..Len(q) : k = 1 \/ 1 < k
        BY <1>1
      <4> QED
        BY <1>1, <2>2, <2>5, <4>1
    <3> QED
      BY <2>1, <2>5, <3>1 DEF First
  <2> QED
    BY <2>4, <2>5
<1>9. NoParts(t) /\ Head(q).type # "part" => NoParts(q)
  BY <1>1, <1>3, <1>4 DEF NoParts
<1>10. NoParts(q) => NoParts(t)
  BY <1>1, <1>2 DEF NoParts
<1>11. Head(q).type = "part" => First(q, 1) /\ IsPart(q, 1)
  BY <1>1 DEF First, IsPart
<1>12. NoParts(t) /\ Head(q).type = "part" => Last(q, 1)
  <2>1. \A k \in 1..Len(q) : 1 < k => k # 1
    BY <1>1
  <2> QED
    BY <1>3, <1>4, <1>11, <2>1 DEF NoParts, Last
<1> QED
  BY <1>1, <1>2, <1>5, <1>6, <1>7, <1>8, <1>9, <1>10, <1>11, <1>12

\* Whatever is taken off, the rest follows, and ends, as before.
LEMMA TailChained ==
  ASSUME NEW q \in Seq(Items), q # <<>>, NEW a, NEW s, NEW n
  PROVE  /\ Chained(q) => Chained(Tail(q))
         /\ Below(q, a) => Below(Tail(q), a)
         /\ Lasts(q, s, n) => Lasts(Tail(q), s, n)
         /\ FatalLast(q) => FatalLast(Tail(q))
         /\ NoFatal(q) => NoFatal(Tail(q))
PROOF
<1>1. PICK t : t = Tail(q)
  OBVIOUS
<1>2. /\ t \in Seq(Items) /\ Len(q) \in Nat \ {0} /\ Len(t) = Len(q) - 1
      /\ \A i \in 1..Len(t) : i + 1 \in 1..Len(q) /\ t[i] = q[i + 1]
      /\ \A i \in 1..Len(t) : IsPart(t, i) => IsPart(q, i + 1)
      /\ \A i, j \in 1..Len(t) : Adjacent(t, i, j) => Adjacent(q, i + 1, j + 1)
      /\ \A i \in 1..Len(t) : Last(t, i) => Last(q, i + 1)
  BY <1>1, Shift
<1>3. Chained(q) => Chained(t)
  BY <1>2 DEF Chained
<1>4. Below(q, a) => Below(t, a)
  BY <1>2 DEF Below
<1>5. Lasts(q, s, n) => Lasts(t, s, n)
  BY <1>2 DEF Lasts
<1>6. FatalLast(q) => FatalLast(t)
  <2>1. ASSUME FatalLast(q), NEW i \in 1..Len(t), NEW j \in 1..Len(t),
               t[i].type = "fatal", t[j].type = "part"
        PROVE  j < i
    <3>1. j + 1 < i + 1
      BY <1>2, <2>1 DEF FatalLast
    <3> QED
      BY <1>2, <3>1
  <2> QED
    BY <2>1 DEF FatalLast
<1>7. NoFatal(q) => NoFatal(t)
  BY <1>2 DEF NoFatal
<1> QED
  BY <1>1, <1>3, <1>4, <1>5, <1>6, <1>7

LEMMA OtherOff ==
  ASSUME NEW q \in Seq(Items), q # <<>>, Head(q).type # "part", NEW r, NEW n
  PROVE  /\ Heads(q, r) => Heads(Tail(q), r)
         /\ Resumes(q, n) => Resumes(Tail(q), n)
         /\ NoParts(Tail(q)) <=> NoParts(q)
PROOF
<1>1. PICK t : t = Tail(q)
  OBVIOUS
<1>2. /\ \A i \in 1..Len(t) : i + 1 \in 1..Len(q) /\ t[i] = q[i + 1]
      /\ \A i \in 1..Len(t) : First(t, i) => First(q, i + 1)
      /\ NoParts(t) => NoParts(q)
      /\ NoParts(q) => NoParts(t)
  BY <1>1, Shift
<1> QED
  BY <1>1, <1>2 DEF Heads, Resumes

LEMMA PartOff ==
  ASSUME NEW q \in Seq(Items), q # <<>>, Head(q).type = "part", Chained(q),
         NEW r \in Int, Heads(q, r)
  PROVE  /\ Head(q).req = r + 1
         /\ \A n : Resumes(q, n) => Head(q).n = n + 1
         /\ \A a : Below(q, a) => Head(q).req <= a
         /\ Head(q).last = TRUE => Heads(Tail(q), r + 1) /\ Resumes(Tail(q), 0)
         /\ Head(q).last = FALSE => Heads(Tail(q), r) /\ Resumes(Tail(q), Head(q).n)
         /\ \A s, k : Lasts(q, s, k) /\ NoParts(Tail(q)) =>
              IF Head(q).last = TRUE THEN k = 0 /\ Head(q).req = s
              ELSE k = Head(q).n /\ Head(q).req = s + 1
PROOF
<1>1. PICK t : t = Tail(q)
  OBVIOUS
<1>2. PICK h : h = Head(q)
  OBVIOUS
<1>3. /\ Len(q) \in Nat \ {0} /\ h = q[1] /\ h \in Items
      /\ \A i \in 1..Len(t) : i + 1 \in 1..Len(q) /\ t[i] = q[i + 1]
      /\ \A i \in 1..Len(t) : First(t, i) => Adjacent(q, 1, i + 1)
      /\ First(q, 1) /\ IsPart(q, 1)
      /\ NoParts(t) => Last(q, 1)
  BY <1>1, <1>2, Shift
<1>4. 1 \in 1..Len(q)
  BY <1>3
<1>5. h.req = r + 1 /\ (\A n : Resumes(q, n) => h.n = n + 1) /\ (\A a : Below(q, a) => h.req <= a)
  BY <1>3, <1>4 DEF Heads, Resumes, Below
<1>6. \A i \in 1..Len(t) : First(t, i) => Follows(h, t[i])
  BY <1>3, <1>4 DEF Chained
<1>7. h.last = TRUE => Heads(t, r + 1) /\ Resumes(t, 0)
  <2>1. ASSUME h.last = TRUE, NEW i \in 1..Len(t), First(t, i)
        PROVE  t[i].req = (r + 1) + 1 /\ t[i].n = 0 + 1
    BY <1>5, <1>6, <2>1 DEF Follows
  <2> QED
    BY <2>1 DEF Heads, Resumes
<1>8. h.last = FALSE => Heads(t, r) /\ Resumes(t, h.n)
  <2>1. ASSUME h.last = FALSE, NEW i \in 1..Len(t), First(t, i)
        PROVE  t[i].req = r + 1 /\ t[i].n = h.n + 1
    BY <1>5, <1>6, <2>1 DEF Follows
  <2> QED
    BY <2>1 DEF Heads, Resumes
<1>9. \A s, k : Lasts(q, s, k) /\ NoParts(t) =>
        IF h.last = TRUE THEN k = 0 /\ h.req = s ELSE k = h.n /\ h.req = s + 1
  BY <1>3, <1>4 DEF Lasts
<1> QED
  BY <1>1, <1>2, <1>5, <1>7, <1>8, <1>9

LEMMA FatalOff ==
  ASSUME NEW q \in Seq(Items), q # <<>>, Head(q).type = "fatal", FatalLast(q)
  PROVE  NoParts(q) /\ NoParts(Tail(q))
PROOF
<1>1. Len(q) \in Nat \ {0} /\ Head(q) = q[1] /\ (NoParts(q) => NoParts(Tail(q)))
  BY Shift
<1>2. 1 \in 1..Len(q) /\ \A j \in 1..Len(q) : ~(j < 1)
  BY <1>1
<1>3. NoParts(q)
  BY <1>1, <1>2 DEF NoParts, FatalLast
<1> QED
  BY <1>1, <1>3

LEMMA OtherOn ==
  ASSUME NEW q \in Seq(Items), NEW m \in Items, m.type # "part", NEW r, NEW n, NEW a, NEW s, NEW k
  PROVE  /\ Chained(q) => Chained(Append(q, m))
         /\ Heads(q, r) => Heads(Append(q, m), r)
         /\ Resumes(q, n) => Resumes(Append(q, m), n)
         /\ Below(q, a) => Below(Append(q, m), a)
         /\ Lasts(q, s, k) => Lasts(Append(q, m), s, k)
         /\ FatalLast(q) => FatalLast(Append(q, m))
         /\ NoFatal(q) /\ m.type # "fatal" => NoFatal(Append(q, m))
         /\ NoParts(Append(q, m)) <=> NoParts(q)
PROOF
<1>1. PICK t : t = Append(q, m)
  OBVIOUS
<1>2. Len(t) = Len(q) + 1 /\ Len(q) \in Nat /\ t[Len(q) + 1] = m
      /\ \A i \in 1..Len(q) : t[i] = q[i]
  BY <1>1, AppendOf
<1>3. /\ \A i \in 1..Len(q) : i \in 1..Len(t)
      /\ \A i \in 1..Len(t) : i \in 1..Len(q) \/ i = Len(q) + 1
  BY <1>2
<1>4. \A i \in 1..Len(t) : IsPart(t, i) => i \in 1..Len(q) /\ IsPart(q, i) /\ t[i] = q[i]
  BY <1>2, <1>3 DEF IsPart
<1>5. \A i \in 1..Len(t) : First(t, i) => First(q, i)
  BY <1>2, <1>3, <1>4 DEF First
<1>6. \A i \in 1..Len(t) : Last(t, i) => Last(q, i)
  BY <1>2, <1>3, <1>4 DEF Last
<1>7. \A i, j \in 1..Len(t) : Adjacent(t, i, j) => Adjacent(q, i, j)
  BY <1>2, <1>3, <1>4 DEF Adjacent
<1>8. Chained(q) => Chained(t)
  <2>1. ASSUME Chained(q), NEW i \in 1..Len(t), NEW j \in 1..Len(t), Adjacent(t, i, j)
        PROVE  Follows(t[i], t[j])
    <3>1. IsPart(t, i) /\ IsPart(t, j) /\ Adjacent(q, i, j)
      BY <1>7, <2>1 DEF Adjacent
    <3>2. i \in 1..Len(q) /\ j \in 1..Len(q) /\ t[i] = q[i] /\ t[j] = q[j]
      BY <1>4, <3>1
    <3> QED
      BY <2>1, <3>1, <3>2 DEF Chained
  <2> QED
    BY <2>1 DEF Chained
<1>9. \A i \in 1..Len(t) : First(t, i) \/ Last(t, i) => i \in 1..Len(q) /\ t[i] = q[i]
  BY <1>4 DEF First, Last
<1>10. (Heads(q, r) => Heads(t, r)) /\ (Resumes(q, n) => Resumes(t, n))
  BY <1>5, <1>9 DEF Heads, Resumes
<1>11. (Below(q, a) => Below(t, a)) /\ (Lasts(q, s, k) => Lasts(t, s, k))
  BY <1>4, <1>6, <1>9 DEF Below, Lasts
<1>12. FatalLast(q) => FatalLast(t)
  <2>1. ASSUME FatalLast(q), NEW i \in 1..Len(t), NEW j \in 1..Len(t),
               t[i].type = "fatal", t[j].type = "part"
        PROVE  j < i
    <3>1. IsPart(t, j)
      BY <2>1 DEF IsPart
    <3>2. j \in 1..Len(q) /\ t[j] = q[j]
      BY <1>4, <3>1
    <3>3. CASE i \in 1..Len(q)
      BY <1>2, <2>1, <3>2, <3>3 DEF FatalLast
    <3>4. CASE i = Len(q) + 1
      BY <1>2, <3>2, <3>4
    <3> QED
      BY <1>3, <3>3, <3>4
  <2> QED
    BY <2>1 DEF FatalLast
<1>13. NoFatal(q) /\ m.type # "fatal" => NoFatal(t)
  BY <1>2, <1>3 DEF NoFatal
<1>14. NoParts(t) <=> NoParts(q)
  BY <1>2, <1>3 DEF NoParts
<1> QED
  BY <1>1, <1>8, <1>10, <1>11, <1>12, <1>13, <1>14

LEMMA PartOn ==
  ASSUME NEW q \in Seq(Items), NEW s \in Int, NEW n \in Nat, NEW l \in BOOLEAN,
         NEW m \in Items, m.type = "part", m.req = s + 1, m.n = n + 1, m.last = l,
         Chained(q), Lasts(q, s, n), NoFatal(q), NEW r, NEW k, NEW a
  PROVE  /\ Chained(Append(q, m))
         /\ Lasts(Append(q, m), IF l = TRUE THEN s + 1 ELSE s, IF l = TRUE THEN 0 ELSE n + 1)
         /\ NoFatal(Append(q, m)) /\ FatalLast(Append(q, m))
         /\ ~NoParts(Append(q, m))
         /\ Heads(q, r) /\ (NoParts(q) => s = r) => Heads(Append(q, m), r)
         /\ Resumes(q, k) /\ (NoParts(q) => n = k) => Resumes(Append(q, m), k)
         /\ Below(q, a) /\ s + 1 <= a => Below(Append(q, m), a)
PROOF
<1>1. PICK t : t = Append(q, m)
  OBVIOUS
<1>2. Len(t) = Len(q) + 1 /\ Len(q) \in Nat /\ t[Len(q) + 1] = m
      /\ \A i \in 1..Len(q) : t[i] = q[i]
  BY <1>1, AppendOf
<1>3. /\ \A i \in 1..Len(q) : i \in 1..Len(t) /\ i # Len(q) + 1 /\ i < Len(q) + 1
      /\ \A i \in 1..Len(t) : i \in 1..Len(q) \/ i = Len(q) + 1
      /\ Len(q) + 1 \in 1..Len(t)
  BY <1>2
<1>4. \A i \in 1..Len(q) : IsPart(t, i) => IsPart(q, i)
  BY <1>2 DEF IsPart
<1>5. IsPart(t, Len(q) + 1)
  BY <1>2, <1>3 DEF IsPart
<1>6. Chained(t)
  <2>1. ASSUME NEW i \in 1..Len(t), NEW j \in 1..Len(t), Adjacent(t, i, j)
        PROVE  Follows(t[i], t[j])
    <3>1. i \in 1..Len(q) /\ IsPart(q, i)
      <4>1. i < j /\ IsPart(t, i)
        BY <2>1 DEF Adjacent
      <4>2. i \in 1..Len(q)
        BY <1>2, <2>1, <4>1
      <4> QED
        BY <1>4, <4>1, <4>2
    <3>2. CASE j \in 1..Len(q)
      <4>1. Adjacent(q, i, j)
        BY <1>2, <1>3, <1>4, <2>1, <3>1, <3>2 DEF Adjacent
      <4> QED
        BY <1>2, <3>1, <3>2, <4>1 DEF Chained
    <3>3. CASE j = Len(q) + 1
      <4>1. Last(q, i)
        BY <1>2, <1>3, <2>1, <3>1, <3>3 DEF Adjacent, Last
      <4>2. IF q[i].last = TRUE THEN n = 0 /\ q[i].req = s ELSE n = q[i].n /\ q[i].req = s + 1
        BY <3>1, <4>1 DEF Lasts
      <4>3. t[i] = q[i] /\ t[j] = m
        BY <1>2, <3>1, <3>3
      <4> QED
        BY <4>2, <4>3 DEF Follows
    <3> QED
      BY <1>3, <3>2, <3>3
  <2> QED
    BY <2>1 DEF Chained
<1>7. Lasts(t, IF l = TRUE THEN s + 1 ELSE s, IF l = TRUE THEN 0 ELSE n + 1)
  <2>1. \A i \in 1..Len(t) : Last(t, i) => i = Len(q) + 1
    BY <1>2, <1>3 DEF Last
  <2> QED
    BY <1>2, <2>1 DEF Lasts
<1>8. NoFatal(t) /\ FatalLast(t)
  BY <1>2, <1>3 DEF NoFatal, FatalLast
<1>9. ~NoParts(t)
  BY <1>2, <1>3 DEF NoParts
<1>10. \A i \in 1..Len(t) : First(t, i) => \/ i \in 1..Len(q) /\ First(q, i) /\ t[i] = q[i]
                                           \/ NoParts(q) /\ t[i] = m
  <2>1. ASSUME NEW i \in 1..Len(t), First(t, i), i \in 1..Len(q)
        PROVE  First(q, i) /\ t[i] = q[i]
    BY <1>2, <1>3, <1>4, <2>1 DEF First
  <2>2. ASSUME NEW i \in 1..Len(t), First(t, i), i = Len(q) + 1
        PROVE  NoParts(q) /\ t[i] = m
    BY <1>2, <1>3, <2>2 DEF First, NoParts
  <2> QED
    BY <1>3, <2>1, <2>2
<1>11. Heads(q, r) /\ (NoParts(q) => s = r) => Heads(t, r)
  BY <1>10 DEF Heads
<1>12. Resumes(q, k) /\ (NoParts(q) => n = k) => Resumes(t, k)
  BY <1>10 DEF Resumes
<1>13. Below(q, a) /\ s + 1 <= a => Below(t, a)
  BY <1>2, <1>3, <1>4 DEF Below
<1> QED
  BY <1>1, <1>6, <1>7, <1>8, <1>9, <1>11, <1>12, <1>13

-----------------------------------------------------------------------------
(* The line of requests and the stream of parts, step by step.             *)

LineVars == <<inbound, waiting, sendq, toServer, sent, srv, noted>>
Line == waiting \in Seq(Nat) /\ Numbering /\ Stream /\ Serving

\* A message other than a part is taken off the stream, or none.
OtherTaken ==
  \/ inbound' = inbound
  \/ inbound # <<>> /\ inbound' = Tail(inbound) /\ Head(inbound).type # "part"
WrittenOrNot == Written \/ UNCHANGED <<waiting, sendq, toServer>>

LEMMA LineNumbers ==
  ASSUME NotesTyped, Line
  PROVE  /\ Len(sendq) \in Nat /\ Len(waiting) \in Nat /\ Len(toServer) \in Nat
         /\ Put \in Nat /\ Received \in Nat /\ Served \in Int
         /\ Put = sent - Len(sendq) /\ Received = Put - Len(waiting) /\ Served = Put - Len(toServer)
         /\ waiting # <<>> => Head(waiting) = Received + 1 /\ Len(waiting) # 0
         /\ srv = "up" /\ toServer # <<>> => Head(toServer) = Served + 1 /\ Len(toServer) # 0
PROOF
<1>1. Len(sendq) \in Nat /\ Len(waiting) \in Nat /\ Len(toServer) \in Nat /\ sent \in Nat
  BY LenProperties DEF NotesTyped, Line
<1>2. Len(sendq) <= sent /\ Numbers(waiting, Put) /\ Len(waiting) <= Put
  BY DEF Line, Numbering, Numbers
<1>3. Put \in Nat /\ Received \in Nat /\ Served \in Int
  BY <1>1, <1>2 DEF Put, Received, Served
<1>4. waiting # <<>> => Head(waiting) = Received + 1 /\ Len(waiting) # 0
  <2>1. ASSUME waiting # <<>>
        PROVE  Head(waiting) = (Put - Len(waiting)) + 1
    BY <1>2, <1>3, <2>1, NumbersTail DEF Line
  <2>2. waiting # <<>> => Len(waiting) # 0
    BY EmptySeq DEF Line
  <2> QED
    BY <2>1, <2>2 DEF Received
<1>5. srv = "up" /\ toServer # <<>> => Head(toServer) = Served + 1 /\ Len(toServer) # 0
  <2>1. ASSUME srv = "up", toServer # <<>>
        PROVE  Head(toServer) = (Put - Len(toServer)) + 1
    <3>1. Numbers(toServer, Put) /\ toServer \in Seq(Nat)
      BY <2>1 DEF Line, Numbering, NotesTyped
    <3> QED
      BY <1>3, <2>1, <3>1, NumbersTail
  <2>2. toServer # <<>> => Len(toServer) # 0
    BY EmptySeq DEF NotesTyped
  <2> QED
    BY <2>1, <2>2 DEF Served
<1> QED
  BY <1>1, <1>3, <1>4, <1>5 DEF Put, Received, Served

\* Requests are written: they move along the line, and nothing else changes.
LEMMA WrittenOn ==
  ASSUME NotesTyped, Line, WrittenOrNot, sent' = sent, srv' = srv
  PROVE  /\ waiting' \in Seq(Nat) /\ Numbering'
         /\ Put' \in Nat /\ Put <= Put' /\ Received' = Received
         /\ srv = "up" => Served' = Served /\ (toServer' = <<>> => toServer = <<>>)
         /\ sendq' # <<>> => sendq' = sendq
         /\ waiting' = waiting \/ (sendq' = <<>> /\ waiting' = waiting \o sendq)
PROOF
<1>1. CASE UNCHANGED <<waiting, sendq, toServer>>
  <2>1. Put' = Put /\ Received' = Received /\ Served' = Served
    BY <1>1 DEF Put, Received, Served
  <2>2. Numbering'
    BY <1>1, <2>1 DEF Line, Numbering
  <2> QED
    BY <1>1, <2>1, <2>2, LineNumbers DEF Line
<1>2. CASE Written
  <2>1. /\ waiting' = waiting \o sendq /\ sendq' = <<>>
        /\ srv # "gone" => toServer' = toServer \o sendq
    BY <1>2 DEF Written
  <2>2. /\ sendq \in Seq(Nat) /\ waiting \in Seq(Nat) /\ toServer \in Seq(Nat) /\ sent \in Nat
        /\ Numbers(sendq, sent) /\ Numbers(waiting, sent - Len(sendq))
        /\ srv = "up" => Numbers(toServer, sent - Len(sendq))
    BY DEF NotesTyped, Line, Numbering, Put
  <2>3. /\ waiting \o sendq \in Seq(Nat) /\ Len(waiting \o sendq) = Len(waiting) + Len(sendq)
        /\ toServer \o sendq \in Seq(Nat) /\ Len(toServer \o sendq) = Len(toServer) + Len(sendq)
    BY <2>2, ConcatOf
  <2>4. /\ Numbers(waiting \o sendq, sent)
        /\ srv = "up" => Numbers(toServer \o sendq, sent)
    BY <2>2, NumbersConcat
  <2>5. Len(sendq') = 0 /\ Put' = sent
    BY <2>1, <2>2 DEF Put
  <2>6. Numbering'
    <3>1. Numbers(sendq', sent')
      BY <2>2, <2>5 DEF Numbers
    <3> QED
      BY <2>1, <2>4, <2>5, <3>1 DEF Numbering
  <2>7. Received' = Received /\ Put <= Put' /\ Put' \in Nat
    <3>1. Received' = sent - (Len(waiting) + Len(sendq))
      BY <2>1, <2>3, <2>5 DEF Received
    <3> QED
      BY <2>2, <2>5, <3>1, LineNumbers
  <2>8. srv = "up" => Served' = Served /\ (toServer' = <<>> => toServer = <<>>)
    <3>1. ASSUME srv = "up"
          PROVE  Len(toServer') = Len(toServer) + Len(sendq)
      BY <2>1, <2>3, <3>1
    <3>2. srv = "up" => Served' = Served
      <4>1. srv = "up" => Served' = sent - (Len(toServer) + Len(sendq))
        BY <2>5, <3>1 DEF Served
      <4> QED
        BY <2>2, <4>1, LineNumbers
    <3>3. srv = "up" /\ toServer' = <<>> => Len(toServer) = 0
      <4>1. Len(<<>>) = 0
        OBVIOUS
      <4> QED
        BY <3>1, <4>1, LineNumbers
    <3>4. Len(toServer) = 0 => toServer = <<>>
      BY <2>2, EmptySeq
    <3> QED
      BY <3>2, <3>3, <3>4
  <2> QED
    BY <2>1, <2>3, <2>6, <2>7, <2>8
<1> QED
  BY <1>1, <1>2 DEF WrittenOrNot

LEMMA BelowMore ==
  ASSUME NEW q \in Seq(Items), NEW a \in Int, NEW b \in Int, a <= b, Below(q, a)
  PROVE  Below(q, b)
PROOF
<1>1. ASSUME NEW i \in 1..Len(q), IsPart(q, i)
      PROVE  q[i].req <= b
  <2>1. q[i].req <= a /\ q[i] \in Items
    BY <1>1, ElementOfSeq DEF Below
  <2>2. q[i].req \in Nat
    BY <2>1 DEF Items
  <2> QED
    BY <2>1, <2>2
<1> QED
  BY <1>1 DEF Below

LEMMA LineOff ==
  ASSUME NotesTyped, Line, OtherTaken, WrittenOrNot, sent' = sent, srv' = srv, noted' = noted
  PROVE  Line'
PROOF
<1>1. /\ waiting' \in Seq(Nat) /\ Numbering'
      /\ Put' \in Nat /\ Put <= Put' /\ Received' = Received
      /\ srv = "up" => Served' = Served /\ (toServer' = <<>> => toServer = <<>>)
  BY WrittenOn
<1>2. inbound \in Seq(Items) /\ Put \in Nat
  BY LineNumbers DEF NotesTyped
<1>3. /\ Chained(inbound) /\ Heads(inbound, Received) /\ Below(inbound, Put)
      /\ FatalLast(inbound)
  BY DEF Line, Stream
<1>4. srv = "up" =>
        /\ Lasts(inbound, Served, noted) /\ (NoParts(inbound) => Served = Received)
        /\ (toServer = <<>> => noted = 0) /\ NoFatal(inbound)
  BY DEF Line, Serving
<1>5. /\ Chained(inbound') /\ Heads(inbound', Received) /\ Below(inbound', Put)
      /\ FatalLast(inbound') /\ (NoParts(inbound') <=> NoParts(inbound))
      /\ Lasts(inbound, Served, noted) => Lasts(inbound', Served, noted)
      /\ NoFatal(inbound) => NoFatal(inbound')
  <2>1. CASE inbound' = inbound
    BY <1>3, <2>1
  <2>2. CASE inbound # <<>> /\ inbound' = Tail(inbound) /\ Head(inbound).type # "part"
    <3>1. /\ Chained(Tail(inbound)) /\ Below(Tail(inbound), Put) /\ FatalLast(Tail(inbound))
          /\ Lasts(inbound, Served, noted) => Lasts(Tail(inbound), Served, noted)
          /\ NoFatal(inbound) => NoFatal(Tail(inbound))
      BY <1>2, <1>3, <2>2, TailChained
    <3>2. Heads(Tail(inbound), Received) /\ (NoParts(Tail(inbound)) <=> NoParts(inbound))
      BY <1>2, <1>3, <2>2, OtherOff
    <3> QED
      BY <2>2, <3>1, <3>2
  <2> QED
    BY <2>1, <2>2 DEF OtherTaken
<1>6. Below(inbound', Put')
  <2>1. inbound' \in Seq(Items)
    BY <1>2, TailOf DEF OtherTaken
  <2> QED
    BY <1>1, <1>2, <1>5, <2>1, BelowMore
<1>7. Stream'
  BY <1>1, <1>5, <1>6 DEF Stream
<1>8. Serving'
  BY <1>1, <1>4, <1>5 DEF Serving
<1> QED
  BY <1>1, <1>7, <1>8 DEF Line

\* The head of the stream is a part: it belongs to the request at the head of the line.
PartRead ==
  /\ inbound # <<>> /\ inbound' = Tail(inbound) /\ Head(inbound).type = "part"
  /\ waiting' = IF Head(inbound).last THEN Tail(waiting) ELSE waiting
  /\ UNCHANGED <<sendq, toServer, sent, srv, noted>>

LEMMA LinePart ==
  ASSUME NotesTyped, Line, PartRead
  PROVE  /\ Line' /\ waiting # <<>> /\ Head(inbound) \in Items
         /\ Head(inbound).req = Received + 1 /\ Put' = Put
         /\ \A n : Resumes(inbound, n) => Head(inbound).n = n + 1
         /\ Head(inbound).last = TRUE =>
              /\ Received' = Received + 1 /\ Resumes(inbound', 0)
              /\ srv = "up" /\ NoParts(inbound') => noted = 0
         /\ Head(inbound).last = FALSE =>
              /\ waiting' = waiting /\ Received' = Received /\ Resumes(inbound', Head(inbound).n)
              /\ srv = "up" /\ NoParts(inbound') => noted = Head(inbound).n
PROOF
<1>1. PICK h : h = Head(inbound)
  OBVIOUS
<1>2. /\ inbound \in Seq(Items) /\ inbound # <<>> /\ inbound' = Tail(inbound) /\ h.type = "part"
      /\ waiting \in Seq(Nat)
      /\ UNCHANGED <<sendq, toServer, sent, srv, noted>>
  BY <1>1 DEF PartRead, NotesTyped, Line
<1>3. h \in Items /\ h.last \in BOOLEAN
  <2>1. h \in Items
    BY <1>1, <1>2, TailOf
  <2> QED
    BY <2>1 DEF Items
<1>4. /\ Chained(inbound) /\ Heads(inbound, Received) /\ Below(inbound, Put)
      /\ FatalLast(inbound)
  BY DEF Line, Stream
<1>5. srv = "up" =>
        /\ Lasts(inbound, Served, noted) /\ (NoParts(inbound) => Served = Received)
        /\ (toServer = <<>> => noted = 0) /\ NoFatal(inbound)
  BY DEF Line, Serving
<1>6. Received \in Nat /\ Put \in Nat /\ Served \in Int /\ Received = Put - Len(waiting)
      /\ Len(waiting) \in Nat
  BY LineNumbers
<1>7. /\ h.req = Received + 1 /\ h.req <= Put
      /\ \A n : Resumes(inbound, n) => h.n = n + 1
      /\ h.last = TRUE => Heads(inbound', Received + 1) /\ Resumes(inbound', 0)
      /\ h.last = FALSE => Heads(inbound', Received) /\ Resumes(inbound', h.n)
      /\ Lasts(inbound, Served, noted) /\ NoParts(inbound') =>
           IF h.last = TRUE THEN noted = 0 /\ h.req = Served
           ELSE noted = h.n /\ h.req = Served + 1
  <2>1. PICK r \in Int : r = Received
    BY <1>6
  <2>2. /\ inbound \in Seq(Items) /\ inbound # <<>> /\ Head(inbound).type = "part"
        /\ Chained(inbound) /\ Heads(inbound, r)
    BY <1>1, <1>2, <1>4, <2>1
  <2>3. /\ h.req = r + 1
        /\ \A n : Resumes(inbound, n) => h.n = n + 1
        /\ \A a : Below(inbound, a) => h.req <= a
        /\ h.last = TRUE => Heads(Tail(inbound), r + 1) /\ Resumes(Tail(inbound), 0)
        /\ h.last = FALSE => Heads(Tail(inbound), r) /\ Resumes(Tail(inbound), h.n)
        /\ \A s, k : Lasts(inbound, s, k) /\ NoParts(Tail(inbound)) =>
             IF h.last = TRUE THEN k = 0 /\ h.req = s ELSE k = h.n /\ h.req = s + 1
    BY <1>1, <2>2, PartOff
  <2> QED
    BY <1>2, <1>4, <2>1, <2>3
<1>8. /\ Chained(inbound') /\ Below(inbound', Put) /\ FatalLast(inbound')
      /\ Lasts(inbound, Served, noted) => Lasts(inbound', Served, noted)
      /\ NoFatal(inbound) => NoFatal(inbound')
  BY <1>2, <1>4, TailChained
<1>9. waiting # <<>>
  <2>1. Len(waiting) # 0
    BY <1>6, <1>7
  <2>2. Len(<<>>) = 0
    OBVIOUS
  <2> QED
    BY <2>1, <2>2
<1>10. Put' = Put /\ Served' = Served
  BY <1>2 DEF Put, Served
<1>11. h.last = FALSE => waiting' = waiting /\ Received' = Received
  BY <1>1, <1>10 DEF PartRead, Received
<1>12. ASSUME h.last = TRUE
       PROVE  /\ waiting' \in Seq(Nat) /\ Received' = Received + 1 /\ Numbers(waiting', Put)
  <2>1. waiting' = Tail(waiting)
    BY <1>1, <1>12 DEF PartRead
  <2>2. Tail(waiting) \in Seq(Nat) /\ Len(Tail(waiting)) = Len(waiting) - 1
    BY <1>2, <1>9, TailOf
  <2>3. Numbers(waiting, Put)
    BY DEF Line, Numbering
  <2>4. Numbers(Tail(waiting), Put)
    BY <1>2, <1>6, <1>9, <2>3, NumbersTail
  <2>5. Received' = Put - Len(Tail(waiting))
    BY <1>10, <2>1 DEF Received
  <2> QED
    BY <1>6, <2>1, <2>2, <2>4, <2>5
<1>13. waiting' \in Seq(Nat) /\ Numbering'
  <2>1. Numbers(waiting, Put) /\ Numbers(sendq, sent) /\ (srv = "up" => Numbers(toServer, Put))
    BY DEF Line, Numbering
  <2>2. waiting' \in Seq(Nat) /\ Numbers(waiting', Put)
    BY <1>2, <1>3, <1>11, <1>12, <2>1
  <2> QED
    BY <1>2, <1>10, <2>1, <2>2 DEF Numbering
<1>14. Stream'
  <2>1. Heads(inbound', Received')
    BY <1>3, <1>7, <1>11, <1>12
  <2> QED
    BY <1>8, <1>10, <2>1 DEF Stream
<1>15. srv = "up" /\ NoParts(inbound') => Served = Received'
  <2>1. ASSUME srv = "up", NoParts(inbound')
        PROVE  Served = Received'
    <3>1. IF h.last = TRUE THEN h.req = Served ELSE h.req = Served + 1
      BY <1>5, <1>7, <2>1
    <3>2. CASE h.last = TRUE
      BY <1>7, <1>12, <3>1, <3>2
    <3>3. CASE h.last = FALSE
      BY <1>6, <1>7, <1>11, <3>1, <3>3
    <3> QED
      BY <1>3, <3>2, <3>3
  <2> QED
    BY <2>1
<1>16. Serving'
  BY <1>2, <1>5, <1>8, <1>10, <1>15 DEF Serving
<1>17. Line'
  BY <1>13, <1>14, <1>16 DEF Line
<1>18. /\ h.last = TRUE /\ srv = "up" /\ NoParts(inbound') => noted = 0
       /\ h.last = FALSE /\ srv = "up" /\ NoParts(inbound') => noted = h.n
  BY <1>5, <1>7
<1> QED
  BY <1>1, <1>3, <1>7, <1>9, <1>10, <1>11, <1>12, <1>17, <1>18

\* The server adds a message of another kind, or stops.
OtherSent ==
  /\ \/ inbound' = inbound
     \/ \E m \in Items : /\ m.type # "part" /\ inbound' = Append(inbound, m)
                         /\ m.type = "fatal" => srv' # "up"
  /\ srv' = "up" => srv = "up"
  /\ UNCHANGED <<waiting, sendq, toServer, sent, noted>>

LEMMA LineOn ==
  ASSUME NotesTyped, Line, OtherSent
  PROVE  Line'
PROOF
<1>1. inbound \in Seq(Items) /\ waiting \in Seq(Nat)
  BY DEF NotesTyped, Line
<1>2. /\ Chained(inbound) /\ Heads(inbound, Received) /\ Below(inbound, Put)
      /\ FatalLast(inbound)
  BY DEF Line, Stream
<1>3. srv = "up" =>
        /\ Lasts(inbound, Served, noted) /\ (NoParts(inbound) => Served = Received)
        /\ (toServer = <<>> => noted = 0) /\ NoFatal(inbound)
  BY DEF Line, Serving
<1>4. /\ UNCHANGED <<waiting, sendq, toServer, sent, noted>> /\ (srv' = "up" => srv = "up")
      /\ Put' = Put /\ Received' = Received /\ Served' = Served
  BY DEF OtherSent, Put, Received, Served
<1>5. /\ Chained(inbound') /\ Heads(inbound', Received) /\ Below(inbound', Put)
      /\ FatalLast(inbound') /\ (NoParts(inbound') <=> NoParts(inbound))
      /\ Lasts(inbound, Served, noted) => Lasts(inbound', Served, noted)
      /\ NoFatal(inbound) /\ srv' = "up" => NoFatal(inbound')
  <2>1. CASE inbound' = inbound
    BY <1>2, <2>1
  <2>2. CASE inbound' # inbound
    <3>1. PICK m \in Items : /\ m.type # "part" /\ inbound' = Append(inbound, m)
                             /\ m.type = "fatal" => srv' # "up"
      BY <2>2 DEF OtherSent
    <3>2. /\ Chained(Append(inbound, m)) /\ Heads(Append(inbound, m), Received)
          /\ Below(Append(inbound, m), Put) /\ FatalLast(Append(inbound, m))
          /\ Lasts(inbound, Served, noted) => Lasts(Append(inbound, m), Served, noted)
          /\ NoFatal(inbound) /\ m.type # "fatal" => NoFatal(Append(inbound, m))
          /\ NoParts(Append(inbound, m)) <=> NoParts(inbound)
      BY <1>1, <1>2, <3>1, OtherOn
    <3> QED
      BY <3>1, <3>2
  <2> QED
    BY <2>1, <2>2
<1>6. Numbering'
  BY <1>4 DEF Line, Numbering
<1>7. Stream' /\ Serving'
  BY <1>3, <1>4, <1>5 DEF Stream, Serving
<1> QED
  BY <1>1, <1>4, <1>6, <1>7 DEF Line

LEMMA LineSend ==
  ASSUME NotesTyped, Line, Send
  PROVE  Line' /\ Received' = Received /\ Put' = Put
PROOF
<1>1. /\ sent' = sent + 1 /\ sendq' = Append(sendq, sent + 1)
      /\ UNCHANGED <<inbound, waiting, toServer, srv, noted>>
  BY DEF Send, callVars, serverVars
<1>2. sendq \in Seq(Nat) /\ sent \in Nat /\ waiting \in Seq(Nat)
  BY DEF NotesTyped, Line
<1>3. Len(sendq') = Len(sendq) + 1 /\ Len(sendq) \in Nat
  BY <1>1, <1>2, AppendOf
<1>4. Put' = Put
  BY <1>1, <1>2, <1>3 DEF Put
<1>5. Received' = Received /\ Served' = Served
  BY <1>1, <1>4 DEF Received, Served
<1>6. Numbering'
  <2>1. Numbers(sendq, sent)
    BY DEF Line, Numbering
  <2>2. Numbers(Append(sendq, sent + 1), sent + 1)
    BY <1>2, <2>1, NumbersAppend
  <2> QED
    BY <1>1, <1>4, <2>2 DEF Line, Numbering
<1>7. Stream' /\ Serving'
  BY <1>1, <1>4, <1>5 DEF Line, Stream, Serving
<1> QED
  BY <1>1, <1>2, <1>4, <1>5, <1>6, <1>7 DEF Line

LEMMA LineAnswer ==
  ASSUME NotesTyped, Line, Answer
  PROVE  /\ Line' /\ srv = "up" /\ Received' = Received /\ Put' = Put /\ ~NoParts(inbound')
         /\ \A k : Resumes(inbound, k) /\ (NoParts(inbound) => noted = k) => Resumes(inbound', k)
PROOF
<1>1. PICK l \in BOOLEAN :
           /\ inbound' = Append(inbound, Part(Head(toServer), noted + 1, l))
           /\ noted' = IF l THEN 0 ELSE noted + 1
           /\ toServer' = IF l THEN Tail(toServer) ELSE toServer
  BY DEF Answer
<1>2. srv = "up" /\ toServer # <<>> /\ UNCHANGED <<waiting, sendq, sent, srv>>
  BY DEF Answer, callVars, taskVars
<1>3. /\ inbound \in Seq(Items) /\ waiting \in Seq(Nat) /\ toServer \in Seq(Nat) /\ noted \in Nat
  BY DEF NotesTyped, Line
<1>4. /\ Head(toServer) = Served + 1 /\ Put \in Nat /\ Served \in Int /\ Served = Put - Len(toServer)
      /\ Len(toServer) \in Nat /\ Len(toServer) # 0
  BY <1>2, LineNumbers
<1>5. Tail(toServer) \in Seq(Nat) /\ Len(Tail(toServer)) = Len(toServer) - 1 /\ Head(toServer) \in Nat
  BY <1>2, <1>3, TailOf
<1>6. PICK m : m = Part(Head(toServer), noted + 1, l)
  OBVIOUS
<1>7. /\ m \in Items /\ m.type = "part" /\ m.req = Served + 1 /\ m.n = noted + 1 /\ m.last = l
      /\ inbound' = Append(inbound, m)
  BY <1>1, <1>3, <1>4, <1>5, <1>6 DEF Part, Items
<1>8. /\ Chained(inbound) /\ Heads(inbound, Received) /\ Below(inbound, Put)
      /\ Lasts(inbound, Served, noted) /\ (NoParts(inbound) => Served = Received)
      /\ NoFatal(inbound) /\ Numbers(toServer, Put)
  BY <1>2 DEF Line, Stream, Serving, Numbering
<1>9. PICK q : q = inbound'
  OBVIOUS
<1>10. Served + 1 <= Put
  BY <1>4
<1>11. /\ Chained(q)
       /\ Lasts(q, IF l = TRUE THEN Served + 1 ELSE Served, IF l = TRUE THEN 0 ELSE noted + 1)
       /\ NoFatal(q) /\ FatalLast(q) /\ ~NoParts(q) /\ Heads(q, Received) /\ Below(q, Put)
       /\ \A k : Resumes(inbound, k) /\ (NoParts(inbound) => noted = k) => Resumes(q, k)
  <2>1. ASSUME NEW k, Resumes(inbound, k), NoParts(inbound) => noted = k
        PROVE  Resumes(q, k)
    <3>1. Resumes(Append(inbound, m), k)
      BY <1>3, <1>4, <1>7, <1>8, <2>1, PartOn
    <3> QED
      BY <1>7, <1>9, <3>1
  <2>2. /\ Chained(q)
        /\ Lasts(q, IF l = TRUE THEN Served + 1 ELSE Served, IF l = TRUE THEN 0 ELSE noted + 1)
        /\ NoFatal(q) /\ FatalLast(q) /\ ~NoParts(q)
    BY <1>3, <1>4, <1>7, <1>8, <1>9, PartOn
  <2>3. Heads(q, Received)
    BY <1>3, <1>4, <1>7, <1>8, <1>9, PartOn
  <2>4. Below(q, Put)
    BY <1>3, <1>4, <1>7, <1>8, <1>9, <1>10, PartOn
  <2> QED
    BY <2>1, <2>2, <2>3, <2>4
<1>12. Put' = Put /\ Received' = Received
  BY <1>2 DEF Put, Received
<1>13. /\ Served' = IF l = TRUE THEN Served + 1 ELSE Served
       /\ noted' = IF l = TRUE THEN 0 ELSE noted + 1
       /\ Numbers(toServer', Put)
       /\ toServer' = <<>> => l = TRUE
  <2>1. CASE l = TRUE
    <3>1. toServer' = Tail(toServer) /\ noted' = 0
      BY <1>1, <2>1
    <3>2. Served' = Put - Len(Tail(toServer))
      BY <1>12, <3>1 DEF Served
    <3>3. Numbers(Tail(toServer), Put)
      BY <1>2, <1>3, <1>4, <1>8, NumbersTail
    <3> QED
      BY <1>4, <1>5, <2>1, <3>1, <3>2, <3>3
  <2>2. CASE l = FALSE
    <3>1. toServer' = toServer /\ noted' = noted + 1
      BY <1>1, <2>2
    <3>2. Served' = Served
      BY <1>12, <3>1 DEF Served
    <3> QED
      BY <1>2, <1>8, <2>2, <3>1, <3>2
  <2> QED
    BY <2>1, <2>2
<1>14. Numbering'
  BY <1>2, <1>12, <1>13 DEF Line, Numbering
<1>15. Stream'
  BY <1>9, <1>11, <1>12 DEF Stream
<1>16. Serving'
  BY <1>9, <1>11, <1>13 DEF Serving
<1> QED
  BY <1>2, <1>3, <1>9, <1>11, <1>12, <1>14, <1>15, <1>16 DEF Line

\* What the steps do to the line.
Away == OtherTaken /\ WrittenOrNot /\ UNCHANGED <<sent, srv, noted>>

LEMMA ReadPartIs ==
  ASSUME NotesTyped, ReadPart
  PROVE  \/ PartRead
         \/ /\ Away /\ inbound # <<>> /\ inbound' = Tail(inbound) /\ Head(inbound).type = "fatal"
            /\ UNCHANGED <<waiting, sendq, toServer>>
PROOF
<1>1. /\ inbound # <<>> /\ inbound' = Tail(inbound)
      /\ Head(inbound).type = "part" \/ Head(inbound).type = "fatal"
      /\ waiting' = IF Head(inbound).last THEN Tail(waiting) ELSE waiting
      /\ UNCHANGED <<sendq, toServer, sent, srv, noted>>
  BY DEF ReadPart, AtPart, callVars
<1>2. Head(inbound) \in Items
  BY <1>1, TailOf DEF NotesTyped
<1>3. CASE Head(inbound).type = "part"
  BY <1>1, <1>3 DEF PartRead
<1>4. CASE Head(inbound).type = "fatal"
  <2>1. Head(inbound).last = FALSE
    BY <1>2, <1>4 DEF Items
  <2> QED
    BY <1>1, <1>4, <2>1 DEF Away, OtherTaken, WrittenOrNot
<1> QED
  BY <1>1, <1>3, <1>4

LEMMA OtherwiseIs ==
  ASSUME NotesTyped, [Next]_vars, ~ReadPart, ~Send
  PROVE  Away \/ OtherSent \/ Answer
PROOF
<1>1. CASE UNCHANGED vars \/ Aside
  <2>1. UNCHANGED LineVars
    BY <1>1, AsideLeaves DEF vars, callVars, taskVars, serverVars, NoteVars, LineVars
  <2> QED
    BY <2>1 DEF LineVars, Away, OtherTaken, WrittenOrNot
<1>2. ASSUME NEW o \in Iterators, NextBuffered(o)
      PROVE  Away
  BY <1>2 DEF NextBuffered, taskVars, serverVars, Away, OtherTaken, WrittenOrNot
<1>3. CASE Notified
  BY <1>3 DEF Notified, taskVars, serverVars, Away, OtherTaken, WrittenOrNot
<1>4. CASE ReadNote
  BY <1>4 DEF ReadNote, AtNote, Away, OtherTaken, WrittenOrNot
<1>5. CASE WriteFails
  <2>1. inbound' = inbound \/ (AtNote /\ inbound' = Tail(inbound))
    BY <1>5 DEF WriteFails
  <2>2. UNCHANGED <<sendq, waiting, toServer, sent, srv, noted>>
    BY <1>5 DEF WriteFails
  <2> QED
    BY <2>1, <2>2 DEF AtNote, Away, OtherTaken, WrittenOrNot
<1>6. CASE ReadFatal
  BY <1>6 DEF ReadFatal, Away, OtherTaken, WrittenOrNot
<1>7. CASE ReadPending
  BY <1>7 DEF ReadPending, Away, OtherTaken, WrittenOrNot
<1>8. CASE Notify
  <2>1. Item("note", notes + 1) \in Items /\ Item("note", notes + 1).type = "note"
    BY DEF Item, Items, NotesTyped
  <2> QED
    BY <1>8, <2>1 DEF Notify, callVars, taskVars, OtherSent
<1>9. CASE Hang
  BY <1>9 DEF Hang, callVars, taskVars, OtherSent
<1>10. CASE Announce
  <2>1. Item("fatal", 0) \in Items /\ Item("fatal", 0).type = "fatal"
    BY DEF Item, Items
  <2> QED
    BY <1>10, <2>1 DEF Announce, callVars, taskVars, OtherSent
<1>11. CASE Vanish
  <2>1. Item("eof", 0) \in Items /\ Item("eof", 0).type = "eof"
    BY DEF Item, Items
  <2> QED
    BY <1>11, <2>1 DEF Vanish, Eof, callVars, taskVars, OtherSent
<1> QED
  BY <1>1, <1>2, <1>3, <1>4, <1>5, <1>6, <1>7, <1>8, <1>9, <1>10, <1>11, StepIs DEF Moving, Server

LEMMA LineStep ==
  ASSUME NotesTyped, Line, [Next]_vars
  PROVE  Line'
PROOF
<1>1. CASE ReadPart
  <2>1. PartRead \/ Away
    BY <1>1, ReadPartIs
  <2> QED
    BY <2>1, LinePart, LineOff DEF Away
<1>2. CASE Send
  BY <1>2, LineSend
<1>3. CASE ~ReadPart /\ ~Send
  <2>1. Away \/ OtherSent \/ Answer
    BY <1>3, OtherwiseIs
  <2> QED
    BY <2>1, LineOff, LineOn, LineAnswer DEF Away
<1> QED
  BY <1>1, <1>2, <1>3

-----------------------------------------------------------------------------
(* The call that reads.                                                    *)

Reading ==
  /\ got \in Seq(Items) /\ chan \in Seq(Items)
  /\ reading \in Nat /\ sent \in Nat

CallPart == Reading /\ Calling /\ Done

\* A call takes nothing but what came for it, and nothing out of its turn.
Reads ==
  /\ op' \in Calls => op \in Calls \/ Mine' = <<>>
  /\ \/ Mine' = Mine /\ reading' = reading
     \/ /\ reading' = 0
        /\ \A i \in 1..Len(Mine') : i \in 1..Len(Mine) /\ Mine'[i] = Mine[i]

LEMMA Names ==
         /\ Calls = {"query", "open", "valid", "next"} /\ Requests = {"query", "open", "valid"}
         /\ Iterators = {"iter", "blocking", "timed"} /\ Closes = {"close", "drop"}
PROOF
  BY DEF Calls, Requests, Iterators, Closes

\* Mine with the channel emptied into got, or dropped with its Responses.
LEMMA MineEmptied ==
  ASSUME Reading
  PROVE  /\ Mine \in Seq(Items)
         /\ Mine \o <<>> = Mine /\ got \o <<>> = got /\ (got = <<>> => Mine = chan)
         /\ \A i \in 1..Len(got) : i \in 1..Len(Mine) /\ got[i] = Mine[i]
PROOF
<1>1. got \in Seq(Items) /\ chan \in Seq(Items)
  BY DEF Reading
<1>2. Mine \in Seq(Items) /\ Len(Mine) = Len(got) + Len(chan) /\ Len(got) \in Nat /\ Len(chan) \in Nat
      /\ \A i \in 1..Len(got) : Mine[i] = got[i]
  BY <1>1, ConcatOf DEF Mine
<1>3. Mine \o <<>> = Mine /\ got \o <<>> = got /\ <<>> \o chan = chan
  BY <1>1, <1>2, ConcatEmptySeq
<1> QED
  BY <1>2, <1>3 DEF Mine

\* A call returns, other than query_raw with a RowIter.
LEMMA ReturnKeeps ==
  ASSUME Reading, Calling, stage # "out", sent' = sent,
         NEW result, Return(result), ~(op = "open" /\ result = "ok"),
         IF op = "next" THEN reading' = reading ELSE reading' = 0 /\ chan' = <<>>
  PROVE  Calling' /\ outcome' = result /\ (op' \in Calls => op' = op /\ stage' = "out")
PROOF
<1>1. /\ outcome' = result
      /\ stage' = IF op = "close" THEN "poll" ELSE "out"
      /\ op' = IF op = "close" THEN "drop" ELSE op
      /\ holds' = IF op = "drop" THEN "gone" ELSE holds
  BY DEF Return
<1>2. op = "next" <=> holds = "rows"
  BY DEF Calling
<1>3. CASE op = "next"
  BY <1>1, <1>2, <1>3, Names DEF Calling
<1>4. CASE op # "next"
  <2>1. holds' # "rows" /\ op' # "next" /\ (op' \in Requests => stage' = "out")
    BY <1>1, <1>2, <1>4, Names
  <2> QED
    BY <1>1, <1>4, <2>1, Names DEF Calling
<1> QED
  BY <1>3, <1>4

\* The connection ends under a call.
LEMMA TerminalReads ==
  ASSUME CallPart, stage # "out", Terminal, got' = got, sent' = sent
  PROVE  CallPart' /\ Reads
PROOF
<1>1. Reading /\ Calling
  BY DEF CallPart
<1>2. Return("error") /\ IF op = "next" THEN UNCHANGED <<reading, chan>> ELSE reading' = 0 /\ chan' = <<>>
  BY DEF Terminal, Release
<1>3. Calling' /\ outcome' = "error" /\ (op' \in Calls => op' = op)
  BY <1>1, <1>2, ReturnKeeps
<1>4. Reading'
  <2>1. chan' = chan \/ chan' = <<>>
    BY <1>2
  <2>2. chan' \in Seq(Items)
    BY <1>1, <2>1, EmptySeq DEF Reading
  <2>3. reading' \in Nat
    BY <1>1, <1>2 DEF Reading
  <2> QED
    BY <1>1, <2>2, <2>3 DEF Reading
<1>5. Done'
  BY <1>3 DEF Done
<1>6. Reads
  <2>1. CASE op = "next"
    BY <1>2, <1>3, <2>1 DEF Reads, Mine
  <2>2. CASE op # "next"
    <3>1. Mine' = got
      BY <1>1, <1>2, <2>2, MineEmptied DEF Mine
    <3> QED
      BY <1>1, <1>2, <1>3, <2>2, <3>1, MineEmptied DEF Reads
  <2> QED
    BY <2>1, <2>2
<1> QED
  BY <1>3, <1>4, <1>5, <1>6 DEF CallPart

\* Nothing happens to the call, or it goes on waiting.
LEMMA StillReads ==
  ASSUME CallPart, UNCHANGED <<holds, op, outcome, got, chan, reading, sent>>,
         stage' = "out" <=> stage = "out"
  PROVE  CallPart' /\ Reads
PROOF
<1>1. Reads
  BY DEF Reads, Mine
<1>2. Reading' /\ Done'
  BY DEF CallPart, Reading, Done, Failed, Complete
<1>3. Calling'
  BY DEF CallPart, Calling
<1> QED
  BY <1>1, <1>2, <1>3 DEF CallPart

LEMMA CallRead ==
  ASSUME CallPart, ReadPart, Head(inbound) \in Items
  PROVE  CallPart' /\ op' = op /\ got' = got /\ reading' = reading
         /\ (Wanted => Mine' = Append(Mine, Head(inbound))) /\ (~Wanted => Mine' = Mine)
PROOF
<1>1. /\ UNCHANGED <<holds, op, stage, outcome, got, reading, sent>>
      /\ chan' = IF Wanted THEN Append(chan, Head(inbound)) ELSE chan
  BY DEF ReadPart, callVars
<1>2. Reading /\ Calling /\ Done
  BY DEF CallPart
<1>3. chan' \in Seq(Items)
  BY <1>1, <1>2, AppendProperties DEF Reading
<1>4. Reading'
  BY <1>1, <1>2, <1>3 DEF Reading
<1>5. reading = 0 => chan' = <<>>
  BY <1>1, <1>2 DEF Calling, Wanted
<1>6. Calling'
  BY <1>1, <1>2, <1>5 DEF Calling
<1>7. Done'
  BY <1>1, <1>2 DEF Done, Failed, Complete
<1>8. Wanted => Mine' = Append(Mine, Head(inbound))
  <2>1. got \o Append(chan, Head(inbound)) = Append(got \o chan, Head(inbound))
    BY <1>2, ConcatAppend DEF Reading
  <2> QED
    BY <1>1, <2>1 DEF Mine
<1>9. ~Wanted => Mine' = Mine
  BY <1>1 DEF Mine
<1> QED
  BY <1>1, <1>4, <1>6, <1>7, <1>8, <1>9 DEF CallPart

LEMMA CallSend ==
  ASSUME CallPart, Send
  PROVE  CallPart' /\ op' = op /\ Mine = <<>> /\ Mine' = <<>> /\ reading' = sent'
PROOF
<1>1. /\ UNCHANGED <<holds, op, stage, outcome, got, chan>>
      /\ op \in Requests /\ reading = 0 /\ stage # "out"
      /\ sent' = sent + 1 /\ reading' = sent + 1
  BY DEF Send, Unsent, callVars
<1>2. Reading /\ Calling /\ Done
  BY DEF CallPart
<1>3. got = <<>> /\ chan = <<>>
  BY <1>1, <1>2 DEF Calling
<1>4. Mine = <<>> /\ Mine' = <<>>
  BY <1>1, <1>2, <1>3, MineEmptied DEF Mine
<1>5. Reading'
  BY <1>1, <1>2 DEF Reading
<1>6. op # "next" /\ holds # "rows"
  BY <1>1, <1>2, Names DEF Calling
<1>7. Calling'
  <2>1. reading' # 0
    BY <1>1, <1>2 DEF Reading
  <2> QED
    BY <1>1, <1>2, <1>3, <1>6, <2>1, Names DEF Calling
<1>8. Done'
  BY <1>1, <1>2 DEF Done, Failed, Complete
<1> QED
  BY <1>1, <1>4, <1>5, <1>7, <1>8 DEF CallPart

\* The calls themselves.
LEMMA CallEnters ==
  ASSUME CallPart,
         \/ \E o \in Requests : CallRequest(o)
         \/ NextRow \/ TimeoutIter \/ DropBorrow
         \/ \E o \in Iterators : NextBuffered(o) \/ NextNotification(o)
         \/ \E o \in Closes : CloseInner(o)
  PROVE  CallPart' /\ Reads
PROOF
<1>1. Reading /\ Calling /\ Done
  BY DEF CallPart
<1>2. ASSUME stage = "out", holds # "rows"
      PROVE  reading = 0 /\ chan = <<>>
  BY <1>1, <1>2 DEF Calling
<1>3. ASSUME NEW o, o # "next", stage = "out", holds # "rows", Enter(o, <<>>),
             UNCHANGED <<holds, reading, chan, sent>>
      PROVE  CallPart' /\ Reads
  <2>1. reading = 0 /\ chan = <<>> /\ got' = <<>> /\ op' = o /\ stage' = "poll" /\ outcome' = "none"
    BY <1>2, <1>3 DEF Enter
  <2>2. Reading'
    BY <1>1, <1>3, <2>1, EmptySeq DEF Reading
  <2>3. Calling'
    BY <1>3, <2>1, Names DEF Calling
  <2>4. Done'
    BY <2>1 DEF Done
  <2>5. Mine' = <<>> /\ Len(Mine') = 0
    BY <1>3, <2>1 DEF Mine
  <2>6. Reads
    BY <1>3, <2>1, <2>5 DEF Reads
  <2> QED
    BY <2>2, <2>3, <2>4, <2>6 DEF CallPart
<1>4. ASSUME NEW o \in Requests, CallRequest(o)
      PROVE  CallPart' /\ Reads
  <2>1. o # "next" /\ stage = "out" /\ holds # "rows" /\ Enter(o, <<>>)
        /\ UNCHANGED <<holds, reading, chan, sent>>
    BY <1>4, Names DEF CallRequest, taskVars
  <2> QED
    BY <1>3, <2>1
<1>5. CASE NextRow
  <2>1. /\ stage = "out" /\ holds = "rows" /\ op' = "next" /\ stage' = "poll" /\ outcome' = "none"
        /\ UNCHANGED <<holds, got, reading, chan, sent>>
    BY <1>5 DEF NextRow, Enter, taskVars
  <2>2. op \in Calls /\ reading # 0 /\ reading = sent
    BY <1>1, <2>1, Names DEF Calling
  <2>3. Reading' /\ Done'
    BY <1>1, <2>1 DEF Reading, Done
  <2>4. Calling'
    BY <2>1, <2>2, Names DEF Calling
  <2>5. Reads
    BY <2>1, <2>2 DEF Reads, Mine
  <2> QED
    BY <2>3, <2>4, <2>5 DEF CallPart
<1>6. CASE TimeoutIter
  <2>1. /\ stage = "out" /\ holds = "client" /\ holds' = "timed"
        /\ UNCHANGED <<op, stage, outcome, got, reading, chan, sent>>
    BY <1>6 DEF TimeoutIter, taskVars
  <2>2. reading = 0 /\ chan = <<>>
    BY <1>2, <2>1
  <2>3. Reading' /\ Done' /\ Reads
    BY <1>1, <2>1 DEF Reading, Done, Failed, Complete, Reads, Mine
  <2>4. Calling'
    BY <2>1, <2>2 DEF Calling
  <2> QED
    BY <2>3, <2>4 DEF CallPart
<1>7. CASE DropBorrow
  <2>1. /\ stage = "out" /\ holds' = "client" /\ reading' = 0 /\ chan' = <<>>
        /\ UNCHANGED <<op, stage, outcome, got, sent>>
    BY <1>7 DEF DropBorrow
  <2>2. Reading' /\ Done'
    BY <1>1, <2>1, EmptySeq DEF Reading, Done, Failed, Complete
  <2>3. Calling'
    BY <2>1 DEF Calling
  <2>4. Mine' = got
    BY <1>1, <2>1, MineEmptied DEF Mine
  <2>5. Reads
    BY <1>1, <2>1, <2>4, MineEmptied DEF Reads
  <2> QED
    BY <2>2, <2>3, <2>5 DEF CallPart
<1>8. ASSUME NEW o \in Iterators, NextBuffered(o)
      PROVE  CallPart' /\ Reads
  <2>1. /\ stage = "out" /\ holds # "rows" /\ op' = o /\ o \notin Calls
        /\ UNCHANGED <<holds, stage, got, reading, chan, sent>>
    BY <1>8, Names DEF NextBuffered, MayIterate, taskVars
  <2>2. reading = 0 /\ chan = <<>>
    BY <1>2, <2>1
  <2>3. Reading' /\ Done'
    BY <1>1, <2>1 DEF Reading, Done
  <2>4. Calling'
    BY <2>1, <2>2, Names DEF Calling
  <2>5. Reads
    BY <2>1 DEF Reads, Mine
  <2> QED
    BY <2>3, <2>4, <2>5 DEF CallPart
<1>9. ASSUME NEW o \in Iterators, NextNotification(o)
      PROVE  CallPart' /\ Reads
  <2>1. o # "next" /\ stage = "out" /\ holds # "rows" /\ Enter(o, <<>>)
        /\ UNCHANGED <<holds, reading, chan, sent>>
    BY <1>9, Names DEF NextNotification, MayIterate, taskVars
  <2> QED
    BY <1>3, <2>1
<1>10. ASSUME NEW o \in Closes, CloseInner(o)
       PROVE  CallPart' /\ Reads
  <2>1. o # "next" /\ stage = "out" /\ holds # "rows" /\ Enter(o, <<>>)
        /\ UNCHANGED <<holds, reading, chan, sent>>
    BY <1>10, Names DEF CloseInner
  <2> QED
    BY <1>3, <2>1
<1> QED
  BY <1>4, <1>5, <1>6, <1>7, <1>8, <1>9, <1>10

\* What f returns.
LEMMA CallReturns ==
  ASSUME CallPart,
         \/ Refused \/ Answered \/ RowsOpened \/ RowRead \/ RowsOver \/ Notified
         \/ GivesUp \/ Closed
  PROVE  CallPart' /\ Reads
PROOF
<1>1. Reading /\ Calling /\ Done
  BY DEF CallPart
<1>2. CASE Refused
  <2>1. stage # "out" /\ Return("error") /\ op \in Requests /\ reading = 0
        /\ UNCHANGED <<got, reading, chan, sent>>
    BY <1>2 DEF Refused, Unsent, taskVars
  <2>2. chan = <<>> /\ op # "next"
    BY <1>1, <2>1, Names DEF Calling
  <2>3. Calling' /\ outcome' = "error" /\ (op' \in Calls => op' = op)
    BY <1>1, <2>1, <2>2, ReturnKeeps
  <2>4. Reading' /\ Done' /\ Reads
    BY <1>1, <2>1, <2>3 DEF Reading, Done, Reads, Mine
  <2> QED
    BY <2>3, <2>4 DEF CallPart
<1>3. CASE Answered
  <2>1. PICK r : r = IF Failed(chan) THEN "error" ELSE "ok"
    OBVIOUS
  <2>2. /\ stage # "out" /\ op \in {"query", "valid"} /\ Return(r)
        /\ Failed(chan) \/ Complete(got \o chan)
        /\ got' = got \o chan /\ reading' = 0 /\ chan' = <<>> /\ sent' = sent
    BY <1>3, <2>1 DEF Answered, Await
  <2>3. Calling' /\ outcome' = r /\ (op' \in Calls => op' = op)
    <3>1. op # "next" /\ ~(op = "open" /\ r = "ok")
      BY <2>2
    <3> QED
      BY <1>1, <2>2, <3>1, ReturnKeeps
  <2>4. Reading'
    BY <1>1, <2>2, MineEmptied, EmptySeq DEF Reading, Mine
  <2>5. Complete(got') \/ outcome' = "error"
    BY <2>1, <2>2, <2>3
  <2>6. Done'
    BY <2>5 DEF Done, Complete
  <2>7. Mine' = Mine
    BY <1>1, <2>2, MineEmptied DEF Mine
  <2>8. Reads
    BY <1>1, <2>2, <2>3, <2>7 DEF Reads
  <2> QED
    BY <2>3, <2>4, <2>6, <2>8 DEF CallPart
<1>4. CASE RowsOpened
  <2>1. /\ stage # "out" /\ op = "open" /\ chan # <<>> /\ reading # 0 /\ sent' = sent
        /\ got' = <<Head(chan)>>
    BY <1>4, Names DEF RowsOpened, Await, Unsent
  <2>2. got = <<>> /\ reading = sent /\ op \in Calls
    BY <1>1, <2>1, Names DEF Calling
  <2>3. Mine = chan /\ chan \in Seq(Items)
    BY <1>1, <2>2, MineEmptied DEF Reading
  <2>4. /\ Tail(chan) \in Seq(Items) /\ Head(chan) \in Items /\ Head(chan) = chan[1]
        /\ Len(chan) \in Nat \ {0} /\ <<Head(chan)>> \in Seq(Items)
    BY <2>1, <2>3, TailOf
  <2>5. CASE Failed(got')
    <3>1. Return("error") /\ reading' = 0 /\ chan' = <<>>
      BY <1>4, <2>1, <2>5 DEF RowsOpened, Release
    <3>2. Calling' /\ outcome' = "error" /\ (op' \in Calls => op' = op)
      BY <1>1, <2>1, <3>1, ReturnKeeps
    <3>3. Reading' /\ Done'
      BY <1>1, <2>1, <2>4, <3>1, <3>2, EmptySeq DEF Reading, Done
    <3>4. Mine' = <<Head(chan)>>
      BY <2>1, <2>4, <3>1, ConcatEmptySeq DEF Mine
    <3>5. \A i \in 1..Len(Mine') : i \in 1..Len(Mine) /\ Mine'[i] = Mine[i]
      <4>1. Len(<<Head(chan)>>) = 1 /\ <<Head(chan)>>[1] = Head(chan)
        OBVIOUS
      <4> QED
        BY <2>3, <2>4, <3>4, <4>1
    <3>6. Reads
      BY <2>2, <3>1, <3>5 DEF Reads
    <3> QED
      BY <3>2, <3>3, <3>6 DEF CallPart
  <2>6. CASE ~Failed(got')
    <3>1. Return("ok") /\ chan' = Tail(chan) /\ reading' = reading
      BY <1>4, <2>6 DEF RowsOpened
    <3>2. holds' = "rows" /\ op' = op /\ stage' = "out" /\ outcome' = "ok"
      BY <2>1, <3>1 DEF Return
    <3>3. Reading'
      BY <1>1, <2>1, <2>4, <3>1 DEF Reading
    <3>4. Done'
      BY <2>1, <3>2 DEF Done
    <3>5. Calling'
      BY <2>1, <2>2, <3>1, <3>2, Names DEF Calling
    <3>6. Mine' = Mine
      <4>1. Append(<<>>, Head(chan)) \o Tail(chan) = <<>> \o chan
        BY <2>1, <2>3, EmptySeq, MoveOne
      <4>2. Append(<<>>, Head(chan)) = <<Head(chan)>>
        OBVIOUS
      <4> QED
        BY <2>1, <2>2, <3>1, <4>1, <4>2 DEF Mine
    <3>7. Reads
      BY <2>2, <3>1, <3>6 DEF Reads
    <3> QED
      BY <3>3, <3>4, <3>5, <3>7 DEF CallPart
  <2> QED
    BY <2>5, <2>6
<1>5. CASE RowRead
  <2>1. PICK r : r = IF Failed(<<Head(chan)>>) THEN "error"
                     ELSE IF Complete(got') THEN "end" ELSE "item"
    OBVIOUS
  <2>2. /\ stage # "out" /\ op = "next" /\ chan # <<>> /\ Return(r)
        /\ got' = Append(got, Head(chan)) /\ chan' = Tail(chan)
        /\ UNCHANGED <<reading, sent>>
    BY <1>5, <2>1 DEF RowRead, Await
  <2>3. Calling' /\ outcome' = r /\ (op' \in Calls => op' = op)
    BY <1>1, <2>2, ReturnKeeps
  <2>4. Reading'
    <3>1. Tail(chan) \in Seq(Items) /\ Head(chan) \in Items
      BY <1>1, <2>2, TailOf DEF Reading
    <3>2. Append(got, Head(chan)) \in Seq(Items)
      BY <1>1, <3>1, AppendProperties DEF Reading
    <3> QED
      BY <1>1, <2>2, <3>1, <3>2 DEF Reading
  <2>5. outcome' # "ok" /\ (outcome' = "end" => Complete(got'))
    BY <2>1, <2>3
  <2>6. Done'
    BY <2>5 DEF Done, Complete
  <2>7. Mine' = Mine
    <3>1. Append(got, Head(chan)) \o Tail(chan) = got \o chan
      BY <1>1, <2>2, MoveOne DEF Reading
    <3> QED
      BY <2>2, <3>1 DEF Mine
  <2>8. Reads
    BY <2>2, <2>3, <2>7 DEF Reads
  <2> QED
    BY <2>3, <2>4, <2>6, <2>8 DEF CallPart
<1>6. CASE RowsOver
  <2>1. stage # "out" /\ op = "next" /\ Return("error") /\ UNCHANGED <<got, reading, chan, sent>>
    BY <1>6 DEF RowsOver, Await, taskVars
  <2>2. Calling' /\ outcome' = "error" /\ (op' \in Calls => op' = op)
    BY <1>1, <2>1, ReturnKeeps
  <2>3. Reading' /\ Done' /\ Reads
    BY <1>1, <2>1, <2>2 DEF Reading, Done, Reads, Mine
  <2> QED
    BY <2>2, <2>3 DEF CallPart
<1>7. ASSUME NEW r, stage # "out", op \notin Calls, Return(r), UNCHANGED <<got, reading, chan, sent>>
      PROVE  CallPart' /\ Reads
  <2>1. op # "next" /\ op # "open" /\ reading = 0 /\ chan = <<>>
    BY <1>1, <1>7, Names DEF Calling
  <2>2. Calling' /\ outcome' = r /\ (op' \in Calls => op' = op)
    BY <1>1, <1>7, <2>1, ReturnKeeps
  <2>3. op' \notin Calls
    BY <1>7, <2>2
  <2>4. Reading' /\ Done' /\ Reads
    BY <1>1, <1>7, <2>3 DEF Reading, Done, Reads, Mine
  <2> QED
    BY <2>2, <2>4 DEF CallPart
<1>8. CASE Notified
  <2>1. stage # "out" /\ op \notin Calls /\ Return("item") /\ UNCHANGED <<got, reading, chan, sent>>
    BY <1>8, Names DEF Notified, taskVars
  <2> QED
    BY <1>7, <2>1
<1>9. CASE Closed
  <2>1. stage # "out" /\ op \notin Calls /\ Return("ok") /\ UNCHANGED <<got, reading, chan, sent>>
    BY <1>9, Names DEF Closed, taskVars
  <2> QED
    BY <1>7, <2>1
<1>10. CASE GivesUp
  <2>1. PICK r \in {"end", "timeout"} :
             /\ Return(r) /\ (r = "end" => op \notin Calls) /\ op \in {"iter", "timed", "valid"}
    BY <1>10, Names DEF GivesUp
  <2>2. /\ stage # "out" /\ got' = got /\ sent' = sent /\ reading' = 0 /\ chan' = <<>>
    BY <1>10 DEF GivesUp
  <2>3. Calling' /\ outcome' = r /\ (op' \in Calls => op' = op)
    BY <1>1, <2>1, <2>2, ReturnKeeps
  <2>4. Reading'
    BY <1>1, <2>2, EmptySeq DEF Reading
  <2>5. Done'
    BY <2>1, <2>3 DEF Done
  <2>6. Mine' = got
    BY <1>1, <2>2, MineEmptied DEF Mine
  <2>7. Reads
    BY <1>1, <2>2, <2>3, <2>6, MineEmptied DEF Reads
  <2> QED
    BY <2>3, <2>4, <2>5, <2>7 DEF CallPart
<1> QED
  BY <1>2, <1>3, <1>4, <1>5, <1>6, <1>8, <1>9, <1>10

LEMMA CallStep ==
  ASSUME CallPart, [Next]_vars, ~ReadPart, ~Send
  PROVE  CallPart' /\ Reads
PROOF
<1>1. CASE Call
  BY <1>1, CallEnters DEF Call
<1>2. CASE WriteFails \/ ReadFatal \/ ReadEof
  <2>1. stage # "out" /\ Terminal /\ got' = got /\ sent' = sent
    BY <1>2 DEF WriteFails, ReadFatal, ReadEof, Active
  <2> QED
    BY <2>1, TerminalReads
<1>3. CASE ReadNote \/ ReadPending
  <2>1. /\ UNCHANGED <<holds, op, outcome, got, chan, reading, sent>>
        /\ stage' = "out" <=> stage = "out"
    BY <1>3 DEF ReadNote, ReadPending, Active
  <2> QED
    BY <2>1, StillReads
<1>4. CASE PollAfterClose \/ Woken \/ Fire
  <2>1. /\ UNCHANGED <<holds, op, outcome, got, chan, reading, sent>>
        /\ stage' = "out" <=> stage = "out"
    BY <1>4 DEF PollAfterClose, Woken, Fire, taskVars
  <2> QED
    BY <2>1, StillReads
<1>5. CASE Server \/ UNCHANGED vars
  <2>1. /\ UNCHANGED <<holds, op, outcome, got, chan, reading, sent>>
        /\ stage' = "out" <=> stage = "out"
    BY <1>5 DEF Server, Answer, Notify, Hang, Announce, Vanish, callVars, taskVars, vars
  <2> QED
    BY <2>1, StillReads
<1>6. CASE FPending
  <2>1. CASE op \in {"query", "valid"}
    <3>1. /\ UNCHANGED <<holds, op, outcome, reading, sent>> /\ stage # "out" /\ stage' # "out"
          /\ got' = got \o chan /\ chan' = <<>>
      BY <1>6, <2>1 DEF FPending
    <3>2. Reading /\ Calling /\ Done /\ op # "open" /\ op # "next" /\ op \in Calls
      BY <2>1, Names DEF CallPart
    <3>3. Mine' = Mine
      BY <3>1, <3>2, MineEmptied DEF Mine
    <3>4. Reading'
      BY <3>1, <3>2, MineEmptied, EmptySeq DEF Reading, Mine
    <3>5. reading # 0
      BY <1>6, <2>1, Names DEF FPending, Unsent
    <3>6. Calling'
      BY <3>1, <3>2, <3>5 DEF Calling
    <3>7. outcome = "none"
      BY <3>1, <3>2 DEF Calling
    <3>8. Done'
      BY <3>1, <3>7 DEF Done
    <3>9. Reads
      BY <3>1, <3>3 DEF Reads
    <3> QED
      BY <3>4, <3>6, <3>8, <3>9 DEF CallPart
  <2>2. CASE op \notin {"query", "valid"}
    <3>1. /\ UNCHANGED <<holds, op, outcome, got, chan, reading, sent>>
          /\ stage' = "out" <=> stage = "out"
      BY <1>6, <2>2 DEF FPending
    <3> QED
      BY <3>1, StillReads
  <2> QED
    BY <2>1, <2>2
<1>7. CASE Refused \/ Answered \/ RowsOpened \/ RowRead \/ RowsOver \/ Notified \/ GivesUp \/ Closed
  BY <1>7, CallReturns
<1> QED
  BY <1>1, <1>2, <1>3, <1>4, <1>5, <1>6, <1>7 DEF Next, Poll, PollF

-----------------------------------------------------------------------------
(* What is read of a call's own response, step by step.                    *)

LEMMA WantedIs ==
  ASSUME NotesTyped, Line, Calling
  PROVE  /\ Wanted => /\ waiting # <<>> /\ reading = sent /\ reading # 0 /\ op \in Calls
                      /\ Received + 1 = sent /\ sendq = <<>>
         /\ reading # 0 /\ waiting # <<>> /\ Received + 1 = sent => Wanted
PROOF
<1>1. /\ Len(sendq) \in Nat /\ Len(waiting) \in Nat /\ sent \in Nat
      /\ Received = (sent - Len(sendq)) - Len(waiting)
      /\ waiting # <<>> => Head(waiting) = Received + 1 /\ Len(waiting) # 0
  BY LineNumbers DEF NotesTyped
<1>2. reading # 0 => op \in Calls /\ reading = sent
  BY DEF Calling
<1>3. ASSUME Wanted
      PROVE  /\ waiting # <<>> /\ reading = sent /\ reading # 0 /\ op \in Calls
             /\ Received + 1 = sent /\ sendq = <<>>
  <2>1. reading # 0 /\ waiting # <<>> /\ Head(waiting) = reading
    BY <1>3 DEF Wanted
  <2>2. Received + 1 = sent /\ Len(waiting) # 0
    BY <1>1, <1>2, <2>1
  <2>3. Len(sendq) = 0
    BY <1>1, <2>2
  <2>4. sendq = <<>>
    BY <2>3, EmptySeq DEF NotesTyped
  <2> QED
    BY <1>2, <2>1, <2>2, <2>4
<1>4. reading # 0 /\ waiting # <<>> /\ Received + 1 = sent => Wanted
  BY <1>1, <1>2 DEF Wanted
<1> QED
  BY <1>3, <1>4

LEMMA WantedNext ==
  ASSUME Line', Put' \in Nat, Wanted'
  PROVE  waiting' # <<>> /\ reading' # 0 /\ reading' = Received' + 1
PROOF
<1>1. waiting' \in Seq(Nat) /\ Numbers(waiting', Put')
  BY DEF Line, Numbering
<1>2. reading' # 0 /\ waiting' # <<>> /\ Head(waiting') = reading'
  BY DEF Wanted
<1>3. Head(waiting') = (Put' - Len(waiting')) + 1
  BY <1>1, <1>2, NumbersTail
<1> QED
  BY <1>2, <1>3 DEF Received

\* A step that reads nothing for the call.
LEMMA MiningKeeps ==
  ASSUME Mining, Reads, sent' = sent, Received' = Received,
         sendq' # <<>> => sendq # <<>>, srv' = "up" => srv = "up",
         NoParts(inbound) /\ srv # "up" => NoParts(inbound'),
         reading' = reading /\ Wanted' =>
           /\ Resumes(inbound', Len(Mine))
           /\ srv' = "up" /\ NoParts(inbound') => noted' = Len(Mine)
  PROVE  Mining'
PROOF
<1>1. op' \in Calls =>
        \A i \in 1..Len(Mine') :
          /\ Mine'[i].type \in {"part", "fatal"}
          /\ Mine'[i].type = "part" => Mine'[i].req = sent' /\ Mine'[i].n = i
  <2>1. CASE op \in Calls
    BY <2>1 DEF Mining, Reads
  <2>2. CASE op \notin Calls
    <3>1. Len(<<>>) = 0
      OBVIOUS
    <3> QED
      BY <2>2, <3>1 DEF Reads
  <2> QED
    BY <2>1, <2>2
<1>2. reading' # 0 => Mine' = Mine /\ reading' = reading
  BY DEF Reads
<1>3. reading' # 0 =>
        /\ Received' + 1 < sent' \/ sendq' # <<>> => Mine' = <<>>
        /\ ~NoFatal(Mine') => NoParts(inbound') /\ srv' # "up"
  BY <1>2 DEF Mining
<1>4. Wanted' =>
        /\ Resumes(inbound', Len(Mine'))
        /\ srv' = "up" /\ NoParts(inbound') => noted' = Len(Mine')
  <2>1. Wanted' => reading' # 0
    BY DEF Wanted
  <2> QED
    BY <1>2, <2>1
<1> QED
  BY <1>1, <1>3, <1>4 DEF Mining

LEMMA MiningAway ==
  ASSUME NotesTyped, Line, Line', Calling, Mining, Reads, Away
  PROVE  Mining'
PROOF
<1>1. OtherTaken /\ WrittenOrNot /\ sent' = sent /\ srv' = srv /\ noted' = noted
  BY DEF Away
<1>2. /\ Put' \in Nat /\ Received' = Received /\ (sendq' # <<>> => sendq' = sendq)
      /\ waiting' = waiting \/ (sendq' = <<>> /\ waiting' = waiting \o sendq)
  BY <1>1, WrittenOn
<1>3. inbound \in Seq(Items)
  BY DEF NotesTyped
<1>4. /\ NoParts(inbound') <=> NoParts(inbound)
      /\ \A n : Resumes(inbound, n) => Resumes(inbound', n)
      /\ Heads(inbound', Received) /\ Below(inbound', Put)
  <2>1. Heads(inbound, Received) /\ Below(inbound, Put)
    BY DEF Line, Stream
  <2>2. CASE inbound' = inbound
    BY <2>1, <2>2
  <2>3. CASE inbound # <<>> /\ inbound' = Tail(inbound) /\ Head(inbound).type # "part"
    <3>1. ASSUME NEW n, Resumes(inbound, n)
          PROVE  Resumes(Tail(inbound), n)
      BY <1>3, <2>3, <3>1, OtherOff
    <3>2. Heads(Tail(inbound), Received) /\ (NoParts(Tail(inbound)) <=> NoParts(inbound))
      BY <1>3, <2>1, <2>3, OtherOff
    <3>3. Below(Tail(inbound), Put)
      BY <1>3, <2>1, <2>3, TailChained
    <3> QED
      BY <2>3, <3>1, <3>2, <3>3
  <2> QED
    BY <1>1, <2>2, <2>3 DEF OtherTaken
<1>5. ASSUME reading' = reading, Wanted'
      PROVE  /\ Resumes(inbound', Len(Mine))
             /\ srv' = "up" /\ NoParts(inbound') => noted' = Len(Mine)
  <2>1. CASE Wanted
    <3>1. /\ Resumes(inbound, Len(Mine))
          /\ srv = "up" /\ NoParts(inbound) => noted = Len(Mine)
      BY <2>1 DEF Mining
    <3> QED
      BY <1>1, <1>4, <3>1
  <2>2. CASE ~Wanted
    <3>1. waiting' # <<>> /\ reading # 0 /\ reading = Received + 1
      BY <1>2, <1>5, WantedNext
    <3>2. reading = sent
      BY <3>1 DEF Calling
    <3>3. waiting = <<>>
      BY <2>2, <3>1, <3>2, WantedIs
    <3>4. sendq # <<>>
      <4>1. waiting' = waiting \o sendq
        BY <1>2, <3>1, <3>3
      <4>2. <<>> \o <<>> = <<>>
        OBVIOUS
      <4> QED
        BY <3>1, <3>3, <4>1, <4>2
    <3>5. Mine = <<>> /\ Len(Mine) = 0
      BY <3>1, <3>4 DEF Mining
    <3>6. /\ Put \in Nat /\ Served \in Int /\ Received = Put - Len(waiting)
          /\ Served = Put - Len(toServer) /\ Len(toServer) \in Nat
      BY LineNumbers
    <3>7. Received = Put
      BY <3>3, <3>6
    <3>8. Resumes(inbound', 0)
      <4>1. ASSUME NEW i \in 1..Len(inbound'), First(inbound', i)
            PROVE  FALSE
        <5>1. inbound'[i].req = Put + 1 /\ inbound'[i].req <= Put
          BY <1>4, <3>7, <4>1 DEF Heads, Below, First
        <5> QED
          BY <3>6, <5>1
      <4> QED
        BY <4>1 DEF Resumes
    <3>9. ASSUME srv' = "up", NoParts(inbound')
          PROVE  noted' = 0
      <4>1. srv = "up" /\ NoParts(inbound)
        BY <1>1, <1>4, <3>9
      <4>2. Served = Received /\ (toServer = <<>> => noted = 0)
        BY <4>1 DEF Line, Serving
      <4>3. Len(toServer) = 0
        BY <3>6, <3>7, <4>2
      <4>4. toServer = <<>>
        BY <4>3, EmptySeq DEF NotesTyped
      <4> QED
        BY <1>1, <4>2, <4>4
    <3> QED
      BY <3>5, <3>8, <3>9
  <2> QED
    BY <2>1, <2>2
<1> QED
  BY <1>1, <1>2, <1>4, <1>5, MiningKeeps

LEMMA MiningOn ==
  ASSUME NotesTyped, Line, Calling, Mining, Reads, OtherSent \/ Answer
  PROVE  Mining'
PROOF
<1>1. UNCHANGED <<waiting, sendq, sent>> /\ Received' = Received /\ (srv' = "up" => srv = "up")
      /\ (NoParts(inbound) /\ srv # "up" => NoParts(inbound'))
  <2>1. CASE OtherSent
    <3>1. NoParts(inbound) => NoParts(inbound')
      <4>1. CASE inbound' = inbound
        BY <4>1
      <4>2. CASE inbound' # inbound
        <5>1. PICK m \in Items : m.type # "part" /\ inbound' = Append(inbound, m)
          BY <2>1, <4>2 DEF OtherSent
        <5> QED
          BY <5>1, OtherOn DEF NotesTyped
      <4> QED
        BY <4>1, <4>2
    <3> QED
      BY <2>1, <3>1 DEF OtherSent, Received, Put
  <2>2. CASE Answer
    <3>1. srv = "up"
      BY <2>2, LineAnswer
    <3> QED
      BY <2>2, <3>1 DEF Answer, callVars, taskVars, Received, Put
  <2> QED
    BY <2>1, <2>2
<1>2. ASSUME reading' = reading, Wanted'
      PROVE  /\ Resumes(inbound', Len(Mine))
             /\ srv' = "up" /\ NoParts(inbound') => noted' = Len(Mine)
  <2>1. Wanted
    BY <1>1, <1>2 DEF Wanted
  <2>2. /\ Resumes(inbound, Len(Mine))
        /\ srv = "up" /\ NoParts(inbound) => noted = Len(Mine)
    BY <2>1 DEF Mining
  <2>3. CASE OtherSent
    <3>1. noted' = noted
      BY <2>3 DEF OtherSent
    <3>2. CASE inbound' = inbound
      BY <1>1, <2>2, <3>1, <3>2
    <3>3. CASE inbound' # inbound
      <4>1. PICK m \in Items : m.type # "part" /\ inbound' = Append(inbound, m)
        BY <2>3, <3>3 DEF OtherSent
      <4>2. /\ Resumes(Append(inbound, m), Len(Mine))
            /\ NoParts(Append(inbound, m)) <=> NoParts(inbound)
        BY <2>2, <4>1, OtherOn DEF NotesTyped
      <4> QED
        BY <1>1, <2>2, <3>1, <4>1, <4>2
    <3> QED
      BY <3>2, <3>3
  <2>4. CASE Answer
    <3>1. srv = "up" /\ ~NoParts(inbound')
          /\ \A k : Resumes(inbound, k) /\ (NoParts(inbound) => noted = k) => Resumes(inbound', k)
      BY <2>4, LineAnswer
    <3> QED
      BY <2>2, <3>1
  <2> QED
    BY <2>3, <2>4
<1> QED
  BY <1>1, <1>2, MiningKeeps

LEMMA NoFatalAppend ==
  ASSUME NEW q \in Seq(Items), NEW m \in Items, m.type # "fatal", ~NoFatal(Append(q, m))
  PROVE  ~NoFatal(q)
PROOF
<1>1. PICK t : t = Append(q, m)
  OBVIOUS
<1>2. Len(t) = Len(q) + 1 /\ Len(q) \in Nat /\ t[Len(q) + 1] = m
      /\ \A i \in 1..Len(q) : t[i] = q[i]
  BY <1>1, AppendOf
<1>3. \A i \in 1..Len(t) : i \in 1..Len(q) \/ i = Len(q) + 1
  BY <1>2
<1> QED
  BY <1>1, <1>2, <1>3 DEF NoFatal

\* The call's own message, at the end of what it has.
LEMMA MineAppend ==
  ASSUME NEW q \in Seq(Items), NEW m \in Items, NEW s,
         \A i \in 1..Len(q) : /\ q[i].type \in {"part", "fatal"}
                              /\ q[i].type = "part" => q[i].req = s /\ q[i].n = i,
         m.type \in {"part", "fatal"}, m.type = "part" => m.req = s /\ m.n = Len(q) + 1
  PROVE  /\ Len(Append(q, m)) = Len(q) + 1
         /\ \A i \in 1..Len(Append(q, m)) :
              /\ Append(q, m)[i].type \in {"part", "fatal"}
              /\ Append(q, m)[i].type = "part" => Append(q, m)[i].req = s /\ Append(q, m)[i].n = i
PROOF
<1>1. PICK t : t = Append(q, m)
  OBVIOUS
<1>2. Len(t) = Len(q) + 1 /\ Len(q) \in Nat /\ t[Len(q) + 1] = m
      /\ \A i \in 1..Len(q) : t[i] = q[i]
  BY <1>1, AppendOf
<1>3. \A i \in 1..Len(t) : i \in 1..Len(q) \/ i = Len(q) + 1
  BY <1>2
<1>4. \A i \in 1..Len(t) : /\ t[i].type \in {"part", "fatal"}
                           /\ t[i].type = "part" => t[i].req = s /\ t[i].n = i
  BY <1>2, <1>3
<1> QED
  BY <1>1, <1>2, <1>4

LEMMA MiningFatal ==
  ASSUME NotesTyped, Line, CallPart, Mining, ReadPart, Away, inbound # <<>>,
         inbound' = Tail(inbound), Head(inbound).type = "fatal",
         UNCHANGED <<waiting, sendq, toServer>>
  PROVE  Mining'
PROOF
<1>1. Head(inbound) \in Items /\ inbound \in Seq(Items)
  BY TailOf DEF NotesTyped
<1>2. /\ op' = op /\ reading' = reading
      /\ Wanted => Mine' = Append(Mine, Head(inbound))
      /\ ~Wanted => Mine' = Mine
  BY <1>1, CallRead
<1>3. FatalLast(inbound) /\ (srv = "up" => NoFatal(inbound))
  BY DEF Line, Stream, Serving
<1>4. NoParts(inbound') /\ srv' # "up"
  <2>1. Len(inbound) \in Nat \ {0} /\ Head(inbound) = inbound[1]
    BY <1>1, TailOf
  <2>2. 1 \in 1..Len(inbound)
    BY <2>1
  <2>3. srv # "up"
    BY <1>3, <2>1, <2>2 DEF NoFatal
  <2> QED
    BY <1>1, <1>3, <2>3, FatalOff DEF Away
<1>5. sent' = sent /\ sendq' = sendq /\ waiting' = waiting /\ Received' = Received /\ Wanted' = Wanted
  BY <1>2 DEF Away, Received, Put, Wanted
<1>6. Mine \in Seq(Items) /\ Calling
  BY MineEmptied DEF CallPart
<1>7. op' \in Calls =>
        \A i \in 1..Len(Mine') :
          /\ Mine'[i].type \in {"part", "fatal"}
          /\ Mine'[i].type = "part" => Mine'[i].req = sent' /\ Mine'[i].n = i
  <2>1. CASE Wanted /\ op \in Calls
    <3>1. \A i \in 1..Len(Mine) : /\ Mine[i].type \in {"part", "fatal"}
                                  /\ Mine[i].type = "part" => Mine[i].req = sent /\ Mine[i].n = i
      BY <2>1 DEF Mining
    <3>2. PICK m \in Items : m = Head(inbound)
      BY <1>1
    <3>3. \A i \in 1..Len(Append(Mine, m)) :
            /\ Append(Mine, m)[i].type \in {"part", "fatal"}
            /\ Append(Mine, m)[i].type = "part" =>
                 Append(Mine, m)[i].req = sent /\ Append(Mine, m)[i].n = i
      BY <1>6, <3>1, <3>2, MineAppend
    <3> QED
      BY <1>2, <1>5, <2>1, <3>2, <3>3
  <2>2. CASE ~Wanted
    BY <1>2, <1>5, <2>2 DEF Mining
  <2> QED
    BY <1>2, <2>1, <2>2
<1>8. reading' # 0 =>
        /\ Received' + 1 < sent' \/ sendq' # <<>> => Mine' = <<>>
        /\ ~NoFatal(Mine') => NoParts(inbound') /\ srv' # "up"
  <2>1. CASE Wanted
    <3>1. ~(Received' + 1 < sent') /\ sendq' = <<>>
      <4>1. Received + 1 = sent /\ sendq = <<>> /\ sent \in Nat
        BY <1>6, <2>1, WantedIs DEF NotesTyped
      <4> QED
        BY <1>5, <4>1
    <3> QED
      BY <1>4, <3>1
  <2>2. CASE ~Wanted
    BY <1>2, <1>4, <1>5, <2>2 DEF Mining
  <2> QED
    BY <2>1, <2>2
<1>9. Resumes(inbound', Len(Mine'))
  BY <1>4 DEF Resumes, NoParts, First, IsPart
<1> QED
  BY <1>4, <1>7, <1>8, <1>9 DEF Mining

LEMMA MiningPart ==
  ASSUME NotesTyped, Line, CallPart, Mining, ReadPart, PartRead
  PROVE  Mining'
PROOF
<1>1. PICK h : h = Head(inbound)
  OBVIOUS
<1>2. /\ Line' /\ waiting # <<>> /\ h \in Items /\ h.req = Received + 1 /\ Put' = Put
      /\ \A n : Resumes(inbound, n) => h.n = n + 1
      /\ h.last = TRUE => /\ Received' = Received + 1 /\ Resumes(inbound', 0)
                          /\ srv = "up" /\ NoParts(inbound') => noted = 0
      /\ h.last = FALSE => /\ waiting' = waiting /\ Received' = Received /\ Resumes(inbound', h.n)
                           /\ srv = "up" /\ NoParts(inbound') => noted = h.n
  BY <1>1, LinePart
<1>3. /\ h.type = "part" /\ inbound # <<>> /\ UNCHANGED <<sendq, sent, srv, noted>>
      /\ h.last \in BOOLEAN /\ h.n \in Nat
  BY <1>1, <1>2 DEF PartRead, Items
<1>4. /\ op' = op /\ reading' = reading
      /\ Wanted => Mine' = Append(Mine, h)
      /\ ~Wanted => Mine' = Mine
  BY <1>1, <1>2, CallRead
<1>5. Mine \in Seq(Items) /\ Len(Mine) \in Nat /\ Calling
  BY MineEmptied, LenProperties DEF CallPart
<1>6. ~NoParts(inbound)
  <2>1. Len(inbound) \in Nat \ {0} /\ h = inbound[1]
    BY <1>1, <1>3, TailOf DEF NotesTyped
  <2>2. 1 \in 1..Len(inbound)
    BY <2>1
  <2> QED
    BY <1>3, <2>1, <2>2 DEF NoParts
<1>7. reading # 0 => NoFatal(Mine) /\ (Received + 1 < sent \/ sendq # <<>> => Mine = <<>>)
  BY <1>6 DEF Mining
<1>8. Put \in Nat /\ Received \in Nat /\ sent \in Nat
  BY LineNumbers DEF NotesTyped
<1>9. Wanted' => waiting' # <<>> /\ reading # 0 /\ reading = Received' + 1
  BY <1>2, <1>4, <1>8, WantedNext
<1>10. reading # 0 => reading = sent /\ op \in Calls
  BY <1>5 DEF Calling
<1>11. CASE Wanted
  <2>1. Received + 1 = sent /\ sendq = <<>> /\ reading # 0 /\ op \in Calls
    BY <1>5, <1>11, WantedIs
  <2>2. h.n = Len(Mine) + 1
    BY <1>2, <1>11 DEF Mining
  <2>3. PICK t : t = Append(Mine, h)
    OBVIOUS
  <2>4. /\ Len(t) = Len(Mine) + 1
        /\ \A i \in 1..Len(t) : /\ t[i].type \in {"part", "fatal"}
                                /\ t[i].type = "part" => t[i].req = sent /\ t[i].n = i
    <3>1. \A i \in 1..Len(Mine) : /\ Mine[i].type \in {"part", "fatal"}
                                  /\ Mine[i].type = "part" => Mine[i].req = sent /\ Mine[i].n = i
      BY <2>1 DEF Mining
    <3>2. h.req = sent
      BY <1>2, <2>1
    <3> QED
      BY <1>2, <1>3, <1>5, <2>2, <2>3, <3>1, <3>2, MineAppend
  <2>5. Mine' = t
    BY <1>4, <1>11, <2>3
  <2>6. NoFatal(t)
    BY <1>2, <1>3, <1>5, <1>7, <2>1, <2>3, NoFatalAppend
  <2>7. ~(Received' + 1 < sent') /\ sendq' = <<>>
    BY <1>2, <1>3, <1>8, <2>1
  <2>8. ASSUME Wanted'
        PROVE  /\ Resumes(inbound', Len(t))
               /\ srv' = "up" /\ NoParts(inbound') => noted' = Len(t)
    <3>1. h.last = FALSE
      BY <1>2, <1>3, <1>8, <1>9, <1>10, <2>1, <2>8
    <3>2. Len(t) = h.n
      BY <2>2, <2>4
    <3> QED
      BY <1>2, <1>3, <3>1, <3>2
  <2> QED
    BY <1>3, <1>4, <2>4, <2>5, <2>6, <2>7, <2>8 DEF Mining
<1>12. CASE ~Wanted
  <2>1. Mine' = Mine
    BY <1>4, <1>12
  <2>2. Received' >= Received /\ Received' \in Nat
    BY <1>2, <1>3, <1>8
  <2>3. reading # 0 /\ (Received' + 1 < sent' \/ sendq' # <<>>) => Mine = <<>>
    <3>1. sent' = sent /\ sendq' = sendq
      BY <1>3
    <3>2. PICK a \in Nat, b \in Nat, c \in Nat : a = Received /\ b = Received' /\ c = sent
      BY <1>8, <2>2
    <3>3. a <= b
      BY <2>2, <3>2
    <3>4. b + 1 < c => a + 1 < c
      BY <3>3
    <3>5. Received' + 1 < sent' => Received + 1 < sent
      BY <3>1, <3>2, <3>4
    <3> QED
      BY <1>7, <3>1, <3>5
  <2>4. ASSUME Wanted'
        PROVE  /\ Resumes(inbound', Len(Mine))
               /\ srv' = "up" /\ NoParts(inbound') => noted' = Len(Mine)
    <3>1. reading # 0 /\ reading = sent /\ sent = Received' + 1
      BY <1>9, <1>10, <2>4
    <3>2. h.last = TRUE
      <4>1. h.last = FALSE => Wanted
        BY <1>2, <1>5, <3>1, WantedIs
      <4> QED
        BY <1>3, <1>12, <4>1
    <3>3. Received + 1 < sent
      BY <1>2, <1>8, <3>1, <3>2
    <3>4. Mine = <<>> /\ Len(Mine) = 0
      BY <1>7, <3>1, <3>3
    <3> QED
      BY <1>2, <1>3, <3>2, <3>4
  <2>5. op' \in Calls =>
          \A i \in 1..Len(Mine') :
            /\ Mine'[i].type \in {"part", "fatal"}
            /\ Mine'[i].type = "part" => Mine'[i].req = sent' /\ Mine'[i].n = i
    BY <1>3, <1>4, <2>1 DEF Mining
  <2> QED
    BY <1>4, <1>7, <2>1, <2>3, <2>4, <2>5 DEF Mining
<1> QED
  BY <1>11, <1>12

LEMMA MiningSend ==
  ASSUME NotesTyped, Line, CallPart, Mining, Send
  PROVE  Mining'
PROOF
<1>1. Mine' = <<>> /\ reading' = sent' /\ Len(Mine') = 0
  BY CallSend
<1>2. Line' /\ Received' = Received /\ Put' = Put
  BY LineSend
<1>3. sent' = sent + 1 /\ waiting' = waiting
  BY DEF Send
<1>4. /\ Put \in Nat /\ sent \in Nat /\ Len(sendq) \in Nat /\ Len(waiting) \in Nat
      /\ Put = sent - Len(sendq) /\ Received = Put - Len(waiting)
  BY LineNumbers DEF NotesTyped
<1>5. ~Wanted'
  <2>1. ASSUME Wanted'
        PROVE  FALSE
    <3>1. sent + 1 = Received + 1
      BY <1>1, <1>2, <1>3, <1>4, <2>1, WantedNext
    <3>2. waiting # <<>>
      BY <1>3, <2>1 DEF Wanted
    <3>3. Len(waiting) # 0
      BY <3>2, LineNumbers
    <3> QED
      BY <1>4, <3>1, <3>3
  <2> QED
    BY <2>1
<1>6. NoFatal(Mine')
  BY <1>1 DEF NoFatal
<1>7. op' \in Calls =>
        \A i \in 1..Len(Mine') :
          /\ Mine'[i].type \in {"part", "fatal"}
          /\ Mine'[i].type = "part" => Mine'[i].req = sent' /\ Mine'[i].n = i
  BY <1>1
<1> QED
  BY <1>1, <1>5, <1>6, <1>7 DEF Mining

-----------------------------------------------------------------------------
(* Together.                                                               *)

AnswerInv == NotesInv /\ Line /\ CallPart /\ Mining

LEMMA AnswerInit ==
  ASSUME Init
  PROVE  AnswerInv
PROOF
<1>1. /\ got = <<>> /\ chan = <<>> /\ sendq = <<>> /\ waiting = <<>> /\ toServer = <<>>
      /\ inbound = <<>> /\ sent = 0 /\ reading = 0 /\ noted = 0 /\ op = "none"
      /\ holds = "client" /\ stage = "out" /\ outcome = "none"
  BY DEF Init
<1>2. Len(<<>>) = 0
  OBVIOUS
<1>3. Put = 0 /\ Received = 0 /\ Served = 0
  <2>1. Len(sendq) = 0 /\ Len(waiting) = 0 /\ Len(toServer) = 0 /\ sent = 0
    BY <1>1, <1>2
  <2>2. Put = 0
    BY <2>1 DEF Put
  <2> QED
    BY <2>1, <2>2 DEF Received, Served
<1>4. Numbering
  BY <1>1, <1>2, <1>3 DEF Numbering, Numbers
<1>5. Stream /\ Serving
  BY <1>1, <1>2, <1>3
     DEF Stream, Serving, Chained, Heads, Below, FatalLast, Lasts, NoFatal
<1>6. Line
  BY <1>1, <1>4, <1>5, EmptySeq DEF Line
<1>7. Reading
  BY <1>1, EmptySeq DEF Reading
<1>8. Calling /\ Done
  BY <1>1, Names DEF Calling, Done
<1>9. Mining
  BY <1>1, Names DEF Mining, Wanted
<1> QED
  BY <1>6, <1>7, <1>8, <1>9, NotesInit DEF AnswerInv, CallPart

LEMMA AnswerStep ==
  ASSUME AnswerInv, [Next]_vars
  PROVE  AnswerInv'
PROOF
<1>1. /\ NotesInv /\ NotesTyped /\ Line /\ CallPart /\ Mining /\ Calling
  BY DEF AnswerInv, NotesInv, CallPart
<1>2. NotesInv' /\ Line'
  BY <1>1, NotesStep, LineStep
<1>3. CASE ReadPart
  <2>1. inbound # <<>>
    BY <1>3 DEF ReadPart, AtPart
  <2>2. Head(inbound) \in Items
    BY <1>1, <2>1, TailOf DEF NotesTyped
  <2>3. CallPart'
    BY <1>1, <1>3, <2>2, CallRead
  <2>4. Mining'
    BY <1>1, <1>3, ReadPartIs, MiningPart, MiningFatal
  <2> QED
    BY <1>2, <2>3, <2>4 DEF AnswerInv
<1>4. CASE Send
  BY <1>1, <1>2, <1>4, CallSend, MiningSend DEF AnswerInv
<1>5. CASE ~ReadPart /\ ~Send
  <2>1. CallPart' /\ Reads
    BY <1>1, <1>5, CallStep
  <2>2. Away \/ OtherSent \/ Answer
    BY <1>1, <1>5, OtherwiseIs
  <2>3. Mining'
    BY <1>1, <1>2, <2>1, <2>2, MiningAway, MiningOn
  <2> QED
    BY <1>2, <2>1, <2>3 DEF AnswerInv
<1> QED
  BY <1>3, <1>4, <1>5

LEMMA AnswerGives ==
  ASSUME AnswerInv
  PROVE  OwnAnswer
PROOF
<1>1. Reading /\ Done /\ Mining
  BY DEF AnswerInv, CallPart
<1>2. got \in Seq(Items) /\ DOMAIN got = 1..Len(got)
  BY <1>1, LenProperties DEF Reading
<1>3. ASSUME op \in Requests \cup {"next"}, ~Failed(got)
      PROVE  /\ \A i \in DOMAIN got : got[i].req = sent /\ got[i].n = i
             /\ ((outcome = "ok" /\ op # "open") \/ outcome = "end") => Complete(got)
  <2>1. op \in Calls
    BY <1>3 DEF Calls
  <2>2. ASSUME NEW i \in DOMAIN got
        PROVE  got[i].req = sent /\ got[i].n = i
    <3>1. i \in 1..Len(Mine) /\ got[i] = Mine[i]
      BY <1>1, <1>2, <2>2, MineEmptied
    <3>2. got[i].type # "fatal"
      BY <1>3, <2>2 DEF Failed
    <3> QED
      BY <1>1, <2>1, <3>1, <3>2 DEF Mining
  <2>3. ((outcome = "ok" /\ op # "open") \/ outcome = "end") => Complete(got)
    BY <1>1, <1>3, <2>1 DEF Done
  <2> QED
    BY <2>2, <2>3
<1> QED
  BY <1>3 DEF OwnAnswer

\* For any instance: what a call returns is its own response, from the first part to
\* the last, though earlier ones were abandoned by is_valid at its timeout or with a
\* RowIter (poll_block_on, block_on, RowIter).
THEOREM OwnAnswerCorrect == Spec => []OwnAnswer
PROOF
<1>1. Init => AnswerInv
  BY AnswerInit
<1>2. AnswerInv /\ [Next]_vars => AnswerInv'
  BY AnswerStep
<1>3. AnswerInv => OwnAnswer
  BY AnswerGives
<1> QED
  BY <1>1, <1>2, <1>3, PTL DEF Spec
=============================================================================
