--------------------------- MODULE TransactionProofs ---------------------------
(***************************************************************************)
(* Proofs about Transaction, for every number of requests, Transactions    *)
(* and writes: where each statement is executed, and what is kept of it.   *)
(***************************************************************************)
EXTENDS Transaction, SequenceTheorems, WellFoundedInduction, TLAPS

-----------------------------------------------------------------------------
(* Types                                                                   *)

RequestType == {"START", "SAVEPOINT", "WRITE", "COMMIT", "RELEASE", "ROLLBACK", "ROLLBACK TO"}
WireRequest == [type : RequestType, of : Nat, under : SUBSET Handle]
Savepoint == [name : Nat, work : SUBSET Writes]
Fate == {"unused", "live", "committing", "committed", "failed", "unknown", "discarded"}
PendingCall == [kind : {"none", "start", "savepoint", "commit", "rollback"},
                handle : Handle \cup {0}, name : Nat, answer : {"none", "ok", "err"}]

TypeOK ==
  /\ handles \in Seq(Handle)
  /\ point \in [Handle -> Nat]
  /\ fate \in [Handle -> Fate]
  /\ call \in PendingCall
  /\ created \in 0..MaxHandles
  /\ requests \in Nat
  /\ wire \in Seq(WireRequest)
  /\ alive \in BOOLEAN
  /\ tx \in {"idle", "open", "failed"}
  /\ saves \in Seq(Savepoint)
  /\ work \subseteq Writes /\ durable \subseteq Writes
  /\ under \in [Writes -> SUBSET Handle]
  /\ outcome \in [Writes -> {"unused", "sent", "ok", "failed"}]
  /\ faults \subseteq SUBSET Handle

-----------------------------------------------------------------------------
(* The Transactions in server time: each request carries those that were   *)
(* alive when it was sent, and requests are executed in order.             *)

Innermost(hs) == {h \in hs : \A g \in hs : g <= h}
Endings == {"COMMIT", "RELEASE", "ROLLBACK", "ROLLBACK TO"}

\* The Transactions that are alive once q has been executed.
After(q) == IF q.type \in Endings THEN q.under \ Innermost(q.under) ELSE q.under

\* Those that are alive where the server is.
Now == IF wire = <<>> THEN Live ELSE Incoming.under

\* The innermost Transactions of b have ended in a.
Within(a, b) == a \subseteq b /\ \A h \in a : \A g \in b : g <= h => g \in a

\* The live handles are a stack, the outermost of which is no savepoint.
Stacked ==
  /\ \A i, j \in 1..Len(handles) : i < j => handles[i] < handles[j]
  /\ \A h \in Live : h <= created /\ fate[h] = "live"
  /\ \A h \in Handle : h > created <=> fate[h] = "unused"
  /\ \A i \in 1..Len(handles) : point[handles[i]] = 0 <=> i = 1
  /\ \A w \in Writes : \A h \in under[w] : h <= created
  /\ \A hs \in faults : \A h \in hs : h <= created

\* The Transaction that q ends.
EndsPoint(q) ==
  \E h \in Innermost(q.under) : /\ point[h] = q.of /\ q.of # 0
                                /\ q.type = "RELEASE" => fate[h] \in {"committing", "unknown"}
                                /\ q.type = "ROLLBACK TO" => fate[h] = "discarded"
EndsWhole(q) ==
  \E h \in Handle : q.under = {h} /\ point[h] = 0 /\ fate[h] \in {"committing", "unknown"}

\* What a request on the wire is about.
RequestOK(q) ==
  /\ \A h \in q.under : h <= created
  /\ q.under # {} => \E h \in q.under : point[h] = 0
  /\ q.type = "START" => q.under = {}
  /\ q.type = "SAVEPOINT" => q.under # {}
  /\ q.type = "WRITE" => q.of \in Writes /\ under[q.of] = q.under /\ outcome[q.of] = "sent"
  /\ q.type \in {"RELEASE", "ROLLBACK TO"} => EndsPoint(q)
  /\ q.type = "COMMIT" => EndsWhole(q)
  /\ q.type = "ROLLBACK" => q.under = {} \/ \E h \in Handle : q.under = {h}

Elements(s) == {s[i] : i \in 1..Len(s)}

\* The requests of s follow each other, and hs are alive after the last.
Linked(s, hs) ==
  /\ \A i \in 1..Len(s) - 1 : s[i + 1].under = After(s[i])
  /\ s # <<>> => hs = After(s[Len(s)])
  /\ \A i, j \in 1..Len(s) : i < j => Within(s[j].under, After(s[i]))
  /\ \A i \in 1..Len(s) : Within(hs, After(s[i]))

\* Each makes a write of its own.
Distinct(s) ==
  \A i, j \in 1..Len(s) :
    s[i].type = "WRITE" /\ s[j].type = "WRITE" /\ i # j => s[i].of # s[j].of

\* Each request was sent where the one before it left the caller.
Chained ==
  /\ \A q \in Elements(wire) : RequestOK(q)
  /\ Linked(wire, Live)
  /\ Distinct(wire)

\* The last request is the one that a pending call waits for.
Awaited(q) ==
  /\ call.kind = "start" => q.type = "START"
  /\ call.kind = "savepoint" => q.type = "SAVEPOINT" /\ q.of = call.name
  /\ call.kind = "commit" => /\ q.type \in {"COMMIT", "RELEASE"}
                             /\ call.handle \in Innermost(q.under)

Calling ==
  /\ call.kind = "none" => call.answer = "none"
  /\ call.kind = "start" => handles = <<>> /\ call.name = 0
  /\ call.kind = "savepoint" => handles # <<>> /\ call.name # 0
  /\ call.kind = "commit" => /\ call.handle \in Handle /\ call.handle \notin Live
                             /\ fate[call.handle] = "committing"
  /\ call.answer # "none" => wire = <<>>
  /\ alive /\ call.kind # "none" /\ call.answer = "none" =>
       wire # <<>> /\ Awaited(wire[Len(wire)])
  /\ ~alive => wire = <<>> /\ tx = "idle" /\ (call.kind # "none" => call.answer # "none")

\* The server is in a transaction where the caller was in one.
InPlace ==
  /\ tx = "idle" => saves = <<>> /\ work = {}
  /\ alive =>
       /\ tx = "idle" => Now = {}
       /\ tx # "idle" /\ Now = {} =>
            \/ wire # <<>> /\ Incoming.type = "ROLLBACK"
            \/ wire = <<>> /\ call.kind = "start" /\ call.answer = "ok"
       /\ call.kind = "start" /\ call.answer = "ok" => tx = "open"
  /\ \A i \in 1..Len(wire) : wire[i].type = "START" =>
       IF i < Len(wire) THEN wire[i + 1].type = "ROLLBACK"
                        ELSE call.kind = "start" /\ call.answer = "none"

PlaceInv == TypeOK /\ Stacked /\ Chained /\ Calling /\ InPlace

-----------------------------------------------------------------------------
(* The data                                                                *)

\* No name is given twice among enclosing savepoints.
Named ==
  /\ Len(handles) <= created
  /\ \A i \in 2..Len(handles) : point[handles[i]] = i - 1 \/ point[handles[i]] \in UserNames
  /\ \A g, h \in Live : g # h => point[g] # point[h]
  /\ call.kind = "savepoint" => /\ call.name = Len(handles) \/ call.name \in UserNames
                                /\ \A h \in Live : point[h] # call.name
  /\ \A q \in Elements(wire) : q.type = "SAVEPOINT" => \A h \in q.under : point[h] # q.of

\* A write is made in all the Transactions that enclose one it is made in.
Nested == \A w \in Writes : \A h \in under[w] \cap Now : \A g \in Now : g <= h => g \in under[w]

\* No rollback of one of hs has been executed.
Kept(hs) == \A h \in hs : h \in Now \/ fate[h] # "discarded"

\* The changes made so far in the transaction that the server is in.
Working ==
  alive => work = {w \in Writes : outcome[w] = "ok" /\ under[w] \cap Now # {} /\ Kept(under[w])}

\* p is the savepoint of s that the name n stands for.
At(s, p, n) ==
  /\ p \in 1..Len(s) /\ s[p].name = n
  /\ \A q \in 1..Len(s) : s[q].name = n => q <= p

\* At the savepoint of h there were the changes that were not made in h.
Point(h) == \E p \in 1..Len(saves) : /\ At(saves, p, point[h])
                                     /\ saves[p].work = {w \in work : h \notin under[w]}
Saved ==
  alive =>
    /\ \A h \in Now : point[h] # 0 => Point(h)
    /\ \A g, h \in Now : g < h /\ point[g] # 0 /\ point[h] # 0 =>
         \A p, q \in 1..Len(saves) : At(saves, p, point[g]) /\ At(saves, q, point[h]) => p < q
    /\ call.kind = "savepoint" /\ call.answer = "ok" =>
         /\ saves # <<>> /\ saves[Len(saves)].name = call.name
         /\ saves[Len(saves)].work = work

\* What is durable stays so: nobody is left who could roll it back.
Durable ==
  \A w \in durable : outcome[w] = "ok" /\ \A h \in under[w] : fate[h] # "discarded" /\ h \notin Live

\* A transaction fails with a statement that no rollback has undone.
Faulty ==
  alive /\ tx = "failed" /\ Now # {} =>
    \E hs \in faults : Kept(hs) /\ \E h \in hs \cap Now : point[h] = 0

\* h has been committed, or is about to be told so.
Agreed(h) ==
  fate[h] = "committed" \/ (call.kind = "commit" /\ call.handle = h /\ call.answer = "ok")

Committed ==
  \A h \in Handle : Agreed(h) /\ point[h] = 0 =>
    /\ h \notin Now
    /\ \/ Changes(h) \subseteq durable
       \/ \E hs \in faults : h \in hs /\ \A g \in hs : fate[g] # "discarded" /\ g \notin Live

DataInv == PlaceInv /\ Named /\ Nested /\ Working /\ Saved /\ Durable /\ Faulty /\ Committed
-----------------------------------------------------------------------------
(* Stacks and chains                                                       *)

\* Handles are numbers.
LEMMA HandleNat == Handle \subseteq Nat \ {0} /\ Writes \subseteq Nat \ {0}
BY TransactionAssumption DEF Handle, Writes

\* The innermost of a set is alone.
LEMMA OneInnermost ==
  ASSUME NEW hs \in SUBSET Handle, NEW h \in Innermost(hs)
  PROVE  h \in hs /\ Innermost(hs) = {h} /\ \A g \in hs : g <= h
<1>1. \A g \in hs : g \in Nat
  BY HandleNat
<1>2. h \in hs /\ \A g \in hs : g <= h
  BY DEF Innermost
<1>3. \A k \in Innermost(hs) : k \in hs /\ h <= k
  BY <1>2 DEF Innermost
<1>4. \A k \in Innermost(hs) : k = h
  BY <1>1, <1>2, <1>3, SMT
<1> QED BY <1>2, <1>4

\* What is alive after a request is a part of what was, without its innermost.
LEMMA AfterWithin ==
  ASSUME NEW q \in WireRequest
  PROVE  After(q) \in SUBSET Handle /\ Within(After(q), q.under)
<1>1. q.under \in SUBSET Handle
  BY DEF WireRequest
<1>2. \A h \in q.under \ Innermost(q.under) : \A g \in q.under : g <= h => g \notin Innermost(q.under)
  <2>1. SUFFICES ASSUME NEW h \in q.under, NEW g \in q.under, g <= h, g \in Innermost(q.under)
                 PROVE  h \in Innermost(q.under)
    OBVIOUS
  <2>2. \A k \in q.under : k <= g
    BY <2>1 DEF Innermost
  <2>3. \A k \in q.under : k <= h
    <3>1. \A k \in q.under : k \in Nat
      BY <1>1, HandleNat
    <3> QED BY <2>1, <2>2, <3>1, SMT
  <2> QED BY <2>1, <2>3 DEF Innermost
<1> QED BY <1>1, <1>2 DEF After, Within

LEMMA WithinTrans ==
  ASSUME NEW a, NEW b, NEW c, Within(a, b), Within(b, c)
  PROVE  Within(a, c)
BY DEF Within

\* A request sent where the chain ends extends it.
LEMMA LinkedAppend ==
  ASSUME NEW s \in Seq(WireRequest), NEW q \in WireRequest, Linked(s, q.under)
  PROVE  Linked(Append(s, q), After(q))
<1> DEFINE t == Append(s, q)
<1>1. Len(s) \in Nat /\ Len(t) = Len(s) + 1 /\ t[Len(s) + 1] = q /\ \A i \in 1..Len(s) : t[i] = s[i]
  BY AppendProperties
<1>2. ASSUME NEW i \in 1..Len(t) - 1 PROVE t[i + 1].under = After(t[i])
  <2>1. CASE i < Len(s)
    BY <1>1, <1>2, <2>1, SMT DEF Linked
  <2>2. CASE i = Len(s)
    <3>1. i \in 1..Len(s) /\ s # <<>>
      BY <1>1, <1>2, <2>2, SMT
    <3> QED BY <1>1, <2>2, <3>1 DEF Linked
  <2> QED BY <1>1, <1>2, <2>1, <2>2, SMT
<1>3. t[Len(t)] = q
  BY <1>1
<1>4. ASSUME NEW i \in 1..Len(t), NEW j \in 1..Len(t), i < j PROVE Within(t[j].under, After(t[i]))
  <2>1. i \in 1..Len(s)
    BY <1>1, <1>4, SMT
  <2>2. CASE j \in 1..Len(s)
    BY <1>1, <1>4, <2>1, <2>2 DEF Linked
  <2>3. CASE j = Len(s) + 1
    BY <1>1, <2>1, <2>3 DEF Linked
  <2> QED BY <1>1, <1>4, <2>2, <2>3, SMT
<1>5. ASSUME NEW i \in 1..Len(t) PROVE Within(After(q), After(t[i]))
  <2>1. CASE i \in 1..Len(s)
    <3>1. Within(q.under, After(s[i]))
      BY <2>1 DEF Linked
    <3> QED BY <1>1, <2>1, <3>1, AfterWithin, WithinTrans
  <2>2. CASE i = Len(s) + 1
    BY <1>1, <2>2 DEF Within
  <2> QED BY <1>1, <1>5, <2>1, <2>2, SMT
<1> QED BY <1>2, <1>3, <1>4, <1>5 DEF Linked

\* Once a request is executed, the next was sent where it left the caller.
LEMMA LinkedTail ==
  ASSUME NEW s \in Seq(WireRequest), NEW hs, Linked(s, hs), s # <<>>
  PROVE  /\ Linked(Tail(s), hs)
         /\ Tail(s) = <<>> => hs = After(Head(s))
         /\ Tail(s) # <<>> => Head(Tail(s)).under = After(Head(s))
<1> DEFINE t == Tail(s)
<1>1. /\ Len(s) \in Nat \ {0} /\ t \in Seq(WireRequest) /\ Head(s) = s[1]
      /\ Len(t) = Len(s) - 1 /\ \A i \in 1..Len(t) : t[i] = s[i + 1]
  BY HeadTailProperties, EmptySeq
<1>2. ASSUME NEW i \in 1..Len(t) PROVE i + 1 \in 1..Len(s) /\ t[i] = s[i + 1]
  BY <1>1, <1>2, SMT
<1>3. ASSUME NEW i \in 1..Len(t) - 1 PROVE t[i + 1].under = After(t[i])
  <2>1. i \in 1..Len(t) /\ i + 1 \in 1..Len(t) /\ i + 1 \in 1..Len(s) - 1
    BY <1>1, <1>3, SMT
  <2> QED BY <1>2, <2>1 DEF Linked
<1>4. t # <<>> => hs = After(t[Len(t)])
  <2>1. SUFFICES ASSUME t # <<>> PROVE hs = After(t[Len(t)])
    OBVIOUS
  <2>2. Len(t) \in 1..Len(t)
    BY <1>1, <2>1, EmptySeq, SMT
  <2>3. t[Len(t)] = s[Len(s)]
    BY <1>1, <1>2, <2>2, SMT
  <2> QED BY <2>3 DEF Linked
<1>5. ASSUME NEW i \in 1..Len(t), NEW j \in 1..Len(t), i < j PROVE Within(t[j].under, After(t[i]))
  <2>1. i + 1 < j + 1
    BY <1>1, <1>5, SMT
  <2> QED BY <1>2, <1>5, <2>1 DEF Linked
<1>6. \A i \in 1..Len(t) : Within(hs, After(t[i]))
  BY <1>2 DEF Linked
<1>7. t = <<>> => hs = After(Head(s))
  <2>1. SUFFICES ASSUME t = <<>> PROVE hs = After(s[1])
    BY <1>1
  <2>2. Len(s) = 1
    BY <1>1, <2>1, EmptySeq, SMT
  <2> QED BY <2>2 DEF Linked
<1>8. t # <<>> => Head(t).under = After(Head(s))
  <2>1. SUFFICES ASSUME t # <<>> PROVE Head(t).under = After(s[1])
    BY <1>1
  <2>2. 1 \in 1..Len(t) /\ 1 \in 1..Len(s) - 1 /\ Head(t) = t[1]
    BY <1>1, <2>1, EmptySeq, SMT
  <2> QED BY <1>2, <2>2 DEF Linked
<1> QED BY <1>3, <1>4, <1>5, <1>6, <1>7, <1>8 DEF Linked

LEMMA DistinctAppend ==
  ASSUME NEW s \in Seq(WireRequest), NEW q \in WireRequest, Distinct(s),
         q.type = "WRITE" => \A i \in 1..Len(s) : s[i].type = "WRITE" => s[i].of # q.of
  PROVE  Distinct(Append(s, q))
<1> DEFINE t == Append(s, q)
<1>1. Len(s) \in Nat /\ Len(t) = Len(s) + 1 /\ t[Len(s) + 1] = q /\ \A i \in 1..Len(s) : t[i] = s[i]
  BY AppendProperties
<1>2. \A i \in 1..Len(t) : i \in 1..Len(s) \/ i = Len(s) + 1
  BY <1>1, SMT
<1> QED BY <1>1, <1>2 DEF Distinct

LEMMA DistinctTail ==
  ASSUME NEW s \in Seq(WireRequest), Distinct(s), s # <<>>
  PROVE  /\ Distinct(Tail(s))
         /\ Head(s).type = "WRITE" =>
              \A i \in 1..Len(Tail(s)) : Tail(s)[i].type = "WRITE" => Tail(s)[i].of # Head(s).of
<1> DEFINE t == Tail(s)
<1>1. /\ Len(s) \in Nat \ {0} /\ Head(s) = s[1]
      /\ Len(t) = Len(s) - 1 /\ \A i \in 1..Len(t) : t[i] = s[i + 1]
  BY HeadTailProperties, EmptySeq
<1>2. \A i \in 1..Len(t) : i + 1 \in 1..Len(s) /\ i + 1 # 1 /\ t[i] = s[i + 1]
  BY <1>1, SMT
<1>3. 1 \in 1..Len(s) /\ \A i, j \in 1..Len(t) : i # j => i + 1 # j + 1
  BY <1>1, SMT
<1> QED BY <1>1, <1>2, <1>3 DEF Distinct

\* What appending or dropping a handle does to the set of them.
LEMMA LiveElements == Live = Elements(handles)
BY DEF Live, Elements

LEMMA ElementsAppend ==
  ASSUME NEW S, NEW s \in Seq(S), NEW h \in S
  PROVE  Elements(Append(s, h)) = Elements(s) \cup {h} /\ Elements(s) \subseteq S
<1>1. /\ Len(s) \in Nat /\ Len(Append(s, h)) = Len(s) + 1 /\ Append(s, h)[Len(s) + 1] = h
      /\ \A i \in 1..Len(s) : Append(s, h)[i] = s[i]
  BY AppendProperties
<1>2. 1..Len(s) + 1 = 1..Len(s) \cup {Len(s) + 1}
  BY <1>1, SMT
<1> QED BY <1>1, <1>2 DEF Elements

Rising(s) == \A i, j \in 1..Len(s) : i < j => s[i] < s[j]

LEMMA ElementsOuter ==
  ASSUME NEW s \in Seq(Handle), s # <<>>, Rising(s)
  PROVE  LET o == SubSeq(s, 1, Len(s) - 1)
             h == s[Len(s)]
         IN  /\ o \in Seq(Handle) /\ Len(o) = Len(s) - 1 /\ \A i \in 1..Len(o) : o[i] = s[i]
             /\ h \in Elements(s) /\ h \in Handle
             /\ Innermost(Elements(s)) = {h}
             /\ Elements(o) = Elements(s) \ {h}
<1> DEFINE o == SubSeq(s, 1, Len(s) - 1)
<1> DEFINE h == s[Len(s)]
<1>1. Len(s) \in Nat \ {0} /\ Len(s) \in 1..Len(s)
  BY EmptySeq, SMT
<1>2. 1..Len(s) - 1 = 1..Len(s) \ {Len(s)}
  BY <1>1, SMT
<1>3. o \in Seq(Handle) /\ Len(o) = Len(s) - 1 /\ \A i \in 1..Len(o) : o[i] = s[i]
  <2>1. 1 \in 1..Len(s) + 1 /\ Len(s) - 1 \in 1 - 1..Len(s) /\ Len(s) - 1 - 1 + 1 = Len(s) - 1
        /\ \A i \in 1..Len(s) - 1 : 1 + i - 1 = i
    BY <1>1, SMT
  <2> QED BY <2>1, SubSeqProperties
<1>4. \A i \in 1..Len(s) : s[i] \in Handle /\ s[i] \in Nat
  <2>1. \A i \in 1..Len(s) : s[i] \in Handle
    BY ElementOfSeq
  <2> QED BY <2>1, HandleNat
<1>5. \A i \in 1..Len(s) : i # Len(s) => s[i] < h
  <2>1. \A i \in 1..Len(s) : i # Len(s) => i < Len(s)
    BY <1>1, SMT
  <2> QED BY <1>1, <2>1 DEF Rising
<1>6. \A i \in 1..Len(s) : s[i] <= h /\ (i # Len(s) => s[i] # h)
  BY <1>1, <1>4, <1>5, SMT
<1>7. h \in Elements(s) /\ h \in Handle
  BY <1>1, <1>4 DEF Elements
<1>8. Elements(o) = Elements(s) \ {h}
  BY <1>1, <1>2, <1>3, <1>6 DEF Elements
<1>9. h \in Innermost(Elements(s))
  BY <1>6, <1>7 DEF Innermost, Elements
<1>10. Elements(s) \in SUBSET Handle
  BY <1>4 DEF Elements
<1> QED BY <1>3, <1>7, <1>8, <1>9, <1>10, OneInnermost

\* A bounded set of positions has a last one.
LEMMA LastOne ==
  ASSUME NEW n \in Nat, NEW T \in SUBSET (1..n), T # {}
  PROVE  \E m \in T : \A k \in T : k <= m
<1> DEFINE R == {ss \in Nat \X Nat : ss[1] < ss[2]}
<1> DEFINE D == {n - t : t \in T}
<1>1. IsWellFoundedOn(R, Nat)
  BY NatLessThanWellFounded DEF OpToRel
<1>2. \A t \in T : t \in Nat /\ n - t \in Nat
  BY SMT
<1>3. D \subseteq Nat /\ D # {}
  BY <1>2
<1>4. PICK x \in D : \A y \in D : ~(<<y, x>> \in R)
  <2> HIDE DEF R, D
  <2> QED BY <1>1, <1>3, WFMin
<1>5. PICK m \in T : x = n - m
  OBVIOUS
<1>6. \A k \in T : ~(n - k < n - m)
  <2>1. SUFFICES ASSUME NEW k \in T, n - k < n - m PROVE FALSE
    OBVIOUS
  <2>2. n - k \in D /\ <<n - k, n - m>> \in Nat \X Nat
    BY <1>2
  <2>3. <<n - k, x>> \in R
    BY <1>5, <2>1, <2>2
  <2> QED BY <1>4, <2>2, <2>3
<1>7. \A k \in T : k <= m
  BY <1>2, <1>6, SMT
<1> QED BY <1>7

-----------------------------------------------------------------------------
(* What sending and executing do to the wire                               *)

LEMMA InitPlace ==
  ASSUME Init
  PROVE  PlaceInv
<1>1. TypeOK
  <2>1. MaxHandles \in Nat /\ 0 \in 0..MaxHandles
    BY TransactionAssumption, SMT
  <2>2. call \in PendingCall
    BY DEF Init, NoCall, PendingCall
  <2>3. handles \in Seq(Handle) /\ wire \in Seq(WireRequest) /\ saves \in Seq(Savepoint)
    BY DEF Init
  <2> QED BY <2>1, <2>2, <2>3 DEF Init, TypeOK, Fate
<1>2. Stacked
  <2>1. Live = {} /\ Len(handles) = 0
    BY DEF Init, Live
  <2>2. \A h \in Handle : h > 0
    BY HandleNat, SMT
  <2> QED BY <2>1, <2>2 DEF Init, Stacked
<1>3. wire = <<>> /\ Len(wire) = 0 /\ Live = {}
  BY DEF Init, Live
<1>4. Chained
  BY <1>3 DEF Chained, Linked, Distinct, Elements
<1>5. Calling
  BY <1>3 DEF Init, Calling, NoCall
<1>6. InPlace
  BY <1>3 DEF Init, InPlace, Now, NoCall
<1> QED BY <1>1, <1>2, <1>4, <1>5, <1>6 DEF PlaceInv

\* The last handle is the innermost of the live ones.
LEMMA Top ==
  ASSUME TypeOK, Stacked, handles # <<>>
  PROVE  /\ Current \in Handle /\ Current \in Live /\ Innermost(Live) = {Current}
         /\ fate[Current] = "live"
         /\ Outer \in Seq(Handle) /\ Len(Outer) = Len(handles) - 1
         /\ \A i \in 1..Len(Outer) : Outer[i] = handles[i]
         /\ Elements(Outer) = Live \ {Current}
         /\ point[Current] = 0 => Live = {Current}
<1>1. handles \in Seq(Handle) /\ Rising(handles)
  BY DEF TypeOK, Stacked, Rising
<1>2. point[Current] = 0 => Live = {Current}
  <2>1. Len(handles) \in 1..Len(handles) /\ 1..1 = {1}
    BY <1>1, EmptySeq, SMT
  <2>2. point[Current] = 0 => Len(handles) = 1
    BY <2>1 DEF Stacked, Current
  <2> QED BY <2>1, <2>2 DEF Live, Current
<1> QED BY <1>1, <1>2, ElementsOuter, LiveElements DEF Current, Outer, Stacked

\* A request on the wire keeps its meaning while its write and its Transactions' fates do.
LEMMA RequestFrame ==
  ASSUME NEW r \in WireRequest, RequestOK(r), created' = created, point' = point,
         r.type = "WRITE" => under'[r.of] = under[r.of] /\ outcome'[r.of] = outcome[r.of],
         \A h \in Handle :
           /\ fate[h] \in {"committing", "unknown"} => fate'[h] \in {"committing", "unknown"}
           /\ fate[h] = "discarded" => fate'[h] = "discarded"
  PROVE  RequestOK(r)'
<1>1. r.under \subseteq Handle /\ Innermost(r.under) \subseteq Handle
  BY DEF WireRequest, Innermost
<1>2. r.type \in {"RELEASE", "ROLLBACK TO"} => EndsPoint(r)'
  <2>1. SUFFICES ASSUME EndsPoint(r) PROVE EndsPoint(r)'
    BY DEF RequestOK
  <2>2. PICK h \in Innermost(r.under) :
               /\ point[h] = r.of /\ r.of # 0
               /\ r.type = "RELEASE" => fate[h] \in {"committing", "unknown"}
               /\ r.type = "ROLLBACK TO" => fate[h] = "discarded"
    BY <2>1 DEF EndsPoint
  <2>3. h \in Handle
    BY <1>1
  <2>4. /\ point'[h] = r.of /\ r.of # 0
        /\ r.type = "RELEASE" => fate'[h] \in {"committing", "unknown"}
        /\ r.type = "ROLLBACK TO" => fate'[h] = "discarded"
    BY <2>2, <2>3
  <2> QED BY <2>2, <2>4 DEF EndsPoint
<1>3. r.type = "COMMIT" => EndsWhole(r)'
  BY DEF RequestOK, EndsWhole
<1>4. /\ \A h \in r.under : h <= created'
      /\ r.under # {} => \E h \in r.under : point'[h] = 0
      /\ r.type = "START" => r.under = {}
      /\ r.type = "SAVEPOINT" => r.under # {}
      /\ r.type = "WRITE" => r.of \in Writes /\ under'[r.of] = r.under /\ outcome'[r.of] = "sent"
      /\ r.type = "ROLLBACK" => r.under = {} \/ \E h \in Handle : r.under = {h}
  BY DEF RequestOK
<1> QED BY <1>2, <1>3, <1>4 DEF RequestOK

\* What sending q does: nothing once the connection is closed.
Extends(q) ==
  /\ wire' \in Seq(WireRequest) /\ requests' \in Nat /\ alive' = alive
  /\ alive => /\ Now' = Now /\ wire' # <<>>
              /\ Len(wire') = Len(wire) + 1 /\ wire'[Len(wire')] = q
              /\ \A i \in 1..Len(wire) : wire'[i] = wire[i]
              /\ wire # <<>> => Incoming' = Incoming
              /\ wire = <<>> => Incoming' = q
  /\ ~alive => wire' = <<>> /\ wire = <<>>

\* Sending a request extends the wire and leaves the server where it is.
LEMMA Sending ==
  ASSUME PlaceInv, NEW q \in WireRequest, Send(q), q.under = Live, Live' = After(q),
         RequestOK(q)', \A r \in WireRequest : RequestOK(r) => RequestOK(r)',
         q.type = "WRITE" => outcome[q.of] = "unused"
  PROVE  Chained' /\ Extends(q)
<1>1. wire \in Seq(WireRequest) /\ requests \in Nat /\ alive \in BOOLEAN
  BY DEF PlaceInv, TypeOK
<1>2. requests' \in Nat /\ alive' = alive
  BY <1>1, SMT DEF Send
<1>3. CASE ~alive
  <2>1. wire = <<>> /\ wire' = <<>> /\ Len(wire') = 0
    BY <1>3 DEF PlaceInv, Calling, Send
  <2>2. Chained'
    BY <2>1 DEF Chained, Linked, Distinct, Elements
  <2> QED BY <1>2, <1>3, <2>1, <2>2 DEF Extends
<1>4. CASE alive
  <2>1. wire' = Append(wire, q)
    BY <1>4 DEF Send
  <2>2. /\ wire' \in Seq(WireRequest) /\ Len(wire) \in Nat /\ Len(wire') = Len(wire) + 1
        /\ wire'[Len(wire) + 1] = q /\ \A i \in 1..Len(wire) : wire'[i] = wire[i]
    BY <1>1, <2>1, AppendProperties
  <2>3. Linked(wire', Live')
    BY <1>1, <2>1, LinkedAppend DEF PlaceInv, Chained
  <2>4. \A i \in 1..Len(wire) : wire[i].type = "WRITE" => outcome[wire[i].of] = "sent"
    BY DEF PlaceInv, Chained, RequestOK, Elements
  <2>5. Distinct(wire')
    BY <1>1, <2>1, <2>4, DistinctAppend DEF PlaceInv, Chained
  <2>6. \A r \in Elements(wire)' : RequestOK(r)'
    <3>1. Elements(wire') = Elements(wire) \cup {q} /\ Elements(wire) \subseteq WireRequest
      BY <1>1, <2>1, ElementsAppend
    <3> QED BY <3>1 DEF PlaceInv, Chained
  <2>7. wire' # <<>>
    BY <1>1, <2>1, AppendProperties
  <2>8. wire # <<>> => Head(wire') = Head(wire)
    <3>1. SUFFICES ASSUME wire # <<>> PROVE Head(wire') = Head(wire)
      OBVIOUS
    <3>2. 1 \in 1..Len(wire)
      BY <1>1, <3>1, EmptySeq, SMT
    <3> QED BY <1>1, <2>2, <2>7, <3>1, <3>2, HeadTailProperties
  <2>9. wire = <<>> => Head(wire') = q
    <3>1. SUFFICES ASSUME wire = <<>> PROVE Head(wire') = q
      OBVIOUS
    <3>2. Len(wire) = 0
      BY <3>1
    <3> QED BY <2>2, <2>7, <3>2, HeadTailProperties
  <2>10. Now' = Now
    BY <2>7, <2>8, <2>9 DEF Now, Incoming
  <2> QED BY <1>2, <1>4, <2>2, <2>3, <2>5, <2>6, <2>7, <2>8, <2>9, <2>10
         DEF Chained, Incoming, Extends
<1> QED BY <1>1, <1>3, <1>4

\* While nothing executes, the server stays in place.
LEMMA SendInPlace ==
  ASSUME PlaceInv, NEW q \in WireRequest, Extends(q), UNCHANGED <<tx, saves, work>>,
         \/ q.type = "ROLLBACK"
         \/ call.kind # "start" /\ q.type # "START"
         \/ call.kind # "start" /\ (alive => call'.kind = "start" /\ call'.answer = "none"),
         call'.kind = "start" => call'.answer # "ok"
  PROVE  InPlace'
<1>1. wire \in Seq(WireRequest) /\ Len(wire) \in Nat /\ alive \in BOOLEAN
  BY DEF PlaceInv, TypeOK
<1>2. InPlace
  BY DEF PlaceInv
<1>3. CASE ~alive
  <2>1. Len(wire') = 0 /\ alive' = alive
    BY <1>3 DEF Extends
  <2> QED BY <1>2, <1>3, <2>1 DEF InPlace
<1>4. CASE alive
  <2>1. tx' # "idle" /\ Now' = {} => wire' # <<>> /\ Incoming'.type = "ROLLBACK"
    BY <1>2, <1>4 DEF InPlace, Extends
  <2>2. \A i \in 1..Len(wire') : i \in 1..Len(wire) \/ i = Len(wire')
    BY <1>1, <1>4, SMT DEF Extends
  <2>3. ASSUME NEW i \in 1..Len(wire), wire[i].type = "START"
        PROVE  i < Len(wire') /\ wire'[i + 1].type = "ROLLBACK"
    <3>1. i < Len(wire') /\ (i < Len(wire) => i + 1 \in 1..Len(wire))
      BY <1>1, <1>4, <2>3, SMT DEF Extends
    <3>2. CASE i < Len(wire)
      BY <1>2, <1>4, <2>3, <3>1, <3>2 DEF InPlace, Extends
    <3>3. CASE ~(i < Len(wire))
      <4>1. i + 1 = Len(wire')
        BY <1>1, <1>4, <2>3, <3>3, SMT DEF Extends
      <4>2. call.kind = "start"
        BY <1>2, <2>3, <3>3 DEF InPlace
      <4> QED BY <1>4, <3>1, <4>1, <4>2 DEF Extends
    <3> QED BY <3>2, <3>3
  <2>4. \A i \in 1..Len(wire') : wire'[i].type = "START" =>
          IF i < Len(wire') THEN wire'[i + 1].type = "ROLLBACK"
                            ELSE call'.kind = "start" /\ call'.answer = "none"
    <3>1. SUFFICES ASSUME NEW i \in 1..Len(wire'), wire'[i].type = "START"
                   PROVE  IF i < Len(wire') THEN wire'[i + 1].type = "ROLLBACK"
                            ELSE call'.kind = "start" /\ call'.answer = "none"
      OBVIOUS
    <3>2. CASE i \in 1..Len(wire)
      BY <1>4, <2>3, <3>1, <3>2 DEF Extends
    <3>3. CASE i = Len(wire')
      <4>1. ~(i < Len(wire'))
        BY <1>1, <1>4, <3>3, SMT DEF Extends
      <4> QED BY <1>4, <3>1, <3>3, <4>1 DEF Extends
    <3> QED BY <2>2, <3>2, <3>3
  <2> QED BY <1>2, <1>4, <2>1, <2>4 DEF InPlace, Extends
<1> QED BY <1>1, <1>3, <1>4

-----------------------------------------------------------------------------
(* The client's steps                                                      *)

LEMMA LiveFacts ==
  ASSUME TypeOK, Stacked
  PROVE  /\ Live \in SUBSET Handle
         /\ Live = {} <=> handles = <<>>
         /\ \A h \in Live : h <= created /\ fate[h] = "live"
         /\ Live # {} => \E h \in Live : point[h] = 0
<1>1. handles \in Seq(Handle) /\ Len(handles) \in Nat
  BY DEF TypeOK
<1>2. \A i \in 1..Len(handles) : handles[i] \in Handle
  BY <1>1, ElementOfSeq
<1>3. Live = {} <=> handles = <<>>
  <2>1. handles # <<>> => 1 \in 1..Len(handles)
    BY <1>1, EmptySeq, SMT
  <2>2. handles = <<>> => 1..Len(handles) = {}
    BY SMT
  <2>3. 1..Len(handles) = {} => handles = <<>>
    BY <2>1
  <2>4. Live = {} <=> 1..Len(handles) = {}
    BY DEF Live
  <2> QED BY <2>2, <2>3, <2>4
<1>4. Live # {} => \E h \in Live : point[h] = 0
  <2>1. SUFFICES ASSUME handles # <<>> PROVE \E h \in Live : point[h] = 0
    BY <1>3
  <2>2. 1 \in 1..Len(handles)
    BY <1>1, <2>1, EmptySeq, SMT
  <2> QED BY <2>2 DEF Stacked, Live
<1> QED BY <1>2, <1>3, <1>4 DEF Stacked, Live

LEMMA RequestShape ==
  ASSUME TypeOK, Stacked, NEW t \in RequestType, NEW n \in Nat
  PROVE  \E q \in WireRequest :
           q = Request(t, n) /\ q.type = t /\ q.of = n /\ q.under = Live
<1>1. Request(t, n) \in WireRequest
  BY LiveFacts DEF Request, WireRequest
<1>2. Request(t, n).type = t /\ Request(t, n).of = n /\ Request(t, n).under = Live
  BY DEF Request
<1> QED BY <1>1, <1>2

\* What all requests sent now have in common.
LEMMA RequestSent ==
  ASSUME TypeOK, Stacked, NEW q \in WireRequest, q.under = Live,
         created' = created, point' = point,
         q.type = "START" => Live = {},
         q.type = "SAVEPOINT" => Live # {},
         q.type = "WRITE" => q.of \in Writes /\ under'[q.of] = Live /\ outcome'[q.of] = "sent",
         q.type \in {"RELEASE", "ROLLBACK TO"} => EndsPoint(q)',
         q.type = "COMMIT" => EndsWhole(q)',
         q.type = "ROLLBACK" => Live = {} \/ \E h \in Handle : Live = {h}
  PROVE  RequestOK(q)'
BY LiveFacts DEF RequestOK

LEMMA StackFrame ==
  ASSUME Stacked, UNCHANGED <<handles, point, fate, created, under, faults>>
  PROVE  Stacked' /\ Live' = Live
BY DEF Stacked, Live

\* A call that has been sent is answered "err" at once when the connection is closed.
LEMMA AwaitType ==
  ASSUME TypeOK, NEW k \in {"start", "savepoint", "commit", "rollback"},
         NEW h \in Handle \cup {0}, NEW n \in Nat, Await(Call(k, h, n))
  PROVE  /\ call' \in PendingCall
         /\ call'.kind = k /\ call'.handle = h /\ call'.name = n
         /\ call'.answer = IF alive THEN "none" ELSE "err"
BY DEF Await, Call, PendingCall

\* The last request on the wire is the one awaited.
LEMMA SendCalling ==
  ASSUME PlaceInv, NEW q \in WireRequest, Extends(q), tx' = tx,
         call'.answer = IF alive \/ call'.kind = "none" THEN "none" ELSE "err",
         call'.kind = "start" => handles' = <<>> /\ call'.name = 0 /\ q.type = "START",
         call'.kind = "savepoint" => /\ handles' # <<>> /\ call'.name # 0
                                     /\ q.type = "SAVEPOINT" /\ q.of = call'.name,
         call'.kind = "commit" => /\ call'.handle \in Handle /\ call'.handle \notin Live'
                                  /\ fate'[call'.handle] = "committing"
                                  /\ q.type \in {"COMMIT", "RELEASE"}
                                  /\ call'.handle \in Innermost(q.under)
  PROVE  Calling'
<1>1. alive /\ call'.kind # "none" => Awaited(q)'
  BY DEF Awaited
<1>2. alive' = alive /\ (alive => wire'[Len(wire')] = q /\ wire' # <<>>)
  BY DEF Extends
<1>3. alive /\ call'.kind # "none" => Awaited(wire[Len(wire)])'
  BY <1>1, <1>2 DEF Awaited
<1>4. ~alive => tx' = "idle" /\ wire' = <<>>
  BY DEF PlaceInv, Calling, Extends
<1> QED BY <1>2, <1>3, <1>4 DEF Calling

LEMMA StartPlace ==
  ASSUME PlaceInv, Start
  PROVE  PlaceInv'
<1>1. TypeOK /\ Stacked /\ Live = {}
  BY LiveFacts DEF PlaceInv, Start
<1>2. PICK q \in WireRequest :
        q = Request("START", 0) /\ q.type = "START" /\ q.under = Live
  <2>1. "START" \in RequestType /\ 0 \in Nat
    BY DEF RequestType
  <2> QED BY <1>1, <2>1, RequestShape
<1>3. Send(q) /\ UNCHANGED <<handles, point, fate, created, serverVars, history>>
  BY <1>2 DEF Start
<1>4. Stacked' /\ Live' = Live /\ After(q) = Live
  BY <1>1, <1>2, <1>3, StackFrame DEF history, After, Endings
<1>5. RequestOK(q)'
  BY <1>1, <1>2, <1>3, RequestSent
<1>6. \A r \in WireRequest : RequestOK(r) => RequestOK(r)'
  BY <1>3, RequestFrame DEF history
<1>7. Chained' /\ Extends(q)
  BY <1>2, <1>3, <1>4, <1>5, <1>6, Sending
<1>8. /\ call' \in PendingCall /\ call'.kind = "start" /\ call'.name = 0
      /\ call'.answer = IF alive THEN "none" ELSE "err"
  BY <1>1, AwaitType DEF Start
<1>9. TypeOK'
  BY <1>1, <1>3, <1>7, <1>8 DEF TypeOK, serverVars, history, Extends
<1>10. Calling'
  BY <1>2, <1>3, <1>7, <1>8, SendCalling DEF serverVars, Start
<1>11. InPlace'
  BY <1>2, <1>3, <1>7, <1>8, SendInPlace DEF serverVars, Start, MayCall, Free
<1> QED BY <1>4, <1>7, <1>9, <1>10, <1>11 DEF PlaceInv

LEMMA NestPlace ==
  ASSUME PlaceInv, Nest
  PROVE  PlaceInv'
<1>1. TypeOK /\ Stacked /\ Live # {} /\ handles # <<>> /\ Free
  BY LiveFacts DEF PlaceInv, Nest, MayCall
<1>2. PICK n \in Names : Send(Request("SAVEPOINT", n)) /\ Await(Call("savepoint", 0, n))
  BY DEF Nest
<1>3. n \in Nat /\ n # 0
  <2>1. Len(handles) \in Nat /\ Len(handles) # 0
    BY <1>1, EmptySeq, SMT DEF TypeOK
  <2> QED BY <2>1, TransactionAssumption DEF Names, DefaultName
<1>4. PICK q \in WireRequest :
        q = Request("SAVEPOINT", n) /\ q.type = "SAVEPOINT" /\ q.of = n /\ q.under = Live
  <2>1. "SAVEPOINT" \in RequestType
    BY DEF RequestType
  <2> QED BY <1>1, <1>3, <2>1, RequestShape
<1>5. Send(q) /\ UNCHANGED <<handles, point, fate, created, serverVars, history>>
  BY <1>2, <1>4 DEF Nest
<1>6. Stacked' /\ Live' = Live /\ After(q) = Live
  BY <1>1, <1>4, <1>5, StackFrame DEF history, After, Endings
<1>7. RequestOK(q)'
  BY <1>1, <1>4, <1>5, RequestSent
<1>8. \A r \in WireRequest : RequestOK(r) => RequestOK(r)'
  BY <1>5, RequestFrame DEF history
<1>9. Chained' /\ Extends(q)
  BY <1>4, <1>5, <1>6, <1>7, <1>8, Sending
<1>10. /\ call' \in PendingCall /\ call'.kind = "savepoint" /\ call'.name = n
       /\ call'.answer = IF alive THEN "none" ELSE "err"
  BY <1>1, <1>2, <1>3, AwaitType
<1>11. TypeOK'
  BY <1>1, <1>5, <1>9, <1>10 DEF TypeOK, serverVars, history, Extends
<1>12. Calling'
  BY <1>1, <1>3, <1>4, <1>5, <1>9, <1>10, SendCalling DEF serverVars
<1>13. InPlace'
  BY <1>1, <1>4, <1>5, <1>9, <1>10, SendInPlace DEF serverVars, Free
<1> QED BY <1>6, <1>9, <1>11, <1>12, <1>13 DEF PlaceInv

LEMMA NotOpenedPlace ==
  ASSUME PlaceInv, NotOpened
  PROVE  PlaceInv'
<1>1. TypeOK /\ Stacked /\ Chained /\ Calling /\ InPlace
  BY DEF PlaceInv
<1>2. call' \in PendingCall /\ call'.kind = "none" /\ call'.answer = "none"
  BY DEF NotOpened, NoCall, PendingCall
<1>3. UNCHANGED <<handles, point, fate, created, serverVars, history>>
  BY DEF NotOpened
<1>4. Stacked' /\ Live' = Live
  BY <1>1, <1>3, StackFrame DEF history
<1>5. \A r \in WireRequest : RequestOK(r) => RequestOK(r)'
  BY <1>3, RequestFrame DEF history
<1>6. CASE call.kind = "start"
  <2>1. handles = <<>> /\ Live = {}
    BY <1>1, <1>6, LiveFacts DEF Calling
  <2>2. PICK q \in WireRequest :
          q = Request("ROLLBACK", 0) /\ q.type = "ROLLBACK" /\ q.under = Live
    <3>1. "ROLLBACK" \in RequestType /\ 0 \in Nat
      BY DEF RequestType
    <3> QED BY <1>1, <3>1, RequestShape
  <2>3. Send(q)
    BY <1>6, <2>2 DEF NotOpened, Cleaner
  <2>4. After(q) = Live
    BY <2>1, <2>2 DEF After, Innermost
  <2>5. RequestOK(q)'
    BY <1>1, <1>3, <2>1, <2>2, RequestSent
  <2>6. Chained' /\ Extends(q)
    BY <1>4, <1>5, <2>2, <2>3, <2>4, <2>5, Sending
  <2>7. TypeOK'
    BY <1>1, <1>2, <1>3, <2>6 DEF TypeOK, serverVars, history, Extends
  <2>8. Calling'
    BY <1>2, <1>3, <2>6, SendCalling DEF serverVars
  <2>9. InPlace'
    BY <1>2, <1>3, <2>2, <2>6, SendInPlace DEF serverVars
  <2> QED BY <1>4, <2>6, <2>7, <2>8, <2>9 DEF PlaceInv
<1>7. CASE call.kind # "start"
  <2>1. UNCHANGED <<requests, wire, alive, tx, saves, work, durable, under, outcome, faults>>
    BY <1>3, <1>7 DEF NotOpened, wireVars, serverVars, history
  <2>2. TypeOK'
    BY <1>1, <1>2, <1>3, <2>1 DEF TypeOK
  <2>3. Chained'
    <3>1. Elements(wire) \subseteq WireRequest
      <4>1. \A i \in 1..Len(wire) : wire[i] \in WireRequest
        BY <1>1, ElementOfSeq DEF TypeOK
      <4> QED BY <4>1 DEF Elements
    <3> QED BY <1>1, <1>4, <1>5, <2>1, <3>1 DEF Chained
  <2>4. Calling'
    BY <1>1, <1>2, <2>1 DEF Calling
  <2>5. InPlace'
    <3>1. Now' = Now /\ Incoming' = Incoming
      BY <1>4, <2>1 DEF Now, Incoming
    <3>2. InPlace /\ call.kind # "start" /\ call'.kind # "start"
      BY <1>1, <1>2, <1>7
    <3> QED BY <2>1, <3>1, <3>2 DEF InPlace
  <2> QED BY <1>4, <2>2, <2>3, <2>4, <2>5 DEF PlaceInv
<1> QED BY <1>6, <1>7

LEMMA WritePlace ==
  ASSUME PlaceInv, Write
  PROVE  PlaceInv'
<1>1. TypeOK /\ Stacked /\ Free
  BY DEF PlaceInv, Write, MayCall
<1>2. PICK w \in Writes :
        /\ \A v \in Writes : outcome[v] = "unused" <=> v >= w
        /\ Send(Request("WRITE", w))
        /\ under' = [under EXCEPT ![w] = Live]
        /\ outcome' = [outcome EXCEPT ![w] = "sent"]
  BY DEF Write
<1>3. w \in Nat /\ outcome[w] = "unused"
  <2>1. w \in Nat
    BY HandleNat
  <2>2. w >= w
    BY <2>1, SMT
  <2> QED BY <1>2, <2>1, <2>2
<1>4. PICK q \in WireRequest :
        q = Request("WRITE", w) /\ q.type = "WRITE" /\ q.of = w /\ q.under = Live
  <2>1. "WRITE" \in RequestType
    BY DEF RequestType
  <2> QED BY <1>1, <1>3, <2>1, RequestShape
<1>5. /\ Send(q)
      /\ UNCHANGED <<handles, point, fate, call, created, tx, saves, work, durable, faults>>
  BY <1>2, <1>4 DEF Write, clientVars, serverVars
<1>6. /\ under' \in [Writes -> SUBSET Handle] /\ under'[w] = Live
      /\ outcome' \in [Writes -> {"unused", "sent", "ok", "failed"}] /\ outcome'[w] = "sent"
      /\ \A v \in Writes : v # w => under'[v] = under[v] /\ outcome'[v] = outcome[v]
  BY <1>1, <1>2, LiveFacts DEF TypeOK
<1>7. Live' = Live /\ After(q) = Live
  BY <1>4, <1>5 DEF Live, After, Endings
<1>8. Stacked'
  <2>1. \A v \in Writes : \A h \in under'[v] : h <= created
    <3>1. SUFFICES ASSUME NEW v \in Writes PROVE \A h \in under'[v] : h <= created
      OBVIOUS
    <3>2. CASE v = w
      BY <1>1, <1>6, <3>2, LiveFacts
    <3>3. CASE v # w
      BY <1>1, <1>6, <3>3 DEF Stacked
    <3> QED BY <3>2, <3>3
  <2> QED BY <1>1, <1>5, <1>7, <2>1 DEF Stacked
<1>9. RequestOK(q)'
  BY <1>1, <1>4, <1>5, <1>6, RequestSent
<1>10. ASSUME NEW r \in WireRequest, RequestOK(r) PROVE RequestOK(r)'
  <2>1. r.type = "WRITE" => r.of \in Writes /\ outcome[r.of] = "sent"
    BY <1>10 DEF RequestOK
  <2>2. r.type = "WRITE" => r.of \in Writes /\ r.of # w
    BY <1>3, <2>1
  <2> QED BY <1>5, <1>6, <1>10, <2>2, RequestFrame
<1>11. Chained' /\ Extends(q)
  BY <1>3, <1>4, <1>5, <1>7, <1>9, <1>10, Sending
<1>12. TypeOK'
  BY <1>1, <1>5, <1>6, <1>11 DEF TypeOK, Extends
<1>13. call'.kind = "none" /\ call'.answer = "none"
  BY <1>1, <1>5 DEF Free, PlaceInv, Calling
<1>14. Calling'
  BY <1>5, <1>11, <1>13, SendCalling
<1>15. InPlace'
  BY <1>1, <1>4, <1>5, <1>11, <1>13, SendInPlace DEF Free
<1> QED BY <1>8, <1>11, <1>12, <1>14, <1>15 DEF PlaceInv

LEMMA OpenPlace ==
  ASSUME PlaceInv, Open
  PROVE  PlaceInv'
<1>1. TypeOK /\ Stacked /\ Calling /\ InPlace
  BY DEF PlaceInv
<1>2. /\ call.kind \in {"start", "savepoint"} /\ call.answer = "ok" /\ wire = <<>>
      /\ Len(wire) = 0
      /\ UNCHANGED <<requests, wire, alive, tx, saves, work, durable, under, outcome, faults>>
  BY <1>1 DEF Open, Calling, wireVars, serverVars, history
<1>3. PICK n \in Handle : n = created + 1 /\ created' = n
  <2>1. created + 1 \in 1..MaxHandles
    BY <1>1, TransactionAssumption, SMT DEF Open, TypeOK
  <2> QED BY <2>1 DEF Open, Handle
<1>4. /\ handles' = Append(handles, n)
      /\ point' = [point EXCEPT ![n] = call.name]
      /\ fate' = [fate EXCEPT ![n] = "live"] /\ call' = NoCall
  BY <1>3 DEF Open
<1>5. created \in Nat /\ created' \in 0..MaxHandles /\ n \in Nat /\ \A h \in Handle : h \in Nat
  <2>1. created + 1 \in 0..MaxHandles
    BY <1>1, TransactionAssumption, SMT DEF Open, TypeOK
  <2> QED BY <1>1, <1>3, <2>1, HandleNat, SMT DEF TypeOK
<1>6. fate[n] = "unused" /\ n \notin Live
  <2>1. n > created /\ ~(n <= created)
    BY <1>3, <1>5, SMT
  <2> QED BY <1>1, <2>1, LiveFacts DEF Stacked
<1>7. /\ Len(handles) \in Nat /\ Len(handles') = Len(handles) + 1
      /\ handles'[Len(handles) + 1] = n
      /\ \A i \in 1..Len(handles) : handles'[i] = handles[i] /\ handles[i] \in Live
      /\ handles' \in Seq(Handle)
  BY <1>1, <1>4, AppendProperties DEF TypeOK, Live
<1>8. /\ point' \in [Handle -> Nat] /\ point'[n] = call.name
      /\ fate' \in [Handle -> Fate] /\ fate'[n] = "live"
      /\ \A h \in Handle : h # n => point'[h] = point[h] /\ fate'[h] = fate[h]
  BY <1>1, <1>4 DEF TypeOK, Fate, PendingCall
<1>9. call' \in PendingCall /\ call'.kind = "none" /\ call'.answer = "none"
  BY <1>4 DEF NoCall, PendingCall
<1>10. TypeOK'
  BY <1>1, <1>2, <1>5, <1>7, <1>8, <1>9 DEF TypeOK
<1>11. Live' = Live \cup {n}
  BY <1>1, <1>4, ElementsAppend DEF Live, Elements, TypeOK
<1>12. Live \subseteq Handle /\ \A h \in Live : h <= created /\ fate[h] = "live"
  BY <1>1, LiveFacts
<1>13. Stacked'
  <2>1. \A i \in 1..Len(handles') : i \in 1..Len(handles) \/ i = Len(handles) + 1
    BY <1>7, SMT
  <2>2. ASSUME NEW i \in 1..Len(handles'), NEW j \in 1..Len(handles'), i < j
        PROVE  handles'[i] < handles'[j]
    <3>1. i \in 1..Len(handles)
      BY <1>7, <2>2, SMT
    <3>2. CASE j \in 1..Len(handles)
      BY <1>1, <1>7, <2>2, <3>1, <3>2 DEF Stacked
    <3>3. CASE j = Len(handles) + 1
      <4>1. handles'[i] \in Handle /\ handles'[i] <= created
        BY <1>7, <1>12, <3>1
      <4>2. \A h \in Nat : h <= created => h < created + 1
        BY <1>5, SMT
      <4>3. handles'[i] < n
        BY <1>3, <1>5, <4>1, <4>2
      <4> QED BY <1>7, <3>3, <4>3
    <3> QED BY <2>1, <3>2, <3>3
  <2>3. \A h \in Live' : h <= created' /\ fate'[h] = "live"
    <3>1. ASSUME NEW h \in Live PROVE h <= created' /\ fate'[h] = "live"
      <4>1. h \in Handle /\ h # n /\ h <= created /\ fate[h] = "live"
        BY <1>6, <1>12
      <4>2. h <= created'
        BY <1>3, <1>5, <4>1, SMT
      <4> QED BY <1>8, <4>1, <4>2
    <3>2. n <= created' /\ fate'[n] = "live"
      BY <1>3, <1>5, <1>8, SMT
    <3> QED BY <1>11, <3>1, <3>2
  <2>4. ASSUME NEW h \in Handle PROVE h > created' <=> fate'[h] = "unused"
    <3>1. CASE h = n
      <4>1. ~(h > created')
        BY <1>3, <1>5, <3>1, SMT
      <4> QED BY <1>8, <3>1, <4>1
    <3>2. CASE h # n
      <4>1. h > created' <=> h > created
        BY <1>3, <1>5, <3>2, SMT
      <4> QED BY <1>1, <1>8, <3>2, <4>1 DEF Stacked
    <3> QED BY <3>1, <3>2
  <2>5. ASSUME NEW i \in 1..Len(handles') PROVE point'[handles'[i]] = 0 <=> i = 1
    <3>1. CASE i \in 1..Len(handles)
      <4>1. handles'[i] = handles[i] /\ handles[i] \in Handle /\ handles[i] # n
        BY <1>6, <1>7, <1>12, <3>1
      <4> QED BY <1>1, <1>8, <3>1, <4>1 DEF Stacked
    <3>2. CASE i = Len(handles) + 1
      <4>1. call.name = 0 <=> handles = <<>>
        BY <1>1, <1>2 DEF Calling
      <4>2. handles = <<>> <=> Len(handles) = 0
        BY <1>1, EmptySeq DEF TypeOK
      <4>3. i = 1 <=> Len(handles) = 0
        BY <1>7, <3>2, SMT
      <4> QED BY <1>7, <1>8, <3>2, <4>1, <4>2, <4>3
    <3> QED BY <2>1, <3>1, <3>2
  <2>6. \A hs \in SUBSET Handle : (\A h \in hs : h <= created) => \A h \in hs : h <= created'
    BY <1>3, <1>5, SMT
  <2>7. /\ \A w \in Writes : \A h \in under'[w] : h <= created'
        /\ \A hs \in faults' : \A h \in hs : h <= created'
    <3>1. \A w \in Writes : under[w] \in SUBSET Handle
      BY <1>1 DEF TypeOK
    <3> QED BY <1>1, <1>2, <2>6, <3>1 DEF Stacked, TypeOK
  <2> QED BY <2>2, <2>3, <2>4, <2>5, <2>7 DEF Stacked
<1>14. Chained'
  BY <1>2 DEF Chained, Linked, Distinct, Elements
<1>15. Calling'
  BY <1>1, <1>2, <1>9 DEF Calling
<1>16. InPlace'
  <2>1. alive => tx # "idle"
    <3>1. CASE call.kind = "start"
      BY <1>1, <1>2, <3>1 DEF InPlace
    <3>2. CASE call.kind = "savepoint"
      <4>1. Live # {}
        BY <1>1, <3>2, LiveFacts DEF Calling
      <4> QED BY <1>1, <1>2, <4>1 DEF InPlace, Now
    <3> QED BY <1>2, <3>1, <3>2
  <2>2. Now' # {}
    BY <1>2, <1>11 DEF Now
  <2>3. call'.kind # "start"
    BY <1>9
  <2> QED BY <1>1, <1>2, <2>1, <2>2, <2>3 DEF InPlace
<1> QED BY <1>10, <1>13, <1>14, <1>15, <1>16 DEF PlaceInv

LEMMA Shorter ==
  ASSUME NEW n \in Nat \ {0}, NEW m, m = n - 1
  PROVE  \A i \in 1..m : i \in 1..n
BY SMT

\* A request that ends the last handle.
LEMMA EndPlace ==
  ASSUME PlaceInv, handles # <<>>, Free, NEW how \in {"committing", "discarded"},
         Ends(Current, how), NEW q \in WireRequest, Send(q), q.under = Live,
         UNCHANGED <<point, created, serverVars, history>>,
         \/ point[Current] = 0 /\ how = "committing" /\ q.type = "COMMIT"
         \/ point[Current] = 0 /\ how = "discarded" /\ q.type = "ROLLBACK"
         \/ /\ point[Current] # 0 /\ q.of = point[Current]
            /\ how = "committing" /\ q.type = "RELEASE"
         \/ /\ point[Current] # 0 /\ q.of = point[Current]
            /\ how = "discarded" /\ q.type = "ROLLBACK TO",
         call'.kind # "start"
  PROVE  /\ call' \in PendingCall => TypeOK'
         /\ Stacked' /\ Chained' /\ Extends(q) /\ InPlace'
         /\ Current \in Handle /\ Innermost(q.under) = {Current}
         /\ Live' = Live \ {Current} /\ fate' = [fate EXCEPT ![Current] = how]
<1>1. TypeOK /\ Stacked
  BY DEF PlaceInv
<1>2. /\ Current \in Handle /\ Current \in Live /\ Innermost(Live) = {Current}
      /\ fate[Current] = "live"
      /\ Outer \in Seq(Handle) /\ Len(Outer) = Len(handles) - 1
      /\ \A i \in 1..Len(Outer) : Outer[i] = handles[i]
      /\ Elements(Outer) = Live \ {Current}
      /\ point[Current] = 0 => Live = {Current}
  BY <1>1, Top
<1>3. PICK c \in Handle : c = Current
  BY <1>2
<1>4. handles' = Outer /\ fate' = [fate EXCEPT ![c] = how]
  BY <1>3 DEF Ends
<1>5. Live' = Live \ {c} /\ After(q) = Live \ {c}
  <2>1. Live' = Elements(handles')
    BY DEF Live, Elements
  <2>2. After(q) = Live \ {c}
    BY <1>2, <1>3 DEF After, Endings
  <2> QED BY <1>2, <1>3, <1>4, <2>1, <2>2
<1>6. /\ fate' \in [Handle -> Fate] /\ fate'[c] = how
      /\ \A h \in Handle : h # c => fate'[h] = fate[h]
  BY <1>1, <1>4 DEF TypeOK, Fate
<1>7. Stacked'
  <2>1. Len(handles) \in Nat \ {0} /\ \A i \in 1..Len(handles') : i \in 1..Len(handles)
    <3>1. Len(handles) \in Nat \ {0}
      BY <1>1, EmptySeq DEF TypeOK
    <3>2. Len(handles') = Len(handles) - 1
      BY <1>2, <1>4
    <3> QED BY <3>1, <3>2, Shorter
  <2>2. \A i \in 1..Len(handles') : handles'[i] = handles[i]
    BY <1>2, <1>4
  <2>3. \A i, j \in 1..Len(handles') : i < j => handles'[i] < handles'[j]
    BY <1>1, <2>1, <2>2 DEF Stacked
  <2>4. \A h \in Live' : h <= created' /\ fate'[h] = "live"
    BY <1>1, <1>5, <1>6, LiveFacts
  <2>5. \A h \in Handle : h > created' <=> fate'[h] = "unused"
    <3>1. \A h \in Handle : fate'[h] = "unused" <=> fate[h] = "unused"
      BY <1>2, <1>3, <1>6
    <3> QED BY <1>1, <3>1 DEF Stacked
  <2>6. \A i \in 1..Len(handles') : point'[handles'[i]] = 0 <=> i = 1
    BY <1>1, <2>1, <2>2 DEF Stacked
  <2> QED BY <1>1, <2>3, <2>4, <2>5, <2>6 DEF Stacked, history
<1>8. RequestOK(q)'
  <2>1. q.type \in {"RELEASE", "ROLLBACK TO"} => EndsPoint(q)'
    BY <1>2, <1>3, <1>6 DEF EndsPoint
  <2>2. q.type = "COMMIT" => EndsWhole(q)'
    BY <1>2, <1>3, <1>6 DEF EndsWhole
  <2>3. q.type = "ROLLBACK" => Live = {} \/ \E h \in Handle : Live = {h}
    BY <1>2
  <2> QED BY <1>1, <2>1, <2>2, <2>3, RequestSent
<1>9. \A r \in WireRequest : RequestOK(r) => RequestOK(r)'
  BY <1>2, <1>3, <1>6, RequestFrame DEF history
<1>10. Chained' /\ Extends(q)
  BY <1>5, <1>8, <1>9, Sending
<1>11. call' \in PendingCall => TypeOK'
  BY <1>1, <1>2, <1>4, <1>6, <1>10 DEF TypeOK, serverVars, history, Extends
<1>12. InPlace'
  BY <1>10, SendInPlace DEF serverVars, Free
<1> QED BY <1>2, <1>3, <1>4, <1>5, <1>7, <1>10, <1>11, <1>12

LEMMA EndRequest ==
  ASSUME TypeOK, Stacked, handles # <<>>, NEW a \in RequestType, NEW b \in RequestType,
         Send(IF point[Current] = 0 THEN Request(a, 0) ELSE Request(b, point[Current]))
  PROVE  \E q \in WireRequest :
           /\ Send(q) /\ q.under = Live
           /\ \/ point[Current] = 0 /\ q.type = a
              \/ point[Current] # 0 /\ q.of = point[Current] /\ q.type = b
<1>1. point[Current] \in Nat /\ 0 \in Nat
  BY Top DEF TypeOK
<1>2. CASE point[Current] = 0
  <2>1. Send(Request(a, 0))
    BY <1>2
  <2>2. PICK q \in WireRequest : q = Request(a, 0) /\ q.type = a /\ q.under = Live
    BY <1>1, RequestShape
  <2> QED BY <1>2, <2>1, <2>2
<1>3. CASE point[Current] # 0
  <2>1. Send(Request(b, point[Current]))
    BY <1>3
  <2>2. PICK q \in WireRequest :
          q = Request(b, point[Current]) /\ q.type = b /\ q.of = point[Current] /\ q.under = Live
    BY <1>1, RequestShape
  <2> QED BY <1>3, <2>1, <2>2
<1> QED BY <1>2, <1>3

LEMMA CommitPlace ==
  ASSUME PlaceInv, Commit
  PROVE  PlaceInv'
<1>1. TypeOK /\ Stacked /\ Current \in Handle /\ fate[Current] = "live" /\ handles # <<>> /\ Free
  BY Top DEF PlaceInv, Commit, MayCall
<1>2. PICK q \in WireRequest :
        /\ Send(q) /\ q.under = Live
        /\ \/ point[Current] = 0 /\ q.type = "COMMIT"
           \/ point[Current] # 0 /\ q.of = point[Current] /\ q.type = "RELEASE"
  <2>1. "COMMIT" \in RequestType /\ "RELEASE" \in RequestType
    BY DEF RequestType
  <2> QED BY <1>1, <2>1, EndRequest DEF Commit, CommitRequest
<1>3. PICK c \in Handle : c = Current
  BY <1>1
<1>4. /\ call' \in PendingCall /\ call'.kind = "commit" /\ call'.handle = c
      /\ call'.answer = IF alive THEN "none" ELSE "err"
  BY <1>1, <1>3, AwaitType DEF Commit
<1>5. /\ TypeOK' /\ Stacked' /\ Chained' /\ Extends(q) /\ InPlace'
      /\ Innermost(q.under) = {c} /\ Live' = Live \ {c}
      /\ fate' = [fate EXCEPT ![c] = "committing"]
  BY <1>1, <1>2, <1>3, <1>4, EndPlace DEF Commit
<1>6. fate'[c] = "committing"
  BY <1>1, <1>5 DEF TypeOK
<1>7. Calling'
  BY <1>2, <1>4, <1>5, <1>6, SendCalling DEF Commit, serverVars
<1> QED BY <1>5, <1>7 DEF PlaceInv

LEMMA RollbackPlace ==
  ASSUME PlaceInv, Rollback
  PROVE  PlaceInv'
<1>1. TypeOK /\ Stacked /\ Current \in Handle /\ handles # <<>> /\ Free
  BY Top DEF PlaceInv, Rollback, MayCall
<1>2. PICK q \in WireRequest :
        /\ Send(q) /\ q.under = Live
        /\ \/ point[Current] = 0 /\ q.type = "ROLLBACK"
           \/ point[Current] # 0 /\ q.of = point[Current] /\ q.type = "ROLLBACK TO"
  <2>1. "ROLLBACK" \in RequestType /\ "ROLLBACK TO" \in RequestType
    BY DEF RequestType
  <2> QED BY <1>1, <2>1, EndRequest DEF Rollback, RollbackRequest
<1>3. /\ call' \in PendingCall /\ call'.kind = "rollback"
      /\ call'.answer = IF alive THEN "none" ELSE "err"
  BY <1>1, AwaitType DEF Rollback
<1>4. TypeOK' /\ Stacked' /\ Chained' /\ Extends(q) /\ InPlace'
  BY <1>1, <1>2, <1>3, EndPlace DEF Rollback
<1>5. Calling'
  BY <1>2, <1>3, <1>4, SendCalling DEF Rollback, serverVars
<1> QED BY <1>4, <1>5 DEF PlaceInv

LEMMA DropPlace ==
  ASSUME PlaceInv, Drop
  PROVE  PlaceInv'
<1>1. TypeOK /\ Stacked /\ Current \in Handle /\ handles # <<>> /\ Free
  BY Top DEF PlaceInv, Drop
<1>2. PICK q \in WireRequest :
        /\ Send(q) /\ q.under = Live
        /\ \/ point[Current] = 0 /\ q.type = "ROLLBACK"
           \/ point[Current] # 0 /\ q.of = point[Current] /\ q.type = "ROLLBACK TO"
  <2>1. "ROLLBACK" \in RequestType /\ "ROLLBACK TO" \in RequestType
    BY DEF RequestType
  <2> QED BY <1>1, <2>1, EndRequest DEF Drop, DropRequest
<1>3. call' \in PendingCall /\ call'.kind = "none" /\ call'.answer = "none"
  BY <1>1 DEF PlaceInv, Calling, TypeOK, Drop, Free
<1>4. TypeOK' /\ Stacked' /\ Chained' /\ Extends(q) /\ InPlace'
  BY <1>1, <1>2, <1>3, EndPlace DEF Drop
<1>5. Calling'
  BY <1>2, <1>3, <1>4, SendCalling DEF Drop, serverVars
<1> QED BY <1>4, <1>5 DEF PlaceInv

LEMMA CommitDonePlace ==
  ASSUME PlaceInv, CommitDone
  PROVE  PlaceInv'
<1>1. TypeOK /\ Stacked /\ Chained /\ Calling /\ InPlace
  BY DEF PlaceInv
<1>2. PICK c \in Handle : c = call.handle
  BY <1>1 DEF Calling, CommitDone
<1>3. PICK f \in {"committed", "failed", "unknown"} :
        fate' = [fate EXCEPT ![c] = f] /\ (call.answer = "none" => f = "unknown")
  <2>1. call.answer \in {"none", "ok", "err"}
    BY <1>1 DEF TypeOK, PendingCall
  <2>2. CASE call.answer = "ok"
    BY <1>2, <2>2 DEF CommitDone
  <2>3. CASE call.answer = "err"
    BY <1>2, <2>3 DEF CommitDone
  <2>4. CASE call.answer = "none"
    BY <1>2, <2>4 DEF CommitDone
  <2> QED BY <2>1, <2>2, <2>3, <2>4
<1>4. /\ fate' \in [Handle -> Fate] /\ fate'[c] = f
      /\ \A h \in Handle : h # c => fate'[h] = fate[h]
  BY <1>1, <1>3 DEF TypeOK, Fate
<1>5. c \notin Live /\ fate[c] = "committing"
  BY <1>1, <1>2 DEF Calling, CommitDone
<1>6. /\ call' \in PendingCall /\ call'.kind = "none" /\ call'.answer = "none"
      /\ UNCHANGED <<handles, point, created, requests, wire, alive, tx, saves, work, durable,
                     under, outcome, faults>>
  BY DEF CommitDone, NoCall, PendingCall, wireVars, serverVars, history
<1>7. Live' = Live /\ Now' = Now /\ Incoming' = Incoming
  BY <1>6 DEF Live, Now, Incoming
<1>8. TypeOK'
  BY <1>1, <1>4, <1>6 DEF TypeOK
<1>9. Stacked'
  <2>1. \A h \in Live : fate'[h] = "live"
    BY <1>1, <1>4, <1>5, LiveFacts
  <2>2. \A h \in Handle : fate'[h] = "unused" <=> fate[h] = "unused"
    BY <1>3, <1>4, <1>5
  <2> QED BY <1>1, <1>6, <1>7, <2>1, <2>2 DEF Stacked
<1>10. Chained'
  <2>1. CASE wire = <<>>
    <3>1. wire' = <<>> /\ Len(wire') = 0
      BY <1>6, <2>1
    <3> QED BY <3>1 DEF Chained, Linked, Distinct, Elements
  <2>2. CASE wire # <<>>
    <3>1. f = "unknown"
      BY <1>1, <1>3, <2>2 DEF Calling
    <3>2. \A r \in WireRequest : RequestOK(r) => RequestOK(r)'
      BY <1>4, <1>5, <1>6, <3>1, RequestFrame
    <3>3. Elements(wire) \subseteq WireRequest
      <4>1. \A i \in 1..Len(wire) : wire[i] \in WireRequest
        BY <1>1, ElementOfSeq DEF TypeOK
      <4> QED BY <4>1 DEF Elements
    <3> QED BY <1>1, <1>6, <1>7, <3>2, <3>3 DEF Chained
  <2> QED BY <2>1, <2>2
<1>11. Calling'
  BY <1>1, <1>6 DEF Calling
<1>12. InPlace'
  BY <1>1, <1>6, <1>7 DEF InPlace, CommitDone
<1> QED BY <1>8, <1>9, <1>10, <1>11, <1>12 DEF PlaceInv

\* The wire is about what does not change.
LEMMA ChainedSame ==
  ASSUME Chained, Live' = Live, UNCHANGED <<wire, point, fate, created, under, outcome>>
  PROVE  Chained'
<1>1. Linked(wire', Live') /\ Distinct(wire')
  BY DEF Chained
<1>2. ASSUME NEW q \in Elements(wire) PROVE RequestOK(q)'
  <2>1. RequestOK(q)
    BY <1>2 DEF Chained
  <2>2. (EndsPoint(q)' <=> EndsPoint(q)) /\ (EndsWhole(q)' <=> EndsWhole(q))
    BY DEF EndsPoint, EndsWhole
  <2> QED BY <2>1, <2>2 DEF RequestOK
<1>3. Elements(wire') = Elements(wire)
  OBVIOUS
<1> QED BY <1>1, <1>2, <1>3 DEF Chained

LEMMA RollbackDonePlace ==
  ASSUME PlaceInv, RollbackDone
  PROVE  PlaceInv'
<1>1. TypeOK /\ Stacked /\ Chained /\ Calling /\ InPlace
  BY DEF PlaceInv
<1>2. /\ call' \in PendingCall /\ call'.kind = "none" /\ call'.answer = "none"
      /\ UNCHANGED <<handles, point, fate, created, requests, wire, alive, tx, saves, work,
                     durable, under, outcome, faults>>
  BY DEF RollbackDone, NoCall, PendingCall, wireVars, serverVars, history
<1>3. Live' = Live /\ Now' = Now /\ Incoming' = Incoming
  BY <1>2 DEF Live, Now, Incoming
<1>4. TypeOK'
  BY <1>1, <1>2 DEF TypeOK
<1>5. Stacked'
  BY <1>1, <1>2, <1>3 DEF Stacked
<1>6. Chained'
  BY <1>1, <1>2, <1>3, ChainedSame
<1>7. Calling'
  BY <1>1, <1>2 DEF Calling
<1>8. InPlace'
  BY <1>1, <1>2, <1>3 DEF InPlace, RollbackDone
<1> QED BY <1>4, <1>5, <1>6, <1>7, <1>8 DEF PlaceInv

-----------------------------------------------------------------------------
(* The server's steps                                                      *)

\* What a request leaves alive.
LEMMA AfterFacts ==
  ASSUME NEW q \in WireRequest, RequestOK(q)
  PROVE  /\ q.type \in {"COMMIT", "ROLLBACK"} => After(q) = {}
         /\ q.type \notin {"COMMIT", "ROLLBACK"} => (After(q) = {} <=> q.under = {})
<1>1. q.under \in SUBSET Handle /\ q.type \in RequestType
  BY DEF WireRequest
<1>2. ASSUME NEW h \in Handle PROVE Innermost({h}) = {h}
  <2>1. h <= h
    BY HandleNat, SMT
  <2> QED BY <2>1 DEF Innermost
<1>3. CASE q.type = "COMMIT"
  <2>1. PICK h \in Handle : q.under = {h}
    BY <1>3 DEF RequestOK, EndsWhole
  <2> QED BY <1>2, <1>3, <2>1 DEF After, Endings
<1>4. CASE q.type = "ROLLBACK"
  <2>1. CASE q.under = {}
    BY <1>4, <2>1 DEF After, Endings
  <2>2. CASE \E h \in Handle : q.under = {h}
    BY <1>2, <1>4, <2>2 DEF After, Endings
  <2> QED BY <1>4, <2>1, <2>2 DEF RequestOK
<1>5. CASE q.type \in {"RELEASE", "ROLLBACK TO"}
  <2>1. PICK h \in Innermost(q.under) : point[h] = q.of /\ q.of # 0
    BY <1>5 DEF RequestOK, EndsPoint
  <2>2. h \in q.under /\ Innermost(q.under) = {h}
    BY <1>1, OneInnermost
  <2>3. PICK g \in q.under : point[g] = 0
    BY <2>2 DEF RequestOK
  <2>4. g \in After(q)
    BY <2>1, <2>2, <2>3 DEF After
  <2> QED BY <1>5, <2>2, <2>4
<1>6. CASE q.type \notin Endings
  BY <1>6 DEF After, Endings
<1> QED BY <1>3, <1>4, <1>5, <1>6 DEF Endings

\* Each START is the one awaited, or is followed by its clean-up.
Cleaned ==
  \A i \in 1..Len(wire) : wire[i].type = "START" =>
     IF i < Len(wire) THEN wire[i + 1].type = "ROLLBACK"
                      ELSE call.kind = "start" /\ call.answer = "none"

\* What is answered, and where the server is then.
LEMMA Executing ==
  ASSUME PlaceInv, wire # <<>>, NEW a \in {"ok", "err"}, Executes(a)
  PROVE  /\ alive /\ alive'
         /\ UNCHANGED <<handles, point, fate, created, requests, under>> /\ Live' = Live
         /\ Incoming \in WireRequest /\ RequestOK(Incoming)
         /\ Now = Incoming.under /\ Now' = After(Incoming)
         /\ wire' \in Seq(WireRequest) /\ call' \in PendingCall
         /\ outcome' \in [Writes -> {"unused", "sent", "ok", "failed"}]
         /\ Chained' /\ Calling' /\ Cleaned'
         /\ call'.kind = call.kind
         /\ Incoming.type = "START" =>
              IF wire' = <<>> THEN call.kind = "start" /\ call'.answer = a
                              ELSE Incoming'.type = "ROLLBACK"
         /\ Incoming.type # "START" => ~(call'.kind = "start" /\ call'.answer = "ok")
<1>1. TypeOK /\ Stacked /\ Chained /\ Calling /\ InPlace
  BY DEF PlaceInv
<1>2. wire \in Seq(WireRequest) /\ call \in PendingCall
  BY <1>1 DEF TypeOK
<1>3. alive /\ call.answer = "none"
  BY <1>1 DEF Calling, TypeOK, PendingCall
<1>4. /\ UNCHANGED <<handles, point, fate, created, requests, alive, under>>
      /\ wire' = Tail(wire) /\ Live' = Live
  BY DEF Executes, Live
<1>5. /\ Len(wire) \in Nat \ {0} /\ wire' \in Seq(WireRequest) /\ Incoming = wire[1]
      /\ Len(wire') = Len(wire) - 1 /\ \A i \in 1..Len(wire') : wire'[i] = wire[i + 1]
  BY <1>2, <1>4, HeadTailProperties, EmptySeq DEF Incoming
<1>6. /\ 1 \in 1..Len(wire) /\ Len(wire) \in 1..Len(wire)
      /\ \A i \in 1..Len(wire') : i + 1 \in 1..Len(wire)
  BY <1>5, SMT
<1>7. /\ wire' = <<>> <=> Len(wire) = 1
      /\ wire' # <<>> => Len(wire') \in 1..Len(wire') /\ wire'[Len(wire')] = wire[Len(wire)]
  <2>1. wire' = <<>> <=> Len(wire') = 0
    BY <1>5, EmptySeq
  <2>2. wire' = <<>> <=> Len(wire) = 1
    BY <1>5, <2>1, SMT
  <2>3. SUFFICES ASSUME wire' # <<>>
                 PROVE  Len(wire') \in 1..Len(wire') /\ wire'[Len(wire')] = wire[Len(wire)]
    BY <2>2
  <2>4. Len(wire') \in 1..Len(wire') /\ Len(wire') + 1 = Len(wire)
    BY <1>5, <2>1, <2>3, SMT
  <2> QED BY <1>5, <2>4
<1>8. PICK q \in WireRequest : q = Incoming
  BY <1>2, <1>5, <1>6, ElementOfSeq
<1>9. RequestOK(q) /\ Now = q.under
  BY <1>1, <1>5, <1>6, <1>8 DEF Chained, Elements, Now
<1>10. Linked(wire', Live') /\ Now' = After(q)
  <2>1. /\ Linked(wire', Live)
        /\ wire' = <<>> => Live = After(q)
        /\ wire' # <<>> => Head(wire').under = After(q)
    BY <1>1, <1>2, <1>4, <1>8, LinkedTail DEF Chained, Incoming
  <2> QED BY <1>4, <2>1 DEF Now, Incoming
<1>11. /\ Distinct(wire')
       /\ q.type = "WRITE" => \A i \in 1..Len(wire') : wire'[i].type = "WRITE" => wire'[i].of # q.of
  BY <1>1, <1>2, <1>4, <1>8, DistinctTail DEF Chained, Incoming
<1>12. /\ outcome' \in [Writes -> {"unused", "sent", "ok", "failed"}]
       /\ \A w \in Writes : ~(q.type = "WRITE" /\ w = q.of) => outcome'[w] = outcome[w]
  BY <1>1, <1>8, <1>9 DEF Executes, TypeOK, RequestOK
<1>13. \A r \in Elements(wire') : RequestOK(r)'
  <2>1. SUFFICES ASSUME NEW i \in 1..Len(wire'), NEW r, r = wire'[i] PROVE RequestOK(r)'
    BY DEF Elements
  <2>2. r \in WireRequest /\ RequestOK(r) /\ (r.type = "WRITE" /\ q.type = "WRITE" => r.of # q.of)
    BY <1>1, <1>2, <1>5, <1>6, <1>11, <2>1, ElementOfSeq DEF Chained, Elements
  <2>3. r.type = "WRITE" => r.of \in Writes
    BY <2>2 DEF RequestOK
  <2> QED BY <1>4, <1>12, <2>2, <2>3, RequestFrame
<1>14. Chained'
  BY <1>10, <1>11, <1>13 DEF Chained
<1>15. /\ call' \in PendingCall /\ call'.kind = call.kind
       /\ call'.handle = call.handle /\ call'.name = call.name
       /\ call'.answer = IF call.kind # "none" /\ wire' = <<>> THEN a ELSE "none"
  BY <1>2, <1>3, <1>7 DEF Executes, PendingCall
<1>16. Calling'
  <2>1. Awaited(wire[Len(wire)]) \/ call.kind = "none"
    BY <1>1, <1>3 DEF Calling
  <2>2. call'.kind # "none" /\ wire' # <<>> => Awaited(wire[Len(wire)])'
    BY <1>7, <1>15, <2>1 DEF Awaited
  <2>3. call'.kind # "none" /\ call'.answer = "none" => wire' # <<>>
    BY <1>15
  <2>4. call'.answer # "none" => wire' = <<>>
    BY <1>15
  <2>5. call'.kind = "none" => call'.answer = "none"
    BY <1>15
  <2>6. /\ call'.kind = "start" => handles' = <<>> /\ call'.name = 0
        /\ call'.kind = "savepoint" => handles' # <<>> /\ call'.name # 0
        /\ call'.kind = "commit" => /\ call'.handle \in Handle /\ call'.handle \notin Live'
                                    /\ fate'[call'.handle] = "committing"
    BY <1>1, <1>4, <1>15 DEF Calling
  <2> QED BY <1>3, <1>4, <2>2, <2>3, <2>4, <2>5, <2>6 DEF Calling
<1>17. Cleaned
  BY <1>1 DEF InPlace, Cleaned
<1>18. ASSUME NEW i \in 1..Len(wire'), wire'[i].type = "START"
       PROVE  IF i < Len(wire') THEN wire'[i + 1].type = "ROLLBACK"
                                ELSE call'.kind = "start" /\ call'.answer = "none"
  <2>1. i + 1 \in 1..Len(wire) /\ wire[i + 1].type = "START"
    BY <1>5, <1>6, <1>18
  <2>2. i < Len(wire') <=> i + 1 < Len(wire)
    BY <1>5, SMT
  <2>3. CASE i < Len(wire')
    <3>1. i + 1 \in 1..Len(wire')
      BY <1>5, <2>3, SMT
    <3> QED BY <1>5, <1>17, <2>1, <2>2, <2>3, <3>1 DEF Cleaned
  <2>4. CASE ~(i < Len(wire'))
    <3>1. call.kind = "start" /\ call.answer = "none"
      BY <1>17, <2>1, <2>2, <2>4 DEF Cleaned
    <3>2. wire' # <<>>
      BY <1>5, SMT
    <3> QED BY <1>15, <2>4, <3>1, <3>2
  <2> QED BY <2>3, <2>4
<1>19. Cleaned'
  BY <1>18 DEF Cleaned
<1>20. Incoming.type = "START" =>
         IF wire' = <<>> THEN call.kind = "start" /\ call'.answer = a
                         ELSE Incoming'.type = "ROLLBACK"
  <2>1. SUFFICES ASSUME wire[1].type = "START"
                 PROVE  IF wire' = <<>> THEN call.kind = "start" /\ call'.answer = a
                                        ELSE Incoming'.type = "ROLLBACK"
    BY <1>5
  <2>2. CASE wire' = <<>>
    <3>1. ~(1 < Len(wire))
      <4>1. Len(wire) = 1
        BY <1>7, <2>2
      <4> QED BY <4>1, SMT
    <3> QED BY <1>6, <1>15, <1>17, <2>1, <2>2, <3>1 DEF Cleaned
  <2>3. CASE wire' # <<>>
    <3>1. 1 < Len(wire) /\ 1 \in 1..Len(wire')
      BY <1>5, <1>7, <2>3, SMT
    <3>2. Head(wire') = wire'[1]
      BY <1>5, <2>3, HeadTailProperties
    <3> QED BY <1>5, <1>6, <1>17, <2>1, <2>3, <3>1, <3>2 DEF Cleaned, Incoming
  <2> QED BY <2>2, <2>3
<1>21. Incoming.type # "START" => ~(call'.kind = "start" /\ call'.answer = "ok")
  <2>1. SUFFICES ASSUME wire[1].type # "START", call'.kind = "start", call'.answer = "ok"
                 PROVE  FALSE
    BY <1>5
  <2>2. Len(wire) = 1 /\ call.kind = "start"
    BY <1>7, <1>15, <2>1
  <2> QED BY <1>1, <1>3, <2>1, <2>2 DEF Calling, Awaited
<1> QED
  BY <1>3, <1>4, <1>5, <1>8, <1>9, <1>10, <1>12, <1>14, <1>15, <1>16, <1>19, <1>20, <1>21

LEMMA ExecuteInPlace ==
  ASSUME PlaceInv, wire # <<>>, NEW a \in {"ok", "err"}, Executes(a),
         tx' = "idle" => saves' = <<>> /\ work' = {} /\ After(Incoming) = {},
         tx' # "idle" /\ After(Incoming) = {} => Incoming.type = "START" /\ a = "ok",
         Incoming.type = "START" /\ a = "ok" => tx' = "open"
  PROVE  InPlace'
<1>1. /\ alive' /\ Now' = After(Incoming) /\ Cleaned'
      /\ call'.kind = call.kind
      /\ Incoming.type = "START" =>
           IF wire' = <<>> THEN call.kind = "start" /\ call'.answer = a
                           ELSE Incoming'.type = "ROLLBACK"
      /\ Incoming.type # "START" => ~(call'.kind = "start" /\ call'.answer = "ok")
  BY Executing
<1>2. tx' # "idle" /\ Now' = {} =>
        \/ wire' # <<>> /\ Incoming'.type = "ROLLBACK"
        \/ wire' = <<>> /\ call'.kind = "start" /\ call'.answer = "ok"
  BY <1>1
<1>3. call'.kind = "start" /\ call'.answer = "ok" => tx' = "open"
  <2>1. SUFFICES ASSUME call'.kind = "start", call'.answer = "ok", Incoming.type = "START"
                 PROVE  tx' = "open"
    BY <1>1
  <2>2. wire' = <<>>
    <3>1. Calling'
      BY Executing
    <3> QED BY <2>1, <3>1 DEF Calling
  <2> QED BY <1>1, <2>1, <2>2
<1> QED BY <1>1, <1>2, <1>3 DEF InPlace, Cleaned

\* A request finds the server where it was sent.
LEMMA Found ==
  ASSUME PlaceInv, wire # <<>>
  PROVE  /\ tx = "idle" => Incoming.under = {} /\ saves = <<>> /\ work = {}
         /\ tx # "idle" /\ Incoming.under = {} => Incoming.type = "ROLLBACK"
         /\ Incoming.type = "START" => tx = "idle" /\ Incoming.under = {}
         /\ Incoming.type \in {"SAVEPOINT", "RELEASE", "COMMIT", "ROLLBACK TO"} =>
              tx # "idle" /\ Incoming.under # {}
         /\ Incoming \in WireRequest /\ RequestOK(Incoming)
<1>1. alive /\ Chained /\ InPlace /\ wire \in Seq(WireRequest)
  BY DEF PlaceInv, Calling, TypeOK
<1>2. 1 \in 1..Len(wire) /\ Incoming = wire[1]
  <2>1. Len(wire) \in Nat \ {0}
    BY <1>1, EmptySeq
  <2> QED BY <1>1, <2>1, HeadTailProperties, SMT DEF Incoming
<1>3. Incoming \in WireRequest /\ RequestOK(Incoming)
  <2>1. Incoming \in WireRequest
    BY <1>1, <1>2, ElementOfSeq
  <2>2. PICK q \in WireRequest : q = Incoming
    BY <2>1
  <2>3. q \in Elements(wire)
    BY <1>2, <2>2 DEF Elements
  <2> QED BY <1>1, <2>2, <2>3 DEF Chained
<1>4. /\ tx = "idle" => Incoming.under = {} /\ saves = <<>> /\ work = {}
      /\ tx # "idle" /\ Incoming.under = {} => Incoming.type = "ROLLBACK"
  BY <1>1 DEF InPlace, Now
<1>5. Incoming.type \in {"SAVEPOINT", "RELEASE", "COMMIT", "ROLLBACK TO"} => Incoming.under # {}
  <2>1. Incoming.type \in {"RELEASE", "ROLLBACK TO"} => Incoming.under # {}
    <3>1. SUFFICES ASSUME EndsPoint(Incoming) PROVE Incoming.under # {}
      BY <1>3 DEF RequestOK
    <3> QED BY <3>1 DEF EndsPoint, Innermost
  <2>2. Incoming.type = "COMMIT" => Incoming.under # {}
    BY <1>3 DEF RequestOK, EndsWhole
  <2>3. Incoming.type = "SAVEPOINT" => Incoming.under # {}
    BY <1>3 DEF RequestOK
  <2> QED BY <2>1, <2>2, <2>3
<1>6. Incoming.type = "START" => Incoming.under = {}
  BY <1>3 DEF RequestOK
<1> QED BY <1>3, <1>4, <1>5, <1>6

\* The last savepoint of a name exists where there is one.
LEMMA LatestFacts ==
  ASSUME TypeOK, Matches # {}
  PROVE  /\ Latest \in Matches /\ \A j \in Matches : j <= Latest
         /\ Latest \in 1..Len(saves) /\ saves[Latest] \in Savepoint
<1>1. Len(saves) \in Nat /\ Matches \in SUBSET (1..Len(saves))
  BY DEF TypeOK, Matches
<1>2. \E m \in Matches : \A k \in Matches : k <= m
  BY <1>1, LastOne
<1>3. Latest \in Matches /\ \A j \in Matches : j <= Latest
  BY <1>2 DEF Latest
<1>4. Latest \in 1..Len(saves)
  BY <1>1, <1>3
<1> QED BY <1>3, <1>4, ElementOfSeq DEF TypeOK

LEMMA SaveTypes ==
  ASSUME TypeOK, NEW m \in 0..Len(saves)
  PROVE  /\ SubSeq(saves, 1, m) \in Seq(Savepoint) /\ Len(SubSeq(saves, 1, m)) = m
         /\ \A i \in 1..m : SubSeq(saves, 1, m)[i] = saves[i]
<1>1. saves \in Seq(Savepoint) /\ Len(saves) \in Nat
  BY DEF TypeOK
<1>2. /\ 1 \in Int /\ m \in Int /\ (\A i \in 1..m : i \in 1..Len(saves))
      /\ m - 1 + 1 = m /\ (\A i \in 1..m : 1 + i - 1 = i) /\ (~(1 <= m) => m = 0)
  BY <1>1, SMT
<1>3. \A i \in 1..m : saves[i] \in Savepoint
  BY <1>1, <1>2, ElementOfSeq
<1> QED BY <1>2, <1>3, SubSeqProperties

\* What remains of an invariant step once the server has executed a request.
LEMMA ExecutePlace ==
  ASSUME PlaceInv, wire # <<>>, NEW a \in {"ok", "err"}, Executes(a), InPlace',
         tx' \in {"idle", "open", "failed"}, saves' \in Seq(Savepoint),
         work' \subseteq Writes, durable' \subseteq Writes,
         faults' = faults \/ faults' = faults \cup {Incoming.under}
  PROVE  PlaceInv'
<1>1. TypeOK /\ Stacked
  BY DEF PlaceInv
<1>2. /\ alive /\ alive'
      /\ UNCHANGED <<handles, point, fate, created, requests, under>> /\ Live' = Live
      /\ Incoming \in WireRequest /\ RequestOK(Incoming)
      /\ wire' \in Seq(WireRequest) /\ call' \in PendingCall
      /\ outcome' \in [Writes -> {"unused", "sent", "ok", "failed"}]
      /\ Chained' /\ Calling'
  BY Executing
<1>3. Incoming.under \subseteq Handle /\ \A h \in Incoming.under : h <= created
  BY <1>2 DEF WireRequest, RequestOK
<1>4. TypeOK'
  BY <1>1, <1>2, <1>3 DEF TypeOK
<1>5. \A hs \in faults' : \A h \in hs : h <= created
  BY <1>1, <1>3 DEF Stacked
<1>6. Stacked'
  BY <1>1, <1>2, <1>5 DEF Stacked
<1> QED BY <1>2, <1>4, <1>6 DEF PlaceInv

LEMMA SrvStartPlace ==
  ASSUME PlaceInv, SrvStart
  PROVE  PlaceInv'
<1>1. wire # <<>> /\ Incoming.type = "START" /\ Executes("ok") /\ tx' = "open"
      /\ UNCHANGED <<saves, work, durable, faults>>
  BY DEF SrvStart, Arrives
<1>2. InPlace'
  BY <1>1, ExecuteInPlace
<1> QED BY <1>1, <1>2, ExecutePlace DEF PlaceInv, TypeOK

LEMMA SrvWritePlace ==
  ASSUME PlaceInv, SrvWrite
  PROVE  PlaceInv'
<1>1. wire # <<>> /\ Incoming.type = "WRITE" /\ Executes("ok") /\ UNCHANGED <<tx, saves, faults>>
  BY DEF SrvWrite, Arrives
<1>2. Incoming \in WireRequest /\ Incoming.of \in Writes /\ TypeOK
  BY <1>1, Found DEF RequestOK, PlaceInv
<1>3. work' \subseteq Writes /\ durable' \subseteq Writes /\ (tx = "idle" => work' = work)
  BY <1>2 DEF SrvWrite, TypeOK
<1>4. After(Incoming) = Incoming.under
  BY <1>1 DEF After, Endings
<1>5. InPlace'
  BY <1>1, <1>3, <1>4, Found, ExecuteInPlace
<1> QED BY <1>1, <1>2, <1>3, <1>5, ExecutePlace DEF TypeOK

LEMMA SrvSavepointPlace ==
  ASSUME PlaceInv, SrvSavepoint
  PROVE  PlaceInv'
<1>1. /\ wire # <<>> /\ Incoming.type = "SAVEPOINT" /\ Executes("ok") /\ tx = "open"
      /\ UNCHANGED <<tx, work, durable, faults>>
  BY DEF SrvSavepoint, Arrives
<1>2. TypeOK /\ Incoming.of \in Nat /\ Incoming.under # {}
  BY <1>1, Found DEF PlaceInv, WireRequest
<1>3. saves' \in Seq(Savepoint)
  BY <1>2, AppendProperties DEF SrvSavepoint, TypeOK, Savepoint
<1>4. After(Incoming) = Incoming.under
  BY <1>1 DEF After, Endings
<1>5. InPlace'
  BY <1>1, <1>2, <1>4, ExecuteInPlace
<1> QED BY <1>1, <1>2, <1>3, <1>5, ExecutePlace DEF TypeOK

LEMMA SrvReleasePlace ==
  ASSUME PlaceInv, SrvRelease
  PROVE  PlaceInv'
<1>1. /\ wire # <<>> /\ Incoming.type = "RELEASE" /\ Executes("ok") /\ tx = "open" /\ Matches # {}
      /\ saves' = SubSeq(saves, 1, Latest - 1) /\ UNCHANGED <<tx, work, durable, faults>>
  BY DEF SrvRelease, Arrives
<1>2. TypeOK /\ Incoming \in WireRequest /\ RequestOK(Incoming) /\ Incoming.under # {}
  BY <1>1, Found DEF PlaceInv
<1>3. Latest \in 1..Len(saves) /\ Len(saves) \in Nat
  BY <1>1, <1>2, LatestFacts DEF TypeOK
<1>4. Latest - 1 \in 0..Len(saves)
  BY <1>3, SMT
<1>5. saves' \in Seq(Savepoint)
  BY <1>1, <1>2, <1>4, SaveTypes
<1>6. After(Incoming) # {}
  BY <1>1, <1>2, AfterFacts
<1>7. InPlace'
  BY <1>1, <1>6, ExecuteInPlace
<1> QED BY <1>1, <1>2, <1>5, <1>7, ExecutePlace DEF TypeOK

LEMMA SrvRollbackToPlace ==
  ASSUME PlaceInv, SrvRollbackTo
  PROVE  PlaceInv'
<1>1. /\ wire # <<>> /\ Incoming.type = "ROLLBACK TO" /\ Executes("ok") /\ Matches # {}
      /\ saves' = SubSeq(saves, 1, Latest) /\ work' = saves[Latest].work /\ tx' = "open"
      /\ UNCHANGED <<durable, faults>>
  BY DEF SrvRollbackTo, Arrives
<1>2. TypeOK /\ Incoming \in WireRequest /\ RequestOK(Incoming) /\ Incoming.under # {}
  BY <1>1, Found DEF PlaceInv
<1>3. Latest \in 1..Len(saves) /\ Len(saves) \in Nat /\ saves[Latest] \in Savepoint
  <2>1. Len(saves) \in Nat
    BY <1>2 DEF TypeOK
  <2> QED BY <1>1, <1>2, <2>1, LatestFacts
<1>4. Latest \in 0..Len(saves)
  BY <1>3, SMT
<1>5. saves' \in Seq(Savepoint) /\ work' \subseteq Writes
  BY <1>1, <1>2, <1>3, <1>4, SaveTypes DEF Savepoint
<1>6. After(Incoming) # {}
  BY <1>1, <1>2, AfterFacts
<1>7. InPlace'
  BY <1>1, <1>6, ExecuteInPlace
<1> QED BY <1>1, <1>2, <1>5, <1>7, ExecutePlace DEF TypeOK

LEMMA SrvCommitPlace ==
  ASSUME PlaceInv, SrvCommit
  PROVE  PlaceInv'
<1>1. /\ wire # <<>> /\ Incoming.type = "COMMIT" /\ Executes("ok") /\ faults' = faults
      /\ tx' = "idle" /\ saves' = <<>> /\ work' = {}
  BY DEF SrvCommit, Arrives, Over
<1>2. TypeOK /\ Incoming \in WireRequest /\ RequestOK(Incoming)
  BY <1>1, Found DEF PlaceInv
<1>3. durable' \subseteq Writes
  BY <1>2 DEF SrvCommit, TypeOK
<1>4. After(Incoming) = {}
  BY <1>1, <1>2, AfterFacts
<1>5. InPlace'
  BY <1>1, <1>4, ExecuteInPlace
<1> QED BY <1>1, <1>3, <1>5, ExecutePlace

LEMMA SrvRollbackPlace ==
  ASSUME PlaceInv, SrvRollback
  PROVE  PlaceInv'
<1>1. /\ wire # <<>> /\ Incoming.type = "ROLLBACK" /\ Executes("ok")
      /\ tx' = "idle" /\ saves' = <<>> /\ work' = {} /\ UNCHANGED <<durable, faults>>
  BY DEF SrvRollback, Arrives, Over
<1>2. TypeOK /\ Incoming \in WireRequest /\ RequestOK(Incoming)
  BY <1>1, Found DEF PlaceInv
<1>3. After(Incoming) = {}
  BY <1>1, <1>2, AfterFacts
<1>4. InPlace'
  BY <1>1, <1>3, ExecuteInPlace
<1> QED BY <1>1, <1>2, <1>4, ExecutePlace DEF TypeOK

LEMMA SrvFailPlace ==
  ASSUME PlaceInv, SrvFail
  PROVE  PlaceInv'
<1>1. /\ wire # <<>> /\ Incoming.type # "ROLLBACK" /\ Executes("err") /\ durable' = durable
      /\ faults' = faults \cup {Incoming.under}
  BY DEF SrvFail
<1>2. TypeOK /\ Incoming \in WireRequest /\ RequestOK(Incoming)
  BY <1>1, Found DEF PlaceInv
<1>3. CASE Incoming.type = "COMMIT"
  <2>1. tx' = "idle" /\ saves' = <<>> /\ work' = {}
    BY <1>3 DEF SrvFail, Over
  <2>2. After(Incoming) = {}
    BY <1>2, <1>3, AfterFacts
  <2>3. InPlace'
    BY <1>1, <1>3, <2>1, <2>2, ExecuteInPlace
  <2> QED BY <1>1, <1>2, <2>1, <2>3, ExecutePlace DEF TypeOK
<1>4. CASE Incoming.type # "COMMIT"
  <2>1. tx' = (IF tx = "idle" THEN "idle" ELSE "failed") /\ UNCHANGED <<saves, work>>
    BY <1>4 DEF SrvFail
  <2>2. After(Incoming) = {} <=> Incoming.under = {}
    BY <1>1, <1>2, <1>4, AfterFacts
  <2>3. InPlace'
    <3>1. /\ tx = "idle" => Incoming.under = {} /\ saves = <<>> /\ work = {}
          /\ tx # "idle" /\ Incoming.under = {} => Incoming.type = "ROLLBACK"
      BY <1>1, Found
    <3> QED BY <1>1, <2>1, <2>2, <3>1, ExecuteInPlace
  <2> QED BY <1>1, <1>2, <2>1, <2>3, ExecutePlace DEF TypeOK
<1> QED BY <1>3, <1>4

LEMMA LostPlace ==
  ASSUME PlaceInv, Lost
  PROVE  PlaceInv'
<1>1. TypeOK /\ Stacked /\ Calling
  BY DEF PlaceInv
<1>2. /\ alive' = FALSE /\ wire' = <<>> /\ Len(wire') = 0
      /\ tx' = "idle" /\ saves' = <<>> /\ work' = {}
      /\ UNCHANGED <<handles, point, fate, created, requests, durable, under, outcome, faults>>
  BY DEF Lost, Over, history
<1>3. /\ call' \in PendingCall /\ call'.kind = call.kind
      /\ call'.handle = call.handle /\ call'.name = call.name
      /\ call'.kind = "none" => call'.answer = "none"
      /\ call'.kind # "none" => call'.answer # "none"
  BY <1>1 DEF Lost, TypeOK, PendingCall, Calling
<1>4. Live' = Live
  BY <1>2 DEF Live
<1>5. TypeOK'
  <2>1. wire' \in Seq(WireRequest) /\ saves' \in Seq(Savepoint)
    BY <1>2
  <2> QED BY <1>1, <1>2, <1>3, <2>1 DEF TypeOK
<1>6. Stacked'
  BY <1>1, <1>2, <1>4 DEF Stacked
<1>7. Chained'
  BY <1>2 DEF Chained, Linked, Distinct, Elements
<1>8. Calling'
  BY <1>1, <1>2, <1>3, <1>4 DEF Calling
<1>9. InPlace'
  BY <1>2 DEF InPlace
<1> QED BY <1>5, <1>6, <1>7, <1>8, <1>9 DEF PlaceInv

LEMMA StutterPlace ==
  ASSUME PlaceInv, UNCHANGED vars
  PROVE  PlaceInv'
<1>1. UNCHANGED <<handles, point, fate, call, created, requests, wire, alive, tx, saves, work,
                  durable, under, outcome, faults>>
  BY DEF vars, clientVars, wireVars, serverVars, history
<1>2. Live' = Live /\ Now' = Now /\ Incoming' = Incoming
  BY <1>1 DEF Live, Now, Incoming
<1>3. TypeOK'
  BY <1>1 DEF PlaceInv, TypeOK
<1>4. Stacked'
  BY <1>1, <1>2 DEF PlaceInv, Stacked
<1>5. Chained'
  BY <1>1, <1>2, ChainedSame DEF PlaceInv
<1>6. Calling'
  BY <1>1, <1>2 DEF PlaceInv, Calling, Awaited
<1>7. InPlace'
  BY <1>1, <1>2 DEF PlaceInv, InPlace
<1> QED BY <1>3, <1>4, <1>5, <1>6, <1>7 DEF PlaceInv

LEMMA NextPlace ==
  ASSUME PlaceInv, [Next]_vars
  PROVE  PlaceInv'
<1>1. Client \/ Server \/ UNCHANGED vars
  BY DEF Next
<1>2. CASE Client
  BY <1>2, StartPlace, NestPlace, OpenPlace, NotOpenedPlace, WritePlace, CommitPlace,
     CommitDonePlace, RollbackPlace, RollbackDonePlace, DropPlace DEF Client
<1>3. CASE Server
  BY <1>3, SrvStartPlace, SrvWritePlace, SrvSavepointPlace, SrvReleasePlace, SrvRollbackToPlace,
     SrvCommitPlace, SrvRollbackPlace, SrvFailPlace, LostPlace DEF Server
<1> QED BY <1>1, <1>2, <1>3, StutterPlace

-----------------------------------------------------------------------------
(* Every statement in its place                                            *)

\* The invariant that the theorems of this section rest on.
THEOREM PlaceCorrect == Spec => []PlaceInv
<1>1. Init => PlaceInv
  BY InitPlace
<1>2. PlaceInv /\ [Next]_vars => PlaceInv'
  BY NextPlace
<1> QED BY <1>1, <1>2, PTL DEF Spec

\* When nothing is pending and no Transaction is alive the server is in none,
\* whatever was cancelled, dropped or lost before (transaction.rs, Drop, and
\* transaction_builder.rs, RollbackIfNotDone).
THEOREM QuietCorrect == Spec => []QuietIsIdle
<1>1. PlaceInv => QuietIsIdle
  <2>1. SUFFICES ASSUME PlaceInv, handles = <<>>, Free, wire = <<>> PROVE tx = "idle"
    BY DEF QuietIsIdle
  <2>2. Live = {} /\ Now = {}
    BY <2>1, LiveFacts DEF PlaceInv, Now
  <2>3. CASE alive
    BY <2>1, <2>2, <2>3 DEF PlaceInv, InPlace, Free
  <2>4. CASE ~alive
    BY <2>1, <2>4 DEF PlaceInv, Calling
  <2> QED BY <2>3, <2>4
<1> QED BY <1>1, PlaceCorrect, PTL

\* Every statement is executed where it was issued: a START in no transaction, a
\* write in one exactly when its caller was in one, and what belongs to a
\* transaction in one.
THEOREM InItsPlaceCorrect == Spec => InItsPlace
<1> DEFINE Kind == CASE Incoming.type = "START" -> tx = "idle"
                     [] Incoming.type = "WRITE" -> (tx = "idle" <=> Incoming.under = {})
                     [] Incoming.type \in {"SAVEPOINT", "RELEASE", "COMMIT", "ROLLBACK TO"} -> tx # "idle"
                     [] OTHER -> TRUE
<1>1. PlaceInv => (wire # <<>> /\ alive' /\ wire' = Tail(wire) => Kind)
  <2>1. SUFFICES ASSUME PlaceInv, wire # <<>> PROVE Kind
    OBVIOUS
  <2>2. /\ Incoming.type = "START" => tx = "idle"
        /\ Incoming.type = "WRITE" => (tx = "idle" <=> Incoming.under = {})
        /\ Incoming.type \in {"SAVEPOINT", "RELEASE", "COMMIT", "ROLLBACK TO"} => tx # "idle"
    BY <2>1, Found
  <2> QED BY <2>2
<1> QED BY <1>1, PlaceCorrect, PTL DEF InItsPlace

-----------------------------------------------------------------------------
(* What is kept: the names, and the parts of the wire the server sees      *)

\* The live Transactions enclose what the server executes.
LEMMA NowFacts ==
  ASSUME PlaceInv
  PROVE  /\ Now \in SUBSET Handle /\ Live \in SUBSET Handle
         /\ Within(Live, Now) /\ Live \subseteq Now
         /\ \A h \in Now : h <= created /\ h \in Nat
         /\ Now # {} => \E h \in Now : point[h] = 0
         /\ wire # <<>> => Live \subseteq After(Incoming)
<1>1. TypeOK /\ Stacked /\ Chained
  BY DEF PlaceInv
<1>2. CASE wire = <<>>
  BY <1>1, <1>2, LiveFacts, HandleNat DEF Now, Within
<1>3. CASE wire # <<>>
  <2>1. Incoming \in WireRequest /\ RequestOK(Incoming) /\ Now = Incoming.under
    BY <1>3, Found DEF Now
  <2>2. 1 \in 1..Len(wire) /\ Incoming = wire[1]
    <3>1. wire \in Seq(WireRequest) /\ Len(wire) \in Nat \ {0}
      BY <1>1, <1>3, EmptySeq DEF TypeOK
    <3> QED BY <1>3, <3>1, HeadTailProperties, SMT DEF Incoming
  <2>3. Within(Live, After(Incoming)) /\ Within(After(Incoming), Incoming.under)
    BY <1>1, <2>1, <2>2, AfterWithin DEF Chained, Linked
  <2>4. Within(Live, Now)
    BY <2>1, <2>3, WithinTrans
  <2>5. Now \in SUBSET Handle /\ Live \in SUBSET Handle
    BY <1>1, <2>1, LiveFacts DEF WireRequest
  <2>6. /\ \A h \in Now : h <= created
        /\ Now # {} => \E h \in Now : point[h] = 0
    BY <2>1 DEF RequestOK
  <2> QED BY <2>3, <2>4, <2>5, <2>6, HandleNat DEF Within
<1> QED BY <1>2, <1>3

\* Callers do not give a savepoint the name of one that encloses it, nor a name of
\* the form that the default ones have.
NoReuse == ReuseNames = FALSE /\ UserNames \cap Handle = {}

LEMMA InitNamed ==
  ASSUME Init
  PROVE  Named
<1>1. handles = <<>> /\ Len(handles) = 0 /\ Live = {} /\ wire = <<>> /\ Len(wire) = 0
  BY DEF Init, Live
<1>2. created = 0 /\ call.kind = "none" /\ 2..0 = {}
  BY SMT DEF Init, NoCall
<1> QED BY <1>1, <1>2 DEF Named, Elements

LEMMA SentElements ==
  ASSUME TypeOK, NEW r \in WireRequest, Send(r)
  PROVE  Elements(wire') \subseteq Elements(wire) \cup {r}
<1>1. wire \in Seq(WireRequest)
  BY DEF TypeOK
<1>2. CASE alive
  <2>1. wire' = Append(wire, r)
    BY <1>2 DEF Send
  <2> QED BY <1>1, <2>1, ElementsAppend
<1>3. CASE ~alive
  <2>1. wire' = wire
    BY <1>3 DEF Send
  <2> QED BY <2>1
<1> QED BY <1>2, <1>3

LEMMA NestNamed ==
  ASSUME PlaceInv, Named, NoReuse, Nest
  PROVE  Named'
<1>1. TypeOK /\ Stacked
  BY DEF PlaceInv
<1>2. PICK n \in Names : Send(Request("SAVEPOINT", n)) /\ Await(Call("savepoint", 0, n))
  BY DEF Nest
<1>3. UNCHANGED <<handles, point, created>> /\ Live' = Live /\ handles # <<>>
  BY DEF Nest, Live
<1>4. Len(handles) \in Nat \ {0} /\ \A i \in 1..Len(handles) : handles[i] \in Handle
  BY <1>1, <1>3, EmptySeq, ElementOfSeq DEF TypeOK
<1>5. Len(handles) \in Handle
  <2>1. created \in 0..MaxHandles /\ Len(handles) <= created /\ MaxHandles \in Nat
    BY <1>1, TransactionAssumption DEF TypeOK, Named
  <2> QED BY <1>4, <2>1, SMT DEF Handle
<1>6. n = Len(handles) \/ n \in UserNames
  BY DEF Names, DefaultName
<1>7. \A h \in Live : point[h] # n
  <2>1. SUFFICES ASSUME NEW i \in 1..Len(handles), point[handles[i]] = n PROVE FALSE
    BY DEF Live
  <2>2. handles[i] \in Live
    BY DEF Live
  <2>3. CASE n = Len(handles)
    <3>1. CASE i = 1
      <4>1. point[handles[i]] = 0
        BY <1>1, <3>1 DEF Stacked
      <4> QED BY <1>4, <2>1, <2>3, <4>1, SMT
    <3>2. CASE i # 1
      <4>1. i \in 2..Len(handles) /\ i - 1 # Len(handles)
        BY <1>4, <3>2, SMT
      <4>2. point[handles[i]] \in UserNames
        BY <2>1, <2>3, <4>1 DEF Named
      <4> QED BY <1>5, <2>1, <2>3, <4>2 DEF NoReuse
    <3> QED BY <3>1, <3>2
  <2>4. CASE n # Len(handles)
    BY <2>1, <2>2, <2>4 DEF Names, DefaultName, NoReuse
  <2> QED BY <2>3, <2>4
<1>8. n \in Nat
  BY <1>4, <1>6, TransactionAssumption
<1>9. call'.kind = "savepoint" /\ call'.name = n
  BY <1>1, <1>2, <1>8, AwaitType
<1>10. ASSUME NEW q \in Elements(wire'), q.type = "SAVEPOINT"
       PROVE  \A h \in q.under : point[h] # q.of
  <2>1. CASE q \in Elements(wire)
    BY <1>10, <2>1 DEF Named
  <2>2. CASE q \notin Elements(wire)
    <3>1. PICK r \in WireRequest :
            r = Request("SAVEPOINT", n) /\ r.of = n /\ r.under = Live
      <4>1. "SAVEPOINT" \in RequestType
        BY DEF RequestType
      <4> QED BY <1>1, <1>8, <4>1, RequestShape
    <3>2. q = r
      BY <1>1, <1>2, <1>10, <2>2, <3>1, SentElements
    <3> QED BY <1>7, <3>1, <3>2
  <2> QED BY <2>1, <2>2
<1> QED BY <1>3, <1>6, <1>7, <1>9, <1>10 DEF Named

LEMMA OpenNamed ==
  ASSUME PlaceInv, Named, NoReuse, Open
  PROVE  Named'
<1>1. TypeOK /\ Stacked /\ Calling
  BY DEF PlaceInv
<1>2. /\ wire' = <<>> /\ Len(wire') = 0 /\ call'.kind = "none"
      /\ call.kind \in {"start", "savepoint"} /\ created' = created + 1
  BY <1>1 DEF Open, Calling, wireVars, NoCall
<1>3. PICK n \in Handle : n = created + 1
  <2>1. created + 1 \in 1..MaxHandles
    BY <1>1, TransactionAssumption, SMT DEF Open, TypeOK
  <2> QED BY <2>1 DEF Handle
<1>4. handles' = Append(handles, n) /\ point' = [point EXCEPT ![n] = call.name]
  BY <1>3 DEF Open
<1>5. created \in Nat /\ Len(handles) \in Nat /\ n \notin Live
  <2>1. created \in Nat /\ n > created /\ ~(n <= created)
    BY <1>1, <1>3, SMT DEF TypeOK
  <2> QED BY <1>1, <2>1, LiveFacts DEF TypeOK
<1>6. /\ Len(handles') = Len(handles) + 1 /\ handles'[Len(handles) + 1] = n
      /\ \A i \in 1..Len(handles) : handles'[i] = handles[i] /\ handles[i] \in Live
      /\ Live' = Live \cup {n} /\ Live \subseteq Handle
  <2>1. handles \in Seq(Handle) /\ Live = Elements(handles) /\ Live' = Elements(handles')
    BY <1>1 DEF TypeOK, Live, Elements
  <2>2. /\ Len(handles') = Len(handles) + 1 /\ handles'[Len(handles) + 1] = n
        /\ \A i \in 1..Len(handles) : handles'[i] = handles[i]
    BY <1>4, <2>1, AppendProperties
  <2>3. Live' = Live \cup {n} /\ Live \subseteq Handle
    BY <1>4, <2>1, ElementsAppend
  <2>4. \A i \in 1..Len(handles) : handles[i] \in Live
    BY DEF Live
  <2> QED BY <2>2, <2>3, <2>4
<1>7. point'[n] = call.name /\ \A h \in Live : point'[h] = point[h]
  BY <1>1, <1>4, <1>5, <1>6 DEF TypeOK
<1>8. Len(handles') <= created'
  BY <1>2, <1>5, <1>6, SMT DEF Named
<1>9. ASSUME NEW i \in 2..Len(handles')
      PROVE  point'[handles'[i]] = i - 1 \/ point'[handles'[i]] \in UserNames
  <2>1. CASE i \in 1..Len(handles)
    <3>1. i \in 2..Len(handles)
      BY <1>5, <1>9, <2>1, SMT
    <3> QED BY <1>6, <1>7, <2>1, <3>1 DEF Named
  <2>2. CASE i = Len(handles) + 1
    <3>1. Len(handles) # 0 /\ i - 1 = Len(handles)
      BY <1>5, <1>9, <2>2, SMT
    <3>2. call.kind = "savepoint"
      <4>1. handles # <<>>
        BY <3>1
      <4> QED BY <1>1, <1>2, <4>1 DEF Calling
    <3> QED BY <1>6, <1>7, <2>2, <3>1, <3>2 DEF Named
  <2>3. i \in 1..Len(handles) \/ i = Len(handles) + 1
    BY <1>5, <1>6, <1>9, SMT
  <2> QED BY <2>1, <2>2, <2>3
<1>10. \A h \in Live : point[h] # call.name
  <2>1. call.kind = "start" => Live = {}
    BY <1>1, LiveFacts DEF Calling
  <2> QED BY <1>2, <2>1 DEF Named
<1>11. \A g, h \in Live' : g # h => point'[g] # point'[h]
  BY <1>5, <1>6, <1>7, <1>10 DEF Named
<1> QED BY <1>2, <1>8, <1>9, <1>11 DEF Named, Elements

\* Ending a handle leaves the names of the others.
LEMMA EndNamed ==
  ASSUME PlaceInv, Named, handles # <<>>, handles' = Outer, UNCHANGED <<point, created>>,
         call'.kind # "savepoint",
         \A q \in Elements(wire') : q \in Elements(wire) \/ q.type # "SAVEPOINT"
  PROVE  Named'
<1>1. /\ Len(handles') = Len(handles) - 1
      /\ \A i \in 1..Len(handles') : handles'[i] = handles[i]
      /\ Live' \subseteq Live
  <2>1. Live' = Elements(handles')
    BY DEF Live, Elements
  <2> QED BY <2>1, Top DEF PlaceInv
<1>2. Len(handles) \in Nat \ {0} /\ created \in Nat
  BY EmptySeq, SMT DEF PlaceInv, TypeOK
<1>3. Len(handles') <= created /\ \A i \in 2..Len(handles') : i \in 1..Len(handles') /\ i \in 2..Len(handles)
  <2>1. Len(handles) <= created
    BY DEF Named
  <2>2. \A m \in Nat \ {0} : \A k : k = m - 1 /\ m <= created =>
          k <= created /\ \A i \in 2..k : i \in 1..k /\ i \in 2..m
    BY <1>2, SMT
  <2> QED BY <1>1, <1>2, <2>1, <2>2
<1> QED BY <1>1, <1>3 DEF Named

\* As does any step that leaves the handles alone.
LEMMA SameNamed ==
  ASSUME Named, UNCHANGED <<handles, point, created>>,
         call'.kind = "savepoint" => call.kind = "savepoint" /\ call'.name = call.name,
         \A q \in Elements(wire') : q \in Elements(wire) \/ q.type # "SAVEPOINT"
  PROVE  Named'
<1>1. Live' = Live
  BY DEF Live
<1> QED BY <1>1 DEF Named

LEMMA SendElements ==
  ASSUME TypeOK, Stacked, NEW t \in RequestType, NEW n \in Nat, t # "SAVEPOINT", Send(Request(t, n))
  PROVE  \A q \in Elements(wire') : q \in Elements(wire) \/ q.type # "SAVEPOINT"
<1>1. PICK r \in WireRequest : r = Request(t, n) /\ r.type = t
  BY RequestShape
<1> QED BY <1>1, SentElements

LEMMA TailElements ==
  ASSUME NEW s \in Seq(WireRequest), s # <<>>
  PROVE  Elements(Tail(s)) \subseteq Elements(s)
<1>1. Len(s) \in Nat \ {0} /\ Len(Tail(s)) = Len(s) - 1 /\ \A i \in 1..Len(Tail(s)) : Tail(s)[i] = s[i + 1]
  BY HeadTailProperties, EmptySeq
<1>2. \A i \in 1..Len(Tail(s)) : i + 1 \in 1..Len(s)
  BY <1>1, SMT
<1> QED BY <1>1, <1>2 DEF Elements

\* Ending requests are no SAVEPOINT either.
LEMMA EndElements ==
  ASSUME TypeOK, Stacked, handles # <<>>, NEW a \in RequestType, NEW b \in RequestType,
         a # "SAVEPOINT", b # "SAVEPOINT",
         Send(IF point[Current] = 0 THEN Request(a, 0) ELSE Request(b, point[Current]))
  PROVE  \A q \in Elements(wire') : q \in Elements(wire) \/ q.type # "SAVEPOINT"
<1>1. PICK r \in WireRequest : Send(r) /\ r.type \in {a, b}
  BY EndRequest
<1> QED BY <1>1, SentElements

LEMMA NextNamed ==
  ASSUME PlaceInv, Named, NoReuse, [Next]_vars
  PROVE  Named'
<1>1. TypeOK /\ Stacked /\ Calling
  BY DEF PlaceInv
<1>2. /\ "START" \in RequestType /\ "WRITE" \in RequestType /\ "COMMIT" \in RequestType
      /\ "RELEASE" \in RequestType /\ "ROLLBACK" \in RequestType /\ "ROLLBACK TO" \in RequestType
      /\ 0 \in Nat
  BY DEF RequestType
<1>3. CASE Start
  <2>1. call'.kind = "start"
    BY <1>1, <1>3, AwaitType DEF Start
  <2> QED BY <1>1, <1>2, <1>3, <2>1, SendElements, SameNamed DEF Start
<1>4. CASE Nest
  BY <1>4, NestNamed
<1>5. CASE Open
  BY <1>5, OpenNamed
<1>6. CASE NotOpened
  <2>1. call'.kind = "none"
    BY <1>6 DEF NotOpened, NoCall
  <2>2. CASE call.kind = "start"
    BY <1>1, <1>2, <1>6, <2>1, <2>2, SendElements, SameNamed DEF NotOpened, Cleaner
  <2>3. CASE call.kind # "start"
    BY <1>6, <2>1, <2>3, SameNamed DEF NotOpened, wireVars
  <2> QED BY <2>2, <2>3
<1>7. CASE Write
  <2>1. PICK w \in Writes : Send(Request("WRITE", w))
    BY <1>7 DEF Write
  <2>2. w \in Nat
    BY HandleNat
  <2>3. UNCHANGED <<handles, point, created, call>>
    BY <1>7 DEF Write, clientVars
  <2>4. \A q \in Elements(wire') : q \in Elements(wire) \/ q.type # "SAVEPOINT"
    BY <1>1, <1>2, <2>1, <2>2, SendElements
  <2> QED BY <2>3, <2>4, SameNamed
<1>8. CASE Commit
  <2>1. call'.kind = "commit"
    <3>1. Current \in Handle
      BY <1>1, <1>8, Top DEF Commit
    <3> QED BY <1>1, <1>2, <1>8, <3>1, AwaitType DEF Commit
  <2>2. \A q \in Elements(wire') : q \in Elements(wire) \/ q.type # "SAVEPOINT"
    BY <1>1, <1>2, <1>8, EndElements DEF Commit, CommitRequest
  <2> QED BY <1>8, <2>1, <2>2, EndNamed DEF Commit, Ends
<1>9. CASE Rollback
  <2>1. call'.kind = "rollback"
    <3>1. Current \in Handle
      BY <1>1, <1>9, Top DEF Rollback
    <3> QED BY <1>1, <1>2, <1>9, <3>1, AwaitType DEF Rollback
  <2>2. \A q \in Elements(wire') : q \in Elements(wire) \/ q.type # "SAVEPOINT"
    BY <1>1, <1>2, <1>9, EndElements DEF Rollback, RollbackRequest
  <2> QED BY <1>9, <2>1, <2>2, EndNamed DEF Rollback, Ends
<1>10. CASE Drop
  <2>1. call'.kind = "none"
    BY <1>10 DEF Drop, Free
  <2>2. \A q \in Elements(wire') : q \in Elements(wire) \/ q.type # "SAVEPOINT"
    BY <1>1, <1>2, <1>10, EndElements DEF Drop, DropRequest
  <2> QED BY <1>10, <2>1, <2>2, EndNamed DEF Drop, Ends
<1>11. CASE CommitDone
  BY <1>11, SameNamed DEF CommitDone, NoCall, wireVars
<1>12. CASE RollbackDone
  BY <1>12, SameNamed DEF RollbackDone, NoCall, wireVars
<1>13. ASSUME wire # <<>>, NEW a \in {"ok", "err"}, Executes(a) PROVE Named'
  <2>1. Elements(wire') \subseteq Elements(wire)
    BY <1>1, <1>13, TailElements DEF Executes, TypeOK
  <2>2. call'.kind = call.kind /\ call'.name = call.name
    BY <1>1, <1>13 DEF Executes, TypeOK, PendingCall
  <2>3. UNCHANGED <<handles, point, created>>
    BY <1>13 DEF Executes
  <2> QED BY <2>1, <2>2, <2>3, SameNamed
<1>14. CASE Lost
  <2>1. wire' = <<>> /\ Len(wire') = 0 /\ UNCHANGED <<handles, point, created>>
    BY <1>14 DEF Lost
  <2>2. call'.kind = call.kind /\ call'.name = call.name
    BY <1>1, <1>14 DEF Lost, TypeOK, PendingCall
  <2> QED BY <2>1, <2>2, SameNamed DEF Elements
<1>15. CASE UNCHANGED vars
  BY <1>15, SameNamed DEF vars, clientVars, wireVars
<1>16. CASE Server
  BY <1>13, <1>14, <1>16 DEF Server, SrvStart, SrvWrite, SrvSavepoint, SrvRelease, SrvRollbackTo,
     SrvCommit, SrvRollback, SrvFail, Arrives
<1>17. Client \/ Server \/ UNCHANGED vars
  BY DEF Next
<1> QED BY <1>3, <1>4, <1>5, <1>6, <1>7, <1>8, <1>9, <1>10, <1>11, <1>12, <1>15, <1>16, <1>17
        DEF Client

-----------------------------------------------------------------------------
(* What is kept: the steps of the client                                   *)

Data == Nested /\ Working /\ Saved /\ Durable /\ Faulty /\ Committed

LEMMA InitData ==
  ASSUME Init
  PROVE  Data
<1>1. Live = {} /\ wire = <<>> /\ Now = {}
  BY DEF Init, Live, Now
<1>2. Nested /\ Working /\ Saved /\ Durable /\ Faulty
  BY <1>1 DEF Init, Nested, Working, Saved, Durable, Faulty, NoCall
<1>3. \A h \in Handle : ~Agreed(h)
  BY DEF Init, Agreed, NoCall
<1> QED BY <1>2, <1>3 DEF Data, Committed

\* A statement that is sent, and a Transaction that ends, change nothing yet.
Sends ==
  /\ UNCHANGED <<tx, saves, work, durable, faults, point, alive>>
  /\ alive => Now' = Now
  /\ ~alive => wire = <<>> /\ wire' = <<>>
  /\ Live' \subseteq Live
  /\ \A w \in Writes : /\ outcome[w] # "unused" => under'[w] = under[w] /\ outcome'[w] = outcome[w]
                       /\ outcome[w] = "unused" => /\ outcome'[w] # "ok"
                                                   /\ under'[w] = under[w] \/ under'[w] = Live
  /\ \A h \in Handle : /\ fate'[h] = "discarded" => fate[h] = "discarded" \/ h \in Live
                       /\ fate[h] = "discarded" => fate'[h] = "discarded"
                       /\ Agreed(h)' => Agreed(h)
  /\ call'.answer # "ok"

LEMMA SendsData ==
  ASSUME PlaceInv, Data, Sends
  PROVE  Data'
<1>1. /\ Now \in SUBSET Handle /\ Live \in SUBSET Handle
      /\ Within(Live, Now) /\ Live \subseteq Now
  BY NowFacts
<1>2. /\ under \in [Writes -> SUBSET Handle] /\ durable \subseteq Writes /\ work \subseteq Writes
      /\ faults \subseteq SUBSET Handle
  BY DEF PlaceInv, TypeOK
<1>3. Now' \subseteq Now /\ (~alive => Now = Live /\ Now' = Live')
  <2>1. ~alive => Now = Live /\ Now' = Live'
    BY DEF Sends, Now
  <2> QED BY <2>1 DEF Sends
<1>4. Nested'
  <2>1. SUFFICES ASSUME NEW w \in Writes, NEW h \in under'[w] \cap Now', NEW g \in Now', g <= h
                 PROVE  g \in under'[w]
    BY DEF Nested
  <2>2. CASE under'[w] = under[w]
    BY <1>3, <2>1, <2>2 DEF Data, Nested
  <2>3. CASE under'[w] = Live
    BY <1>1, <1>3, <2>1, <2>3 DEF Within
  <2> QED BY <2>2, <2>3 DEF Sends
<1>5. ASSUME alive, NEW hs \in SUBSET Handle PROVE Kept(hs)' <=> Kept(hs)
  <2>1. \A h \in hs : (h \in Now' \/ fate'[h] # "discarded") <=> (h \in Now \/ fate[h] # "discarded")
    BY <1>1, <1>5 DEF Sends
  <2> QED BY <2>1 DEF Kept
<1>6. ASSUME alive, NEW w \in Writes
      PROVE  (outcome'[w] = "ok" /\ under'[w] \cap Now' # {} /\ Kept(under[w])') <=>
             (outcome[w] = "ok" /\ under[w] \cap Now # {} /\ Kept(under[w]))
  <2>1. CASE outcome[w] = "unused"
    BY <2>1 DEF Sends
  <2>2. CASE outcome[w] # "unused"
    <3>1. PICK u \in SUBSET Handle : u = under[w] /\ u = under'[w]
      BY <1>2, <2>2 DEF Sends
    <3>2. Kept(u)' <=> Kept(u)
      BY <1>5, <1>6
    <3>3. (Kept(under[w])' <=> Kept(u)') /\ (Kept(under[w]) <=> Kept(u))
      BY <3>1 DEF Kept
    <3>4. outcome'[w] = outcome[w] /\ Now' = Now
      BY <1>6, <2>2 DEF Sends
    <3> QED BY <3>1, <3>2, <3>3, <3>4
  <2> QED BY <2>1, <2>2
<1>7. Working'
  <2>1. SUFFICES ASSUME alive
                 PROVE  work = {w \in Writes : outcome'[w] = "ok" /\ under'[w] \cap Now' # {}
                                               /\ Kept(under[w])'}
    BY DEF Sends, Working
  <2>2. work = {w \in Writes : outcome[w] = "ok" /\ under[w] \cap Now # {} /\ Kept(under[w])}
    BY <2>1 DEF Data, Working
  <2> QED BY <1>6, <2>1, <2>2
<1>8. Saved'
  <2>1. alive => \A w \in work : under'[w] = under[w]
    BY DEF Data, Working, Sends
  <2>2. ASSUME alive, NEW h \in Now, Point(h) PROVE Point(h)'
    <3>1. {w \in work : h \notin under'[w]} = {w \in work : h \notin under[w]}
      BY <2>1, <2>2
    <3> QED BY <2>2, <3>1 DEF Point, Sends
  <2>3. UNCHANGED <<saves, point, alive>> /\ (alive => Now' = Now) /\ call'.answer # "ok"
    BY DEF Sends
  <2> QED BY <2>2, <2>3 DEF Data, Saved
<1>9. Durable'
  <2>1. SUFFICES ASSUME NEW w \in durable
                 PROVE  outcome'[w] = "ok" /\ \A h \in under'[w] : fate'[h] # "discarded" /\ h \notin Live'
    BY DEF Durable, Sends
  <2>2. outcome[w] = "ok" /\ \A h \in under[w] : fate[h] # "discarded" /\ h \notin Live
    BY DEF Data, Durable
  <2>3. w \in Writes /\ under[w] \subseteq Handle
    BY <1>2
  <2> QED BY <2>2, <2>3 DEF Sends
<1>10. Faulty'
  <2>1. SUFFICES ASSUME alive, tx = "failed", Now # {}
                 PROVE  \E hs \in faults : Kept(hs)' /\ \E h \in hs \cap Now' : point[h] = 0
    BY DEF Faulty, Sends
  <2>2. PICK hs \in faults : Kept(hs) /\ \E h \in hs \cap Now : point[h] = 0
    BY <2>1 DEF Data, Faulty
  <2>3. Kept(hs)' /\ Now' = Now
    BY <1>2, <1>5, <2>1, <2>2 DEF Sends
  <2> QED BY <2>2, <2>3
<1>11. Committed'
  <2>1. SUFFICES ASSUME NEW h \in Handle, Agreed(h), point[h] = 0
                 PROVE  /\ h \notin Now'
                        /\ \/ Changes(h)' \subseteq durable
                           \/ \E hs \in faults : h \in hs /\ \A g \in hs : fate'[g] # "discarded" /\ g \notin Live'
    BY DEF Committed, Sends
  <2>2. /\ h \notin Now
        /\ \/ Changes(h) \subseteq durable
           \/ \E hs \in faults : h \in hs /\ \A g \in hs : fate[g] # "discarded" /\ g \notin Live
    BY <2>1 DEF Data, Committed
  <2>3. Changes(h)' \subseteq Changes(h)
    <3>1. SUFFICES ASSUME NEW w \in Writes, h \in under'[w], outcome'[w] = "ok", ~Discarded(under[w])'
                   PROVE  h \in under[w] /\ outcome[w] = "ok" /\ ~Discarded(under[w])
      BY DEF Changes
    <3>2. outcome[w] # "unused" /\ under'[w] = under[w] /\ outcome[w] = "ok"
      BY <3>1 DEF Sends
    <3>3. \A g \in under[w] : fate'[g] # "discarded"
      BY <3>1, <3>2 DEF Discarded
    <3>4. \A g \in under[w] : fate[g] # "discarded"
      BY <1>2, <3>3 DEF Sends
    <3> QED BY <3>1, <3>2, <3>4 DEF Discarded
  <2>4. CASE \E hs \in faults : h \in hs /\ \A g \in hs : fate[g] # "discarded" /\ g \notin Live
    <3>1. PICK hs \in faults : h \in hs /\ \A g \in hs : fate[g] # "discarded" /\ g \notin Live
      BY <2>4
    <3>2. \A g \in hs : fate'[g] # "discarded" /\ g \notin Live'
      BY <1>2, <3>1 DEF Sends
    <3> QED BY <1>3, <2>2, <3>1, <3>2
  <2> QED BY <1>3, <2>2, <2>3, <2>4
<1> QED BY <1>4, <1>7, <1>8, <1>9, <1>10, <1>11 DEF Data

LEMMA NowSent ==
  ASSUME PlaceInv, NEW r \in WireRequest, Send(r), r.under = Live
  PROVE  /\ alive => Now' = Now
         /\ ~alive => wire = <<>> /\ wire' = <<>>
         /\ alive' = alive
<1>1. wire \in Seq(WireRequest)
  BY DEF PlaceInv, TypeOK
<1>2. alive' = alive /\ (~alive => wire = <<>> /\ wire' = <<>>)
  BY DEF PlaceInv, Calling, Send
<1>3. SUFFICES ASSUME alive PROVE Now' = Now
  BY <1>2
<1>4. wire' = Append(wire, r)
  BY <1>3 DEF Send
<1>5. /\ wire' \in Seq(WireRequest) /\ wire' # <<>> /\ Len(wire) \in Nat
      /\ wire'[Len(wire) + 1] = r /\ \A i \in 1..Len(wire) : wire'[i] = wire[i]
  BY <1>1, <1>4, AppendProperties
<1>6. Incoming' = wire'[1]
  BY <1>5, HeadTailProperties DEF Incoming
<1>7. CASE wire = <<>>
  <2>1. Len(wire) = 0
    BY <1>7
  <2> QED BY <1>5, <1>6, <1>7, <2>1 DEF Now
<1>8. CASE wire # <<>>
  <2>1. 1 \in 1..Len(wire) /\ Incoming = wire[1]
    BY <1>1, <1>5, <1>8, EmptySeq, HeadTailProperties, SMT DEF Incoming
  <2> QED BY <1>5, <1>6, <1>8, <2>1 DEF Now
<1> QED BY <1>7, <1>8

LEMMA ShapeSent ==
  ASSUME PlaceInv, NEW t \in RequestType, NEW n \in Nat, Send(Request(t, n))
  PROVE  /\ alive => Now' = Now
         /\ ~alive => wire = <<>> /\ wire' = <<>>
         /\ alive' = alive
<1>1. PICK r \in WireRequest : r = Request(t, n) /\ r.under = Live
  BY RequestShape DEF PlaceInv
<1> QED BY <1>1, NowSent

\* Steps that send but end no Transaction.
LEMMA SameSends ==
  ASSUME UNCHANGED <<tx, saves, work, durable, faults, point, handles, fate, under, outcome, alive>>,
         alive => Now' = Now,
         ~alive => wire = <<>> /\ wire' = <<>>,
         call'.answer # "ok"
  PROVE  Sends
<1>1. Live' = Live
  BY DEF Live
<1>2. \A w \in Writes : under'[w] = under[w] /\ outcome'[w] = outcome[w]
  OBVIOUS
<1>3. \A h \in Handle : Agreed(h)' => Agreed(h)
  BY DEF Agreed
<1> QED BY <1>1, <1>2, <1>3 DEF Sends

LEMMA EndSends ==
  ASSUME PlaceInv, handles # <<>>, NEW how \in {"committing", "discarded"}, Ends(Current, how),
         NEW a \in RequestType, NEW b \in RequestType,
         Send(IF point[Current] = 0 THEN Request(a, 0) ELSE Request(b, point[Current])),
         UNCHANGED <<tx, saves, work, durable, faults, point, under, outcome>>,
         call'.answer # "ok"
  PROVE  Sends
<1>1. TypeOK /\ Stacked
  BY DEF PlaceInv
<1>2. PICK r \in WireRequest : Send(r) /\ r.under = Live
  BY <1>1, EndRequest
<1>3. /\ alive => Now' = Now
      /\ ~alive => wire = <<>> /\ wire' = <<>>
      /\ alive' = alive
  BY <1>2, NowSent
<1>4. PICK c \in Handle : c = Current
  BY <1>1, Top
<1>5. /\ c \in Live /\ fate[c] = "live" /\ Live' \subseteq Live
      /\ fate'[c] = how /\ \A h \in Handle : h # c => fate'[h] = fate[h]
  <2>1. Live' = Elements(handles')
    BY DEF Live, Elements
  <2>2. fate' = [fate EXCEPT ![c] = how] /\ fate \in [Handle -> Fate]
    BY <1>1, <1>4 DEF Ends, TypeOK
  <2> QED BY <1>1, <1>4, <2>1, <2>2, Top DEF Ends
<1>6. \A h \in Handle : Agreed(h)' => Agreed(h)
  BY <1>5 DEF Agreed
<1> QED BY <1>3, <1>5, <1>6 DEF Sends

LEMMA ClientSends ==
  ASSUME PlaceInv, Client, ~Open
  PROVE  Sends
<1>1. TypeOK /\ Stacked /\ Calling
  BY DEF PlaceInv
<1>2. /\ "START" \in RequestType /\ "WRITE" \in RequestType /\ "COMMIT" \in RequestType
      /\ "RELEASE" \in RequestType /\ "ROLLBACK" \in RequestType /\ "ROLLBACK TO" \in RequestType
      /\ "SAVEPOINT" \in RequestType /\ 0 \in Nat
  BY DEF RequestType
<1>3. CASE Start
  <2>1. call'.answer # "ok"
    BY <1>1, <1>3, AwaitType DEF Start
  <2>2. Send(Request("START", 0))
    BY <1>3 DEF Start
  <2>3. UNCHANGED <<tx, saves, work, durable, faults, point, handles, fate, under, outcome>>
    BY <1>3 DEF Start, serverVars, history
  <2> QED BY <1>2, <2>1, <2>2, <2>3, ShapeSent, SameSends
<1>4. CASE Nest
  <2>1. PICK n \in Names : Send(Request("SAVEPOINT", n)) /\ Await(Call("savepoint", 0, n))
    BY <1>4 DEF Nest
  <2>2. n \in Nat
    <3>1. Len(handles) \in Nat
      BY <1>1 DEF TypeOK
    <3>2. n = Len(handles) \/ n \in UserNames
      BY DEF Names, DefaultName
    <3> QED BY <3>1, <3>2, TransactionAssumption
  <2>3. call'.answer # "ok"
    BY <1>1, <2>1, <2>2, AwaitType
  <2>4. UNCHANGED <<tx, saves, work, durable, faults, point, handles, fate, under, outcome>>
    BY <1>4 DEF Nest, serverVars, history
  <2> QED BY <1>2, <2>1, <2>2, <2>3, <2>4, ShapeSent, SameSends
<1>5. CASE NotOpened
  <2>1. /\ call'.answer # "ok"
        /\ UNCHANGED <<tx, saves, work, durable, faults, point, handles, fate, under, outcome>>
    BY <1>5 DEF NotOpened, NoCall, serverVars, history
  <2>2. CASE call.kind = "start"
    <3>1. Send(Request("ROLLBACK", 0))
      BY <1>5, <2>2 DEF NotOpened, Cleaner
    <3> QED BY <1>2, <2>1, <3>1, ShapeSent, SameSends
  <2>3. CASE call.kind # "start"
    <3>1. UNCHANGED <<wire, alive>>
      BY <1>5, <2>3 DEF NotOpened, wireVars
    <3>2. Now' = Now
      BY <2>1, <3>1 DEF Now, Live, Incoming
    <3>3. ~alive => wire = <<>>
      BY <1>1 DEF Calling
    <3> QED BY <2>1, <3>1, <3>2, <3>3, SameSends
  <2> QED BY <2>2, <2>3
<1>6. CASE Write
  <2>1. PICK w \in Writes :
          /\ \A v \in Writes : outcome[v] = "unused" <=> v >= w
          /\ Send(Request("WRITE", w))
          /\ under' = [under EXCEPT ![w] = Live]
          /\ outcome' = [outcome EXCEPT ![w] = "sent"]
    BY <1>6 DEF Write
  <2>2. w \in Nat /\ outcome[w] = "unused"
    <3>1. w \in Nat
      BY HandleNat
    <3>2. w >= w
      BY <3>1, SMT
    <3> QED BY <2>1, <3>1, <3>2
  <2>3. UNCHANGED <<tx, saves, work, durable, faults, point, handles, fate, call>>
    BY <1>6 DEF Write, clientVars, serverVars
  <2>4. call'.answer # "ok"
    BY <1>1, <1>6, <2>3 DEF Write, MayCall, Free, Calling
  <2>5. \A v \in Writes : /\ outcome[v] # "unused" => under'[v] = under[v] /\ outcome'[v] = outcome[v]
                          /\ outcome[v] = "unused" => /\ outcome'[v] # "ok"
                                                      /\ under'[v] = under[v] \/ under'[v] = Live
    <3>1. SUFFICES ASSUME NEW v \in Writes
                   PROVE  /\ outcome[v] # "unused" => under'[v] = under[v] /\ outcome'[v] = outcome[v]
                          /\ outcome[v] = "unused" => /\ outcome'[v] # "ok"
                                                      /\ under'[v] = under[v] \/ under'[v] = Live
      OBVIOUS
    <3>2. CASE v = w
      BY <1>1, <2>1, <2>2, <3>2 DEF TypeOK
    <3>3. CASE v # w
      BY <1>1, <2>1, <3>3 DEF TypeOK
    <3> QED BY <3>2, <3>3
  <2>6. Live' = Live /\ \A h \in Handle : Agreed(h)' => Agreed(h)
    BY <2>3 DEF Live, Agreed
  <2>7. /\ alive => Now' = Now
        /\ ~alive => wire = <<>> /\ wire' = <<>>
        /\ alive' = alive
    BY <1>2, <2>1, <2>2, ShapeSent
  <2> QED BY <2>3, <2>4, <2>5, <2>6, <2>7 DEF Sends
<1>7. CASE Commit
  <2>1. Current \in Handle /\ handles # <<>>
    BY <1>1, <1>7, Top DEF Commit
  <2>2. call'.answer # "ok"
    BY <1>1, <1>2, <1>7, <2>1, AwaitType DEF Commit
  <2>3. UNCHANGED <<tx, saves, work, durable, faults, point, under, outcome>>
    BY <1>7 DEF Commit, serverVars, history
  <2> QED BY <1>2, <1>7, <2>1, <2>2, <2>3, EndSends DEF Commit, CommitRequest
<1>8. CASE Rollback
  <2>1. Current \in Handle /\ handles # <<>>
    BY <1>1, <1>8, Top DEF Rollback
  <2>2. call'.answer # "ok"
    BY <1>1, <1>2, <1>8, <2>1, AwaitType DEF Rollback
  <2>3. UNCHANGED <<tx, saves, work, durable, faults, point, under, outcome>>
    BY <1>8 DEF Rollback, serverVars, history
  <2> QED BY <1>2, <1>8, <2>1, <2>2, <2>3, EndSends DEF Rollback, RollbackRequest
<1>9. CASE Drop
  <2>1. handles # <<>> /\ call'.answer # "ok"
    BY <1>1, <1>9 DEF Drop, Free, Calling
  <2>2. UNCHANGED <<tx, saves, work, durable, faults, point, under, outcome>>
    BY <1>9 DEF Drop, serverVars, history
  <2> QED BY <1>2, <1>9, <2>1, <2>2, EndSends DEF Drop, DropRequest
<1>10. CASE CommitDone
  <2>1. PICK c \in Handle : c = call.handle /\ fate[c] = "committing"
    BY <1>1, <1>10 DEF Calling, CommitDone
  <2>2. fate' = [fate EXCEPT ![c] = CASE call.answer = "ok"   -> "committed"
                                      [] call.answer = "err"  -> "failed"
                                      [] call.answer = "none" -> "unknown"]
    BY <1>10, <2>1 DEF CommitDone
  <2>3. call.answer \in {"none", "ok", "err"} /\ fate \in [Handle -> Fate]
    BY <1>1 DEF TypeOK, PendingCall
  <2>4. /\ fate'[c] \in {"committed", "failed", "unknown"}
        /\ fate'[c] = "committed" => call.answer = "ok"
        /\ \A h \in Handle : h # c => fate'[h] = fate[h]
    BY <2>2, <2>3
  <2>5. /\ UNCHANGED <<tx, saves, work, durable, faults, point, handles, wire, alive, under, outcome>>
        /\ call'.answer = "none" /\ call'.kind = "none"
    BY <1>10 DEF CommitDone, NoCall, wireVars, serverVars, history
  <2>6. Live' = Live /\ Now' = Now
    BY <2>5 DEF Now, Live, Incoming
  <2>7. \A h \in Handle : Agreed(h)' => Agreed(h)
    BY <1>10, <2>1, <2>4, <2>5 DEF Agreed, CommitDone
  <2>8. ~alive => wire = <<>>
    BY <1>1 DEF Calling
  <2>9. \A h \in Handle : /\ fate'[h] = "discarded" => fate[h] = "discarded"
                          /\ fate[h] = "discarded" => fate'[h] = "discarded"
    BY <2>1, <2>4
  <2> QED BY <2>5, <2>6, <2>7, <2>8, <2>9 DEF Sends
<1>11. CASE RollbackDone
  <2>1. /\ UNCHANGED <<tx, saves, work, durable, faults, point, handles, fate, wire, alive, under, outcome>>
        /\ call'.answer = "none"
    BY <1>11 DEF RollbackDone, NoCall, wireVars, serverVars, history
  <2>2. Now' = Now
    BY <2>1 DEF Now, Live, Incoming
  <2>3. ~alive => wire = <<>>
    BY <1>1 DEF Calling
  <2> QED BY <2>1, <2>2, <2>3, SameSends
<1> QED BY <1>3, <1>4, <1>5, <1>6, <1>7, <1>8, <1>9, <1>10, <1>11 DEF Client

\* A new Transaction begins with nothing of its own.
LEMMA OpenData ==
  ASSUME PlaceInv, Named, Data, Open
  PROVE  Data'
<1>1. TypeOK /\ Stacked /\ Calling /\ InPlace
  BY DEF PlaceInv
<1>2. /\ call.kind \in {"start", "savepoint"} /\ call.answer = "ok" /\ wire = <<>> /\ Now = Live
      /\ UNCHANGED <<wire, alive, tx, saves, work, durable, under, outcome, faults>>
  BY <1>1 DEF Open, Calling, Now, wireVars, serverVars, history
<1>3. PICK n \in Handle : n = created + 1
  <2>1. created + 1 \in 1..MaxHandles
    BY <1>1, TransactionAssumption, SMT DEF Open, TypeOK
  <2> QED BY <2>1 DEF Handle
<1>4. /\ handles' = Append(handles, n) /\ point' = [point EXCEPT ![n] = call.name]
      /\ fate' = [fate EXCEPT ![n] = "live"] /\ call' = NoCall
  BY <1>3 DEF Open
<1>5. \A h \in Nat : h <= created => h < n /\ h # n /\ ~(n <= h)
  <2>1. created \in Nat
    BY <1>1 DEF TypeOK
  <2> QED BY <1>3, <2>1, SMT
<1>6. /\ Live \in SUBSET Handle /\ \A h \in Live : h \in Nat /\ h <= created
  BY <1>1, LiveFacts, HandleNat
<1>7. Live' = Live \cup {n} /\ Now' = Live \cup {n}
  <2>1. Live' = Live \cup {n}
    <3>1. handles \in Seq(Handle) /\ Live = Elements(handles) /\ Live' = Elements(handles')
      BY <1>1 DEF TypeOK, Live, Elements
    <3> QED BY <1>4, <3>1, ElementsAppend
  <2> QED BY <1>2, <2>1 DEF Now
<1>8. /\ point'[n] = call.name /\ fate'[n] = "live" /\ fate[n] = "unused"
      /\ \A h \in Handle : h # n => point'[h] = point[h] /\ fate'[h] = fate[h]
  <2>1. n \in Nat /\ n > created
    BY <1>1, <1>3, SMT DEF TypeOK
  <2> QED BY <1>1, <1>4, <2>1 DEF TypeOK, Stacked
<1>9. \A w \in Writes : under[w] \in SUBSET Handle /\ \A h \in under[w] : h \in Nat /\ h <= created /\ h # n
  <2>1. \A w \in Writes : under[w] \in SUBSET Handle /\ \A h \in under[w] : h <= created
    BY <1>1 DEF TypeOK, Stacked
  <2> QED BY <1>5, <2>1, HandleNat
<1>10. \A hs \in faults : hs \in SUBSET Handle /\ \A h \in hs : h # n
  <2>1. \A hs \in faults : hs \in SUBSET Handle /\ \A h \in hs : h <= created
    BY <1>1 DEF TypeOK, Stacked
  <2> QED BY <1>5, <2>1, HandleNat
<1>11. ASSUME NEW hs \in SUBSET Handle, \A h \in hs : h # n PROVE Kept(hs)' <=> Kept(hs)
  <2>1. \A h \in hs : (h \in Now' \/ fate'[h] # "discarded") <=> (h \in Now \/ fate[h] # "discarded")
    BY <1>2, <1>7, <1>8, <1>11
  <2> QED BY <2>1 DEF Kept
<1>12. Nested'
  <2>1. SUFFICES ASSUME NEW w \in Writes, NEW h \in under[w] \cap Now', NEW g \in Now', g <= h
                 PROVE  g \in under[w]
    BY <1>2 DEF Nested
  <2>2. h \in Now /\ g \in Now
    BY <1>2, <1>5, <1>7, <1>9, <2>1
  <2> QED BY <2>1, <2>2 DEF Data, Nested
<1>13. ASSUME NEW w \in Writes
       PROVE  (outcome'[w] = "ok" /\ under'[w] \cap Now' # {} /\ Kept(under[w])') <=>
              (outcome[w] = "ok" /\ under[w] \cap Now # {} /\ Kept(under[w]))
  <2>1. PICK u \in SUBSET Handle : u = under[w] /\ u = under'[w] /\ \A h \in u : h # n
    BY <1>2, <1>9
  <2>2. Kept(u)' <=> Kept(u)
    BY <1>11, <2>1
  <2>3. (Kept(under[w])' <=> Kept(u)') /\ (Kept(under[w]) <=> Kept(u))
    BY <2>1 DEF Kept
  <2>4. u \cap Now' = u \cap Now
    BY <1>2, <1>7, <2>1
  <2> QED BY <1>2, <2>1, <2>2, <2>3, <2>4
<1>14. Working'
  BY <1>2, <1>13 DEF Data, Working
<1>15. alive /\ call.kind = "savepoint" =>
         /\ At(saves, Len(saves), call.name) /\ saves[Len(saves)].work = work
         /\ \A p \in 1..Len(saves) : p <= Len(saves)
  <2>1. SUFFICES ASSUME alive, call.kind = "savepoint"
                 PROVE  /\ At(saves, Len(saves), call.name) /\ saves[Len(saves)].work = work
                        /\ \A p \in 1..Len(saves) : p <= Len(saves)
    OBVIOUS
  <2>2. saves # <<>> /\ saves[Len(saves)].name = call.name /\ saves[Len(saves)].work = work
    BY <1>2, <2>1 DEF Data, Saved
  <2>3. Len(saves) \in 1..Len(saves) /\ \A p \in 1..Len(saves) : p <= Len(saves)
    BY <1>1, <2>2, EmptySeq, SMT DEF TypeOK
  <2> QED BY <2>2, <2>3 DEF At
<1>16. Saved'
  <2>1. SUFFICES ASSUME alive
                 PROVE  /\ \A h \in Now' : point'[h] # 0 => Point(h)'
                        /\ \A g, h \in Now' : g < h /\ point'[g] # 0 /\ point'[h] # 0 =>
                             \A p, q \in 1..Len(saves) : At(saves, p, point'[g]) /\ At(saves, q, point'[h]) => p < q
    BY <1>2, <1>4 DEF Saved, NoCall
  <2>2. call.kind = "start" => Live = {} /\ call.name = 0
    BY <1>1, LiveFacts DEF Calling
  <2>3. ASSUME NEW h \in Now', point'[h] # 0 PROVE Point(h)'
    <3>1. CASE h \in Live
      <4>1. point'[h] = point[h] /\ Point(h)
        BY <1>2, <1>5, <1>6, <1>8, <2>1, <2>3, <3>1 DEF Data, Saved
      <4> QED BY <1>2, <4>1 DEF Point
    <3>2. CASE h = n
      <4>1. call.kind = "savepoint" /\ point'[h] = call.name
        BY <1>2, <1>8, <2>2, <2>3, <3>2
      <4>2. /\ Len(saves) \in 1..Len(saves) /\ At(saves, Len(saves), call.name)
            /\ saves[Len(saves)].work = work
        BY <1>15, <2>1, <4>1 DEF At
      <4>3. work = {w \in work : h \notin under[w]}
        BY <1>1, <1>9, <3>2 DEF TypeOK
      <4> QED BY <1>2, <4>1, <4>2, <4>3 DEF Point
    <3> QED BY <1>7, <3>1, <3>2
  <2>4. ASSUME NEW g \in Now', NEW h \in Now', g < h, point'[g] # 0, point'[h] # 0,
               NEW p \in 1..Len(saves), NEW q \in 1..Len(saves),
               At(saves, p, point'[g]), At(saves, q, point'[h])
        PROVE  p < q
    <3>1. n \in Nat /\ g \in Nat /\ h \in Nat
      BY <1>6, <1>7, HandleNat
    <3>2. CASE h \in Live
      <4>1. g \in Live
        <5>1. h < n
          BY <1>5, <1>6, <3>2
        <5>2. g # n
          BY <2>4, <3>1, <5>1, SMT
        <5> QED BY <1>7, <5>2
      <4>2. point'[g] = point[g] /\ point'[h] = point[h]
        BY <1>5, <1>6, <1>8, <3>2, <4>1
      <4> QED BY <1>2, <2>1, <2>4, <3>2, <4>1, <4>2 DEF Data, Saved
    <3>3. CASE h = n
      <4>1. call.kind = "savepoint" /\ point'[h] = call.name
        BY <1>2, <1>8, <2>2, <2>4, <3>3
      <4>2. g \in Live
        BY <1>7, <2>4, <3>1, <3>3, SMT
      <4>3. point'[g] = point[g] /\ point[g] # call.name
        BY <1>5, <1>6, <1>8, <4>1, <4>2 DEF Named
      <4>4. At(saves, Len(saves), call.name) /\ p <= Len(saves)
        BY <1>15, <2>1, <4>1
      <4>5. q = Len(saves)
        <5>1. q <= Len(saves) /\ Len(saves) <= q /\ Len(saves) \in Nat
          BY <1>1, <2>4, <4>1, <4>4 DEF At, TypeOK
        <5> QED BY <5>1, SMT
      <4>6. p # Len(saves)
        BY <2>4, <4>3, <4>4 DEF At
      <4>7. Len(saves) \in Nat
        BY <1>1 DEF TypeOK
      <4> QED BY <4>4, <4>5, <4>6, <4>7, SMT
    <3> QED BY <1>7, <3>2, <3>3
  <2> QED BY <2>3, <2>4
<1>17. Durable'
  <2>1. durable \subseteq Writes
    BY <1>1 DEF TypeOK
  <2> QED BY <1>2, <1>7, <1>8, <1>9, <2>1 DEF Data, Durable
<1>18. Faulty'
  <2>1. SUFFICES ASSUME alive, tx = "failed"
                 PROVE  \E hs \in faults : Kept(hs)' /\ \E h \in hs \cap Now' : point'[h] = 0
    BY <1>2 DEF Faulty
  <2>2. call.kind = "savepoint" /\ Now # {}
    BY <1>1, <1>2, <2>1, LiveFacts DEF InPlace, Calling
  <2>3. PICK hs \in faults : Kept(hs) /\ \E h \in hs \cap Now : point[h] = 0
    BY <2>1, <2>2 DEF Data, Faulty
  <2>4. Kept(hs)'
    BY <1>10, <1>11, <2>3
  <2>5. \E h \in hs \cap Now' : point'[h] = 0
    BY <1>2, <1>5, <1>6, <1>7, <1>8, <2>3
  <2> QED BY <2>4, <2>5
<1>19. Committed'
  <2>1. SUFFICES ASSUME NEW h \in Handle, Agreed(h)', point'[h] = 0
                 PROVE  /\ h \notin Now'
                        /\ \/ Changes(h)' \subseteq durable
                           \/ \E hs \in faults : h \in hs /\ \A g \in hs : fate'[g] # "discarded" /\ g \notin Live'
    BY <1>2 DEF Committed
  <2>2. h # n /\ fate[h] = "committed" /\ point[h] = 0
    BY <1>4, <1>8, <2>1 DEF Agreed, NoCall
  <2>3. /\ h \notin Now
        /\ \/ Changes(h) \subseteq durable
           \/ \E hs \in faults : h \in hs /\ \A g \in hs : fate[g] # "discarded" /\ g \notin Live
    BY <2>2 DEF Data, Committed, Agreed
  <2>4. Changes(h)' \subseteq Changes(h)
    <3>1. SUFFICES ASSUME NEW w \in Writes, h \in under[w], outcome[w] = "ok", ~Discarded(under[w])'
                   PROVE  ~Discarded(under[w])
      BY <1>2 DEF Changes
    <3>2. \A g \in under[w] : fate'[g] = fate[g]
      BY <1>8, <1>9
    <3> QED BY <1>2, <3>1, <3>2 DEF Discarded
  <2>5. CASE \E hs \in faults : h \in hs /\ \A g \in hs : fate[g] # "discarded" /\ g \notin Live
    BY <1>2, <1>7, <1>8, <1>10, <2>2, <2>3, <2>5
  <2> QED BY <1>2, <1>7, <2>2, <2>3, <2>4, <2>5
<1> QED BY <1>12, <1>14, <1>16, <1>17, <1>18, <1>19 DEF Data

-----------------------------------------------------------------------------
(* What is kept: the steps of the server                                   *)

\* What an executed request does to its write.
LEMMA OutcomeStep ==
  ASSUME PlaceInv, wire # <<>>, NEW a \in {"ok", "err"}, Executes(a)
  PROVE  /\ \A w \in Writes : outcome[w] = "ok" => outcome'[w] = "ok"
         /\ \A w \in Writes : ~(Incoming.type = "WRITE" /\ w = Incoming.of) => outcome'[w] = outcome[w]
         /\ Incoming.type = "WRITE" =>
              /\ Incoming.of \in Writes /\ under[Incoming.of] = Now /\ outcome[Incoming.of] = "sent"
              /\ outcome'[Incoming.of] = IF a = "ok" THEN "ok" ELSE "failed"
<1>1. RequestOK(Incoming) /\ Now = Incoming.under /\ outcome \in [Writes -> {"unused", "sent", "ok", "failed"}]
  BY Executing DEF PlaceInv, TypeOK
<1>2. Incoming.type = "WRITE" =>
        Incoming.of \in Writes /\ under[Incoming.of] = Now /\ outcome[Incoming.of] = "sent"
  BY <1>1 DEF RequestOK
<1>3. CASE Incoming.type = "WRITE"
  <2>1. outcome' = [outcome EXCEPT ![Incoming.of] = IF a = "ok" THEN "ok" ELSE "failed"]
    BY <1>3 DEF Executes
  <2> QED BY <1>1, <1>2, <1>3, <2>1
<1>4. CASE Incoming.type # "WRITE"
  <2>1. outcome' = outcome
    BY <1>4 DEF Executes
  <2> QED BY <1>4, <2>1
<1> QED BY <1>3, <1>4

\* An answer is the one to the request awaited.
LEMMA Answering ==
  ASSUME PlaceInv, wire # <<>>, NEW a \in {"ok", "err"}, Executes(a), call'.answer = "ok"
  PROVE  /\ a = "ok" /\ call'.kind = call.kind /\ call'.handle = call.handle /\ call'.name = call.name
         /\ call.kind = "savepoint" => Incoming.type = "SAVEPOINT" /\ Incoming.of = call.name
         /\ call.kind = "commit" => /\ Incoming.type \in {"COMMIT", "RELEASE"}
                                    /\ call.handle \in Innermost(Incoming.under)
<1>1. TypeOK /\ Calling /\ alive /\ wire \in Seq(WireRequest) /\ call \in PendingCall
  BY Executing DEF PlaceInv, TypeOK
<1>2. call.answer = "none"
  BY <1>1 DEF Calling, PendingCall
<1>3. /\ call.kind # "none" /\ Len(wire) = 1 /\ call' = [call EXCEPT !.answer = a]
  BY <1>1, <1>2 DEF Executes
<1>4. /\ a = "ok" /\ call'.kind = call.kind /\ call'.handle = call.handle /\ call'.name = call.name
  BY <1>1, <1>3 DEF PendingCall
<1>5. Incoming = wire[Len(wire)]
  BY <1>1, <1>3, HeadTailProperties DEF Incoming
<1>6. Awaited(Incoming)
  BY <1>1, <1>2, <1>3, <1>5 DEF Calling
<1> QED BY <1>4, <1>6 DEF Awaited

LEMMA NowShrinks ==
  ASSUME PlaceInv, wire # <<>>, NEW a \in {"ok", "err"}, Executes(a)
  PROVE  Now' \subseteq Now /\ Now' = After(Incoming) /\ Now = Incoming.under
<1>1. Incoming \in WireRequest /\ Now = Incoming.under /\ Now' = After(Incoming)
  BY Executing
<1> QED BY <1>1, AfterWithin DEF Within

LEMMA ExecuteNested ==
  ASSUME PlaceInv, Data, wire # <<>>, NEW a \in {"ok", "err"}, Executes(a)
  PROVE  Nested'
<1>1. under' = under /\ Now' \subseteq Now
  BY NowShrinks DEF Executes
<1> QED BY <1>1 DEF Data, Nested

\* What becomes durable is out of everyone's reach.
Lasting ==
  \A w \in durable' :
    \/ w \in durable
    \/ outcome'[w] = "ok" /\ \A h \in under[w] : fate[h] # "discarded" /\ h \notin Live

LEMMA ExecuteDurable ==
  ASSUME PlaceInv, Data, wire # <<>>, NEW a \in {"ok", "err"}, Executes(a), Lasting
  PROVE  Durable'
<1>1. UNCHANGED <<under, fate>> /\ Live' = Live /\ durable \subseteq Writes
  BY DEF Executes, Live, PlaceInv, TypeOK
<1>2. \A w \in Writes : outcome[w] = "ok" => outcome'[w] = "ok"
  BY OutcomeStep
<1> QED BY <1>1, <1>2 DEF Data, Durable, Lasting

\* What is agreed to has been made durable, or was not possible.
Settled(h) ==
  \/ Changes(h) \subseteq durable'
  \/ \E hs \in faults' : h \in hs /\ \A g \in hs : fate[g] # "discarded" /\ g \notin Live

AllSettled ==
  /\ durable \subseteq durable' /\ faults \subseteq faults'
  /\ Incoming.type \in {"COMMIT", "RELEASE"} =>
       \A h \in Handle : point[h] = 0 /\ h \in Innermost(Incoming.under) => Settled(h)

LEMMA ExecuteCommitted ==
  ASSUME PlaceInv, Data, wire # <<>>, NEW a \in {"ok", "err"}, Executes(a), a = "ok" => AllSettled,
         durable \subseteq durable', faults \subseteq faults'
  PROVE  Committed'
<1>1. UNCHANGED <<under, fate, point>> /\ Live' = Live
  BY DEF Executes, Live
<1>2. SUFFICES ASSUME NEW h \in Handle, Agreed(h)', point[h] = 0
               PROVE  /\ h \notin Now'
                      /\ \/ Changes(h)' \subseteq durable'
                         \/ \E hs \in faults' : h \in hs /\ \A g \in hs : fate[g] # "discarded" /\ g \notin Live
  BY <1>1 DEF Committed
<1>3. \A w \in Writes : ~(Incoming.type = "WRITE" /\ w = Incoming.of) => outcome'[w] = outcome[w]
  BY OutcomeStep
<1>4. Incoming.type = "WRITE" => under[Incoming.of] = Now
  BY OutcomeStep
<1>5. Changes(h)' \subseteq Changes(h) \/ (Incoming.type = "WRITE" /\ h \in Now)
  <2>1. SUFFICES ASSUME ~(Incoming.type = "WRITE" /\ h \in Now) PROVE Changes(h)' \subseteq Changes(h)
    OBVIOUS
  <2>2. SUFFICES ASSUME NEW w \in Writes, h \in under[w], outcome'[w] = "ok", ~Discarded(under[w])'
                 PROVE  outcome[w] = "ok" /\ ~Discarded(under[w])
    BY <1>1 DEF Changes
  <2>3. outcome'[w] = outcome[w]
    BY <1>3, <1>4, <2>1, <2>2
  <2> QED BY <1>1, <2>2, <2>3 DEF Discarded
<1>6. CASE Agreed(h)
  <2>1. /\ h \notin Now
        /\ \/ Changes(h) \subseteq durable
           \/ \E hs \in faults : h \in hs /\ \A g \in hs : fate[g] # "discarded" /\ g \notin Live
    BY <1>2, <1>6 DEF Data, Committed
  <2>2. h \notin Now'
    BY <2>1, NowShrinks
  <2> QED BY <1>5, <2>1, <2>2
<1>7. CASE ~Agreed(h)
  <2>1. call'.kind = "commit" /\ call'.handle = h /\ call'.answer = "ok"
    BY <1>1, <1>2, <1>7 DEF Agreed
  <2>2. /\ a = "ok" /\ Incoming.type \in {"COMMIT", "RELEASE"} /\ h \in Innermost(Incoming.under)
    BY <2>1, Answering
  <2>3. h \notin Now'
    BY <2>2, NowShrinks DEF After, Endings
  <2>4. Settled(h)
    BY <1>2, <2>2 DEF AllSettled
  <2> QED BY <1>5, <2>2, <2>3, <2>4 DEF Settled
<1> QED BY <1>6, <1>7

\* Where no Transaction is left, nothing is pending.
LEMMA QuietData ==
  ASSUME PlaceInv, Data, wire # <<>>, NEW a \in {"ok", "err"}, Executes(a),
         After(Incoming) = {}, work' = {}, Incoming.type # "SAVEPOINT"
  PROVE  Nested' /\ Working' /\ Saved' /\ Faulty'
<1>1. Now' = {}
  BY NowShrinks
<1>2. ~(call'.kind = "savepoint" /\ call'.answer = "ok")
  BY Answering
<1> QED BY <1>1, <1>2, ExecuteNested DEF Working, Saved, Faulty

LEMMA SrvStartData ==
  ASSUME PlaceInv, Data, SrvStart
  PROVE  Data'
<1>1. /\ wire # <<>> /\ Incoming.type = "START" /\ Executes("ok")
      /\ UNCHANGED <<saves, work, durable, faults>>
  BY DEF SrvStart, Arrives
<1>2. work = {} /\ After(Incoming) = {}
  BY <1>1, Found DEF After, Endings
<1>3. Nested' /\ Working' /\ Saved' /\ Faulty'
  BY <1>1, <1>2, QuietData
<1>4. Lasting /\ AllSettled /\ durable \subseteq durable' /\ faults \subseteq faults'
  BY <1>1 DEF Lasting, AllSettled
<1>5. Durable' /\ Committed'
  BY <1>1, <1>4, ExecuteDurable, ExecuteCommitted
<1> QED BY <1>3, <1>5 DEF Data

LEMMA SrvRollbackData ==
  ASSUME PlaceInv, Data, SrvRollback
  PROVE  Data'
<1>1. /\ wire # <<>> /\ Incoming.type = "ROLLBACK" /\ Executes("ok") /\ work' = {}
      /\ UNCHANGED <<durable, faults>>
  BY DEF SrvRollback, Arrives, Over
<1>2. After(Incoming) = {}
  BY <1>1, Found, AfterFacts
<1>3. Nested' /\ Working' /\ Saved' /\ Faulty'
  BY <1>1, <1>2, QuietData
<1>4. Lasting /\ AllSettled /\ durable \subseteq durable' /\ faults \subseteq faults'
  BY <1>1 DEF Lasting, AllSettled
<1>5. Durable' /\ Committed'
  BY <1>1, <1>4, ExecuteDurable, ExecuteCommitted
<1> QED BY <1>3, <1>5 DEF Data

\* When the outermost Transaction is committed, the work is what was made in it.
LEMMA WorkChanges ==
  ASSUME PlaceInv, Data, wire # <<>>, Incoming.type = "COMMIT"
  PROVE  \E h \in Handle : /\ Now = {h} /\ Innermost(Incoming.under) = {h} /\ point[h] = 0
                           /\ fate[h] \in {"committing", "unknown"} /\ work = Changes(h)
<1>1. alive /\ RequestOK(Incoming) /\ TypeOK
  BY Found DEF PlaceInv, Calling
<1>2. PICK h \in Handle :
        Incoming.under = {h} /\ point[h] = 0 /\ fate[h] \in {"committing", "unknown"}
  BY <1>1 DEF RequestOK, EndsWhole
<1>3. Now = {h}
  BY <1>2 DEF Now
<1>4. Innermost(Incoming.under) = {h}
  <2>1. h <= h
    BY HandleNat, SMT
  <2> QED BY <1>2, <2>1 DEF Innermost
<1>5. work = {w \in Writes : outcome[w] = "ok" /\ under[w] \cap Now # {} /\ Kept(under[w])}
  BY <1>1 DEF Data, Working
<1>6. \A w \in Writes : under[w] \cap Now # {} /\ Kept(under[w]) <=> h \in under[w] /\ ~Discarded(under[w])
  <2>1. SUFFICES ASSUME NEW w \in Writes, h \in under[w] PROVE Kept(under[w]) <=> ~Discarded(under[w])
    BY <1>3
  <2> QED BY <1>2, <1>3 DEF Kept, Discarded
<1> QED BY <1>2, <1>3, <1>4, <1>5, <1>6 DEF Changes

LEMMA SrvCommitData ==
  ASSUME PlaceInv, Data, SrvCommit
  PROVE  Data'
<1>1. /\ wire # <<>> /\ Incoming.type = "COMMIT" /\ Executes("ok") /\ work' = {} /\ faults' = faults
      /\ durable' = IF tx = "open" THEN durable \cup work ELSE durable
  BY DEF SrvCommit, Arrives, Over
<1>2. After(Incoming) = {} /\ alive /\ Live = {}
  <2>1. After(Incoming) = {} /\ alive
    BY <1>1, Found, AfterFacts DEF PlaceInv, Calling
  <2> QED BY <1>1, <2>1, NowFacts
<1>3. Nested' /\ Working' /\ Saved' /\ Faulty'
  BY <1>1, <1>2, QuietData
<1>4. PICK h \in Handle : /\ Now = {h} /\ Innermost(Incoming.under) = {h} /\ point[h] = 0
                          /\ fate[h] \in {"committing", "unknown"} /\ work = Changes(h)
  BY <1>1, WorkChanges
<1>5. Durable'
  <2>1. ASSUME NEW w \in work PROVE outcome'[w] = "ok" /\ \A g \in under[w] : fate[g] # "discarded" /\ g \notin Live
    <3>1. w \in Writes /\ outcome[w] = "ok" /\ ~Discarded(under[w])
      BY <1>4, <2>1 DEF Changes
    <3>2. outcome'[w] = "ok"
      BY <1>1, <3>1, OutcomeStep
    <3> QED BY <1>2, <3>1, <3>2 DEF Discarded
  <2>2. Lasting
    BY <1>1, <2>1 DEF Lasting
  <2> QED BY <1>1, <2>2, ExecuteDurable
<1>6. Settled(h)
  <2>1. CASE tx = "open"
    BY <1>1, <1>4, <2>1 DEF Settled
  <2>2. CASE tx = "failed"
    <3>1. PICK hs \in faults : Kept(hs) /\ \E g \in hs \cap Now : point[g] = 0
      BY <1>2, <1>4, <2>2 DEF Data, Faulty
    <3>2. h \in hs /\ \A g \in hs : fate[g] # "discarded"
      BY <1>4, <3>1 DEF Kept
    <3> QED BY <1>1, <1>2, <3>2 DEF Settled
  <2>3. tx \in {"idle", "open", "failed"} /\ tx # "idle"
    BY <1>1, Found DEF PlaceInv, TypeOK
  <2> QED BY <2>1, <2>2, <2>3
<1>7. Committed'
  <2>1. durable \subseteq durable' /\ faults \subseteq faults'
    BY <1>1
  <2>2. AllSettled
    BY <1>4, <1>6, <2>1 DEF AllSettled
  <2> QED BY <1>1, <2>1, <2>2, ExecuteCommitted
<1> QED BY <1>3, <1>5, <1>7 DEF Data

\* The savepoint that a name stands for is the same where none is added with that name.
LEMMA AtUnique ==
  ASSUME NEW s \in Seq(Savepoint), NEW n, NEW p, NEW q, At(s, p, n), At(s, q, n)
  PROVE  p = q
<1>1. p \in 1..Len(s) /\ q \in 1..Len(s) /\ p <= q /\ q <= p
  BY DEF At
<1>2. Len(s) \in Nat
  OBVIOUS
<1> QED BY <1>1, <1>2, SMT

LEMMA AtAppend ==
  ASSUME NEW s \in Seq(Savepoint), NEW v \in Savepoint
  PROVE  LET t == Append(s, v) IN
         /\ Len(t) = Len(s) + 1 /\ \A i \in 1..Len(s) : t[i] = s[i] /\ i \in 1..Len(t)
         /\ t # <<>> /\ t[Len(t)] = v
         /\ \A n : n # v.name => \A p : At(t, p, n) <=> At(s, p, n)
<1> DEFINE t == Append(s, v)
<1>1. /\ Len(s) \in Nat /\ Len(t) = Len(s) + 1 /\ t[Len(s) + 1] = v /\ t \in Seq(Savepoint)
      /\ \A i \in 1..Len(s) : t[i] = s[i]
  BY AppendProperties
<1>2. /\ \A i \in 1..Len(t) : i \in 1..Len(s) \/ i = Len(s) + 1
      /\ \A i \in 1..Len(s) : i \in 1..Len(t)
  BY <1>1, SMT
<1>3. t # <<>>
  BY AppendProperties
<1>4. ASSUME NEW n, n # v.name, NEW p PROVE At(t, p, n) <=> At(s, p, n)
  <2>1. \A i \in 1..Len(t) : t[i].name = n => i \in 1..Len(s) /\ s[i].name = n
    BY <1>1, <1>2, <1>4
  <2>2. \A i \in 1..Len(s) : s[i].name = n => i \in 1..Len(t) /\ t[i].name = n
    BY <1>1, <1>2
  <2> QED BY <2>1, <2>2 DEF At
<1> QED BY <1>1, <1>2, <1>3, <1>4

LEMMA AtCut ==
  ASSUME NEW s, NEW t, NEW m \in Nat, Len(s) \in Nat, m <= Len(s), Len(t) = m,
         \A i \in 1..m : t[i] = s[i], NEW n, NEW p, At(s, p, n), p <= m
  PROVE  At(t, p, n)
<1>1. p \in 1..Len(s) /\ s[p].name = n /\ \A q \in 1..Len(s) : s[q].name = n => q <= p
  BY DEF At
<1>2. p \in 1..m /\ \A q \in 1..m : q \in 1..Len(s)
  BY <1>1, SMT
<1> QED BY <1>1, <1>2 DEF At

LEMMA Below ==
  ASSUME NEW g \in Nat, NEW h \in Nat, g <= h, g # h
  PROVE  g < h
OBVIOUS

LEMMA Between ==
  ASSUME NEW n \in Nat, NEW p \in 1..n, NEW q \in 1..n, p <= q, q <= p
  PROVE  p = q
OBVIOUS

\* The Transaction that a RELEASE or ROLLBACK TO ends, and its savepoint.
EndedBy(h) ==
  /\ h \in Now /\ Now' = Now \ {h} /\ Innermost(Now) = {h}
  /\ point[h] = Incoming.of /\ point[h] # 0
  /\ Incoming.type = "RELEASE" => fate[h] # "discarded"
  /\ Incoming.type = "ROLLBACK TO" => fate[h] = "discarded"
  /\ \A w \in Writes : h \in under[w] => Now' \subseteq under[w]
  /\ \E g \in Now' : point[g] = 0
  /\ Matches # {} /\ At(saves, Latest, point[h])
  /\ saves[Latest].work = {w \in work : h \notin under[w]}
  /\ \A g \in Now' : point[g] # 0 => \A p \in 1..Len(saves) : At(saves, p, point[g]) => p < Latest

LEMMA Ended ==
  ASSUME PlaceInv, Data, wire # <<>>, NEW a \in {"ok", "err"}, Executes(a),
         Incoming.type \in {"RELEASE", "ROLLBACK TO"}
  PROVE  \E h \in Handle : EndedBy(h)
<1>1. /\ TypeOK /\ alive /\ RequestOK(Incoming) /\ Now = Incoming.under /\ Now' = After(Incoming)
      /\ Now \in SUBSET Handle
  BY Executing, NowFacts DEF PlaceInv
<1>2. PICK h \in Innermost(Now) :
        /\ point[h] = Incoming.of /\ Incoming.of # 0
        /\ Incoming.type = "RELEASE" => fate[h] \in {"committing", "unknown"}
        /\ Incoming.type = "ROLLBACK TO" => fate[h] = "discarded"
  BY <1>1 DEF RequestOK, EndsPoint
<1>3. h \in Now /\ h \in Handle /\ Innermost(Now) = {h} /\ \A g \in Now : g <= h
  BY <1>1, OneInnermost
<1>4. Now' = Now \ {h}
  BY <1>1, <1>3 DEF After, Endings
<1>5. \A w \in Writes : h \in under[w] => Now' \subseteq under[w]
  BY <1>3, <1>4 DEF Data, Nested
<1>6. \E g \in Now' : point[g] = 0
  BY <1>2, <1>3, <1>4, NowFacts
<1>7. \A g \in Now \ {h} : g < h
  <2>1. SUFFICES ASSUME NEW g \in Now, g # h PROVE g < h
    OBVIOUS
  <2>2. g \in Nat /\ h \in Nat
    BY <1>1, <1>3, HandleNat
  <2>3. g <= h
    BY <1>3
  <2> QED BY <2>1, <2>2, <2>3, Below
<1>8. Point(h)
  BY <1>1, <1>2, <1>3 DEF Data, Saved
<1>9. PICK p \in 1..Len(saves) : At(saves, p, point[h]) /\ saves[p].work = {w \in work : h \notin under[w]}
  BY <1>8 DEF Point
<1>10. p \in Matches /\ \A q \in Matches : q <= p
  BY <1>2, <1>9 DEF At, Matches
<1>11. Latest = p
  <2>1. Matches # {}
    BY <1>10
  <2>2. Latest \in Matches /\ Latest \in 1..Len(saves) /\ \A j \in Matches : j <= Latest
    BY <1>1, <2>1, LatestFacts
  <2>3. PICK l \in 1..Len(saves) : l = Latest
    BY <2>2
  <2>4. p <= l /\ l <= p
    BY <1>10, <2>2, <2>3
  <2>5. p \in 1..Len(saves)
    BY <1>9 DEF At
  <2>6. Len(saves) \in Nat
    <3>1. saves \in Seq(Savepoint)
      BY <1>1 DEF TypeOK
    <3> QED BY <3>1, LenProperties
  <2>7. p = l
    BY <2>3, <2>4, <2>5, <2>6, Between
  <2> QED BY <2>3, <2>7
<1>12. \A g \in Now' : point[g] # 0 => \A q \in 1..Len(saves) : At(saves, q, point[g]) => q < p
  BY <1>1, <1>2, <1>3, <1>4, <1>7, <1>9 DEF Data, Saved
<1> QED BY <1>2, <1>3, <1>4, <1>5, <1>6, <1>9, <1>10, <1>11, <1>12 DEF EndedBy

\* The changes that count, and which of them still do.
Counts(w) == outcome[w] = "ok" /\ under[w] \cap Now # {} /\ Kept(under[w])

LEMMA WorkCounts ==
  ASSUME PlaceInv, Data, wire # <<>>
  PROVE  work = {w \in Writes : Counts(w)}
BY DEF Data, Working, Counts, PlaceInv, Calling

LEMMA CountsWorking ==
  ASSUME work' = {w \in Writes : Counts(w)'}
  PROVE  Working'
BY DEF Working, Counts

\* Where nothing is undone, the same changes count.
LEMMA CountsSame ==
  ASSUME PlaceInv, Data, wire # <<>>, NEW a \in {"ok", "err"}, Executes(a),
         Incoming.type \in {"WRITE", "SAVEPOINT", "RELEASE"},
         NEW w \in Writes, Incoming.type = "WRITE" /\ a = "ok" => w # Incoming.of
  PROVE  Counts(w)' <=> Counts(w)
<1>1. UNCHANGED <<under, fate>> /\ under[w] \in SUBSET Handle
  BY DEF Executes, PlaceInv, TypeOK
<1>2. outcome'[w] = "ok" <=> outcome[w] = "ok"
  <2>1. CASE Incoming.type = "WRITE" /\ w = Incoming.of
    BY <2>1, OutcomeStep
  <2>2. CASE ~(Incoming.type = "WRITE" /\ w = Incoming.of)
    BY <2>2, OutcomeStep
  <2> QED BY <2>1, <2>2
<1>3. CASE Incoming.type \in {"WRITE", "SAVEPOINT"}
  <2>1. Now' = Now
    BY <1>3, NowShrinks DEF After, Endings
  <2> QED BY <1>1, <1>2, <2>1 DEF Counts, Kept
<1>4. CASE Incoming.type = "RELEASE"
  <2>1. PICK h \in Handle : EndedBy(h)
    BY <1>4, Ended
  <2>2. Now' = Now \ {h} /\ fate[h] # "discarded"
    BY <1>4, <2>1 DEF EndedBy
  <2>3. under[w] \cap Now # {} <=> under[w] \cap Now' # {}
    <3>1. CASE h \in under[w]
      BY <2>1, <2>2, <3>1 DEF EndedBy
    <3>2. CASE h \notin under[w]
      BY <2>2, <3>2
    <3> QED BY <3>1, <3>2
  <2>4. \A g \in under[w] : (g \in Now \/ fate[g] # "discarded") <=> (g \in Now' \/ fate[g] # "discarded")
    BY <2>2
  <2> QED BY <1>1, <1>2, <2>3, <2>4 DEF Counts, Kept
<1> QED BY <1>3, <1>4

LEMMA SrvWriteData ==
  ASSUME PlaceInv, Data, SrvWrite
  PROVE  Data'
<1>1. /\ wire # <<>> /\ Incoming.type = "WRITE" /\ Executes("ok") /\ tx # "failed"
      /\ UNCHANGED <<tx, saves, faults>>
  BY DEF SrvWrite, Arrives
<1>2. PICK v \in Writes : /\ v = Incoming.of /\ under[v] = Now /\ outcome'[v] = "ok"
  BY <1>1, OutcomeStep
<1>3. /\ tx = "idle" <=> Now = {}
      /\ tx = "idle" => work = {}
  BY <1>1, Found DEF Now
<1>4. /\ tx = "idle" => durable' = durable \cup {v} /\ work' = work
      /\ tx # "idle" => work' = work \cup {v} /\ durable' = durable
  BY <1>2 DEF SrvWrite
<1>5. Now' = Now /\ After(Incoming) = Now /\ under' = under /\ fate' = fate /\ point' = point
  BY <1>1, NowShrinks DEF After, Endings, Executes
<1>6. Lasting /\ AllSettled /\ durable \subseteq durable' /\ faults \subseteq faults'
  BY <1>1, <1>2, <1>3, <1>4 DEF Lasting, AllSettled
<1>7. Durable' /\ Committed'
  BY <1>1, <1>6, ExecuteDurable, ExecuteCommitted
<1>8. CASE Now = {}
  <2>1. Nested' /\ Working' /\ Saved' /\ Faulty'
    BY <1>1, <1>3, <1>4, <1>5, <1>8, QuietData
  <2> QED BY <1>7, <2>1 DEF Data
<1>9. CASE Now # {}
  <2>1. Counts(v)'
    BY <1>2, <1>5, <1>9 DEF Counts, Kept
  <2>2. \A w \in Writes : w # v => (Counts(w)' <=> Counts(w))
    BY <1>1, <1>2, CountsSame
  <2>3. work' = {w \in Writes : Counts(w)'}
    BY <1>1, <1>3, <1>4, <1>9, <2>1, <2>2, WorkCounts
  <2>4. ASSUME NEW h \in Now, Point(h) PROVE Point(h)'
    <3>1. {w \in work' : h \notin under[w]} = {w \in work : h \notin under[w]}
      BY <1>2, <1>3, <1>4, <1>9
    <3> QED BY <1>1, <1>5, <2>4, <3>1 DEF Point
  <2>5. ~(call'.kind = "savepoint" /\ call'.answer = "ok")
    BY <1>1, Answering
  <2>6. alive
    BY <1>1, Executing
  <2>7. Saved'
    BY <1>1, <1>5, <2>4, <2>5, <2>6 DEF Data, Saved
  <2>8. Faulty'
    BY <1>1 DEF Faulty
  <2> QED BY <1>1, <1>7, <2>3, <2>7, <2>8, ExecuteNested, CountsWorking DEF Data
<1> QED BY <1>8, <1>9

LEMMA SrvSavepointData ==
  ASSUME PlaceInv, Named, Data, SrvSavepoint
  PROVE  Data'
<1>1. /\ wire # <<>> /\ Incoming.type = "SAVEPOINT" /\ Executes("ok") /\ tx = "open"
      /\ UNCHANGED <<tx, work, durable, faults>>
  BY DEF SrvSavepoint, Arrives
<1>2. /\ saves \in Seq(Savepoint) /\ work \subseteq Writes /\ alive /\ Incoming \in WireRequest
      /\ wire \in Seq(WireRequest)
  BY <1>1, Executing DEF PlaceInv, TypeOK
<1>3. PICK v \in Savepoint : v.name = Incoming.of /\ v.work = work /\ saves' = Append(saves, v)
  <2>1. [name |-> Incoming.of, work |-> work] \in Savepoint
    BY <1>2 DEF Savepoint, WireRequest
  <2> QED BY <2>1 DEF SrvSavepoint
<1>4. /\ Len(saves') = Len(saves) + 1 /\ \A i \in 1..Len(saves) : saves'[i] = saves[i] /\ i \in 1..Len(saves')
      /\ saves' # <<>> /\ saves'[Len(saves')] = v
      /\ \A n : n # v.name => \A p : At(saves', p, n) <=> At(saves, p, n)
  BY <1>2, <1>3, AtAppend
<1>5. Now' = Now /\ Now = Incoming.under /\ under' = under /\ fate' = fate /\ point' = point
  BY <1>1, NowShrinks DEF After, Endings, Executes
<1>6. \A h \in Now : point[h] # v.name
  <2>1. Incoming \in Elements(wire)
    <3>1. Len(wire) \in Nat \ {0} /\ Incoming = wire[1]
      BY <1>1, <1>2, EmptySeq, HeadTailProperties DEF Incoming
    <3>2. 1 \in 1..Len(wire)
      BY <3>1, SMT
    <3> QED BY <3>1, <3>2 DEF Elements
  <2> QED BY <1>1, <1>3, <1>5, <2>1 DEF Named
<1>7. work' = {w \in Writes : Counts(w)'}
  BY <1>1, CountsSame, WorkCounts
<1>8. ASSUME NEW h \in Now, point[h] # 0 PROVE Point(h)'
  <2>1. PICK p \in 1..Len(saves) : At(saves, p, point[h]) /\ saves[p].work = {w \in work : h \notin under[w]}
    BY <1>2, <1>8 DEF Data, Saved, Point
  <2>2. p \in 1..Len(saves') /\ saves'[p] = saves[p] /\ At(saves', p, point[h])
    BY <1>4, <1>6, <2>1
  <2> QED BY <1>1, <1>5, <2>1, <2>2 DEF Point
<1>9. ASSUME NEW g \in Now, NEW h \in Now, g < h, point[g] # 0, point[h] # 0,
             NEW p \in 1..Len(saves'), NEW q \in 1..Len(saves'),
             At(saves', p, point[g]), At(saves', q, point[h])
      PROVE  p < q
  <2>1. At(saves, p, point[g]) /\ At(saves, q, point[h])
    BY <1>4, <1>6, <1>9
  <2>2. p \in 1..Len(saves) /\ q \in 1..Len(saves)
    BY <2>1 DEF At
  <2> QED BY <1>2, <1>9, <2>1, <2>2 DEF Data, Saved
<1>10. call'.kind = "savepoint" /\ call'.answer = "ok" => v.name = call'.name
  BY <1>1, <1>3, Answering
<1>11. Saved'
  BY <1>1, <1>3, <1>4, <1>5, <1>8, <1>9, <1>10 DEF Saved
<1>12. Faulty'
  BY <1>1 DEF Faulty
<1>13. Lasting /\ AllSettled /\ durable \subseteq durable' /\ faults \subseteq faults'
  BY <1>1 DEF Lasting, AllSettled
<1>14. Durable' /\ Committed'
  BY <1>1, <1>13, ExecuteDurable, ExecuteCommitted
<1> QED BY <1>1, <1>7, <1>11, <1>12, <1>14, ExecuteNested, CountsWorking DEF Data

\* What is cut off the savepoints is at or after the one that is named.
LEMMA CutSaved ==
  ASSUME PlaceInv, Data, wire # <<>>, NEW a \in {"ok", "err"}, Executes(a),
         Incoming.type \in {"RELEASE", "ROLLBACK TO"}, NEW h \in Handle, EndedBy(h),
         NEW m \in Nat, m <= Len(saves), saves' \in Seq(Savepoint), Len(saves') = m,
         \A i \in 1..m : saves'[i] = saves[i],
         \A p \in 1..Len(saves) : p < Latest => p <= m,
         \A g \in Now' : {w \in work' : g \notin under[w]} = {w \in work : g \notin under[w]}
  PROVE  Saved'
<1>1. /\ Now' \subseteq Now /\ alive /\ Len(saves) \in Nat
      /\ UNCHANGED <<under, point>>
  <2>1. saves \in Seq(Savepoint)
    BY DEF PlaceInv, TypeOK
  <2>2. Len(saves) \in Nat
    BY <2>1, LenProperties
  <2> QED BY <2>2, Executing, NowShrinks
<1>2. ASSUME NEW g \in Now', point[g] # 0
      PROVE  \E p \in 1..Len(saves') :
               /\ At(saves', p, point[g]) /\ At(saves, p, point[g])
               /\ saves'[p].work = {w \in work : g \notin under[w]}
  <2>1. PICK p \in 1..Len(saves) :
          At(saves, p, point[g]) /\ saves[p].work = {w \in work : g \notin under[w]}
    BY <1>1, <1>2 DEF Data, Saved, Point
  <2>2. p \in 1..Len(saves)
    BY <2>1 DEF At
  <2>3. p <= m
    BY <1>2, <2>1, <2>2 DEF EndedBy
  <2>4. At(saves', p, point[g])
    BY <1>1, <2>1, <2>3, AtCut
  <2>5. p \in 1..Len(saves') /\ p \in 1..m
    BY <2>4 DEF At
  <2> QED BY <2>1, <2>4, <2>5
<1>3. ASSUME NEW g \in Now', point[g] # 0 PROVE Point(g)'
  <2>1. PICK p \in 1..Len(saves') :
          At(saves', p, point[g]) /\ saves'[p].work = {w \in work : g \notin under[w]}
    BY <1>2, <1>3
  <2>2. saves'[p].work = {w \in work' : g \notin under[w]}
    BY <1>3, <2>1
  <2> QED BY <1>1, <2>1, <2>2 DEF Point
<1>4. ASSUME NEW g \in Now', NEW k \in Now', g < k, point[g] # 0, point[k] # 0,
             NEW p \in 1..Len(saves'), NEW q \in 1..Len(saves'),
             At(saves', p, point[g]), At(saves', q, point[k])
      PROVE  p < q
  <2>1. PICK i \in 1..Len(saves') : At(saves', i, point[g]) /\ At(saves, i, point[g])
    BY <1>2, <1>4
  <2>2. PICK j \in 1..Len(saves') : At(saves', j, point[k]) /\ At(saves, j, point[k])
    BY <1>2, <1>4
  <2>3. i = p
    BY <1>4, <2>1, AtUnique
  <2>4. j = q
    BY <1>4, <2>2, AtUnique
  <2>5. p \in 1..Len(saves) /\ q \in 1..Len(saves)
    BY <2>1, <2>2, <2>3, <2>4 DEF At
  <2> QED BY <1>1, <1>4, <2>1, <2>2, <2>3, <2>4, <2>5 DEF Data, Saved
<1>5. ~(call'.kind = "savepoint" /\ call'.answer = "ok")
  BY Answering
<1> QED BY <1>1, <1>3, <1>4, <1>5 DEF Saved

LEMMA SrvReleaseData ==
  ASSUME PlaceInv, Data, SrvRelease
  PROVE  Data'
<1>1. /\ wire # <<>> /\ Incoming.type = "RELEASE" /\ Executes("ok") /\ tx = "open" /\ Matches # {}
      /\ saves' = SubSeq(saves, 1, Latest - 1) /\ UNCHANGED <<tx, work, durable, faults>>
  BY DEF SrvRelease, Arrives
<1>2. PICK h \in Handle : EndedBy(h)
  BY <1>1, Ended
<1>3. Latest \in 1..Len(saves) /\ TypeOK
  BY <1>1, LatestFacts DEF PlaceInv
<1>4. Len(saves) \in Nat
  <2>1. saves \in Seq(Savepoint)
    BY <1>3 DEF TypeOK
  <2> QED BY <2>1, LenProperties
<1>5. PICK m \in 0..Len(saves) : m = Latest - 1
  BY <1>3, <1>4, SMT
<1>6. /\ m \in Nat /\ m <= Len(saves)
      /\ \A p \in 1..Len(saves) : p < Latest => p <= m
  BY <1>3, <1>4, <1>5, SMT
<1>7. saves' \in Seq(Savepoint) /\ Len(saves') = m /\ \A i \in 1..m : saves'[i] = saves[i]
  BY <1>1, <1>3, <1>5, SaveTypes
<1>8. Saved'
  BY <1>1, <1>2, <1>6, <1>7, CutSaved
<1>9. work' = {w \in Writes : Counts(w)'}
  BY <1>1, CountsSame, WorkCounts
<1>10. Faulty'
  BY <1>1 DEF Faulty
<1>11. AllSettled
  <2>1. Innermost(Incoming.under) = {h} /\ point[h] # 0
    BY <1>1, <1>2, NowShrinks DEF EndedBy
  <2> QED BY <1>1, <2>1 DEF AllSettled
<1>12. Lasting /\ durable \subseteq durable' /\ faults \subseteq faults'
  BY <1>1 DEF Lasting
<1>13. Durable' /\ Committed'
  BY <1>1, <1>11, <1>12, ExecuteDurable, ExecuteCommitted
<1> QED BY <1>1, <1>8, <1>9, <1>10, <1>13, ExecuteNested, CountsWorking DEF Data

LEMMA SrvRollbackToData ==
  ASSUME PlaceInv, Data, SrvRollbackTo
  PROVE  Data'
<1>1. /\ wire # <<>> /\ Incoming.type = "ROLLBACK TO" /\ Executes("ok") /\ Matches # {}
      /\ saves' = SubSeq(saves, 1, Latest) /\ work' = saves[Latest].work /\ tx' = "open"
      /\ UNCHANGED <<durable, faults>>
  BY DEF SrvRollbackTo, Arrives
<1>2. PICK h \in Handle : EndedBy(h)
  BY <1>1, Ended
<1>3. Latest \in 1..Len(saves) /\ TypeOK
  BY <1>1, LatestFacts DEF PlaceInv
<1>4. Len(saves) \in Nat
  <2>1. saves \in Seq(Savepoint)
    BY <1>3 DEF TypeOK
  <2> QED BY <2>1, LenProperties
<1>5. PICK m \in 0..Len(saves) : m = Latest
  BY <1>3, <1>4, SMT
<1>6. /\ m \in Nat /\ m <= Len(saves)
      /\ \A p \in 1..Len(saves) : p < Latest => p <= m
  BY <1>3, <1>4, <1>5, SMT
<1>7. saves' \in Seq(Savepoint) /\ Len(saves') = m /\ \A i \in 1..m : saves'[i] = saves[i]
  BY <1>1, <1>3, <1>5, SaveTypes
<1>8. /\ Now' = Now \ {h} /\ fate[h] = "discarded" /\ under' = under /\ fate' = fate
      /\ work' = {w \in work : h \notin under[w]} /\ work \subseteq Writes
      /\ \A w \in Writes : h \in under[w] => Now' \subseteq under[w]
  BY <1>1, <1>2, <1>3 DEF EndedBy, Executes, TypeOK
<1>9. Saved'
  <2>1. \A g \in Now' : {w \in work' : g \notin under[w]} = {w \in work : g \notin under[w]}
    BY <1>8
  <2> QED BY <1>1, <1>2, <1>6, <1>7, <2>1, CutSaved
<1>10. ASSUME NEW w \in Writes PROVE Counts(w)' <=> (Counts(w) /\ h \notin under[w])
  <2>1. outcome'[w] = outcome[w]
    BY <1>1, OutcomeStep
  <2>2. CASE h \in under[w]
    BY <1>8, <2>2 DEF Counts, Kept
  <2>3. CASE h \notin under[w]
    <3>1. under[w] \cap Now' = under[w] \cap Now
      BY <1>8, <2>3
    <3>2. \A g \in under[w] : g \in Now' <=> g \in Now
      BY <1>8, <2>3
    <3> QED BY <1>8, <2>1, <2>3, <3>1, <3>2 DEF Counts, Kept
  <2> QED BY <2>2, <2>3
<1>11. work' = {w \in Writes : Counts(w)'}
  BY <1>1, <1>8, <1>10, WorkCounts
<1>12. Faulty'
  BY <1>1 DEF Faulty
<1>13. AllSettled /\ Lasting /\ durable \subseteq durable' /\ faults \subseteq faults'
  BY <1>1 DEF AllSettled, Lasting
<1>14. Durable' /\ Committed'
  BY <1>1, <1>13, ExecuteDurable, ExecuteCommitted
<1> QED BY <1>1, <1>9, <1>11, <1>12, <1>14, ExecuteNested, CountsWorking DEF Data

LEMMA SrvFailData ==
  ASSUME PlaceInv, Data, SrvFail
  PROVE  Data'
<1>1. /\ wire # <<>> /\ Executes("err") /\ durable' = durable /\ faults' = faults \cup {Incoming.under}
      /\ Incoming.type # "ROLLBACK" /\ (Incoming.type = "ROLLBACK TO" => Matches = {})
  BY DEF SrvFail
<1>2. /\ Incoming \in WireRequest /\ RequestOK(Incoming) /\ alive /\ Now = Incoming.under
      /\ UNCHANGED <<under, fate, point>>
  BY <1>1, Executing DEF Executes
<1>3. Lasting /\ durable \subseteq durable' /\ faults \subseteq faults'
  BY <1>1 DEF Lasting
<1>4. Durable' /\ Committed'
  BY <1>1, <1>3, ExecuteDurable, ExecuteCommitted
<1>5. CASE Incoming.type = "COMMIT"
  <2>1. After(Incoming) = {} /\ work' = {}
    BY <1>2, <1>5, AfterFacts DEF SrvFail, Over
  <2>2. Nested' /\ Working' /\ Saved' /\ Faulty'
    BY <1>1, <1>5, <2>1, QuietData
  <2> QED BY <1>4, <2>2 DEF Data
<1>6. CASE Incoming.type # "COMMIT" /\ Incoming.under = {}
  <2>1. After(Incoming) = {} /\ work' = {} /\ Incoming.type # "SAVEPOINT"
    BY <1>1, <1>2, <1>6, Found, AfterFacts DEF SrvFail
  <2>2. Nested' /\ Working' /\ Saved' /\ Faulty'
    BY <1>1, <2>1, QuietData
  <2> QED BY <1>4, <2>2 DEF Data
<1>7. CASE Incoming.type # "COMMIT" /\ Incoming.under # {}
  <2>1. UNCHANGED <<saves, work>>
    BY <1>7 DEF SrvFail
  <2>2. Incoming.type \in {"WRITE", "SAVEPOINT", "RELEASE"}
    <3>1. Incoming.type # "START"
      BY <1>1, <1>7, Found
    <3>2. Incoming.type # "ROLLBACK TO"
      BY <1>1, Ended DEF EndedBy
    <3> QED BY <1>1, <1>2, <1>7, <3>1, <3>2 DEF WireRequest, RequestType
  <2>3. work' = {w \in Writes : Counts(w)'}
    BY <1>1, <2>1, <2>2, CountsSame, WorkCounts
  <2>4. Saved'
    <3>1. Now' \subseteq Now /\ call'.answer # "ok"
      BY <1>1, NowShrinks, Answering
    <3>2. \A h \in Handle : Point(h)' <=> Point(h)
      BY <1>2, <2>1 DEF Point
    <3>3. Now \in SUBSET Handle
      BY NowFacts
    <3> QED BY <1>2, <2>1, <3>1, <3>2, <3>3 DEF Data, Saved
  <2>5. PICK u \in SUBSET Handle : u = Now
    BY NowFacts
  <2>6. Kept(u)' /\ \E h \in u \cap Now' : point[h] = 0
    <3>1. CASE Incoming.type \in {"WRITE", "SAVEPOINT"}
      <4>1. Now' = Now
        BY <1>1, <3>1, NowShrinks DEF After, Endings
      <4>2. \E h \in Now : point[h] = 0
        BY <1>2, <1>7, NowFacts
      <4> QED BY <2>5, <4>1, <4>2 DEF Kept
    <3>2. CASE Incoming.type = "RELEASE"
      <4>1. PICK h \in Handle : EndedBy(h)
        BY <1>1, <3>2, Ended
      <4>2. Now' = Now \ {h} /\ fate[h] # "discarded" /\ \E g \in Now' : point[g] = 0
        BY <3>2, <4>1 DEF EndedBy
      <4> QED BY <1>2, <2>5, <4>2 DEF Kept
    <3> QED BY <2>2, <3>1, <3>2
  <2>7. Faulty'
    BY <1>1, <1>2, <2>5, <2>6 DEF Faulty
  <2> QED BY <1>1, <1>4, <2>3, <2>4, <2>7, ExecuteNested, CountsWorking DEF Data
<1> QED BY <1>5, <1>6, <1>7

LEMMA LostData ==
  ASSUME PlaceInv, Data, Lost
  PROVE  Data'
<1>1. /\ ~alive' /\ wire' = <<>>
      /\ UNCHANGED <<handles, point, fate, durable, under, outcome, faults>>
      /\ call'.kind = call.kind /\ call'.handle = call.handle
      /\ call'.answer = "ok" => call.answer = "ok"
  BY DEF Lost, PlaceInv, TypeOK, PendingCall, history
<1>2. Live' = Live /\ Now' \subseteq Now
  <2>1. Live' = Live
    BY <1>1 DEF Live
  <2>2. Now' = Live
    BY <1>1, <2>1 DEF Now
  <2> QED BY <2>1, <2>2, NowFacts
<1>3. Nested'
  BY <1>1, <1>2 DEF Data, Nested
<1>4. Working' /\ Saved' /\ Faulty'
  BY <1>1 DEF Working, Saved, Faulty
<1>5. Durable'
  BY <1>1, <1>2 DEF Data, Durable
<1>6. Committed'
  <2>1. \A h \in Handle : /\ Agreed(h)' => Agreed(h)
                          /\ Changes(h)' = Changes(h)
    BY <1>1 DEF Agreed, Changes, Discarded
  <2> QED BY <1>1, <1>2, <2>1 DEF Data, Committed
<1> QED BY <1>3, <1>4, <1>5, <1>6 DEF Data

LEMMA StutterData ==
  ASSUME Data, UNCHANGED vars
  PROVE  Data'
<1>1. UNCHANGED <<handles, point, fate, call, created, requests, wire, alive, tx, saves, work,
                  durable, under, outcome, faults>>
  BY DEF vars, clientVars, wireVars, serverVars, history
<1>2. Live' = Live /\ Now' = Now
  BY <1>1 DEF Live, Now, Incoming
<1>3. Nested' /\ Durable'
  BY <1>1, <1>2 DEF Data, Nested, Durable
<1>4. Working' /\ Faulty'
  BY <1>1, <1>2 DEF Data, Working, Faulty, Kept
<1>5. Saved'
  BY <1>1, <1>2 DEF Data, Saved, Point
<1>6. Committed'
  BY <1>1, <1>2 DEF Data, Committed, Agreed, Changes, Discarded
<1> QED BY <1>3, <1>4, <1>5, <1>6 DEF Data

LEMMA NextData ==
  ASSUME PlaceInv, Named, Data, NoReuse, [Next]_vars
  PROVE  Data'
<1>1. CASE Client
  <2>1. Client => Open \/ Sends
    BY ClientSends DEF Client
  <2> QED BY <1>1, <2>1, OpenData, SendsData
<1>2. CASE Server
  BY <1>2, SrvStartData, SrvWriteData, SrvSavepointData, SrvReleaseData, SrvRollbackToData,
     SrvCommitData, SrvRollbackData, SrvFailData, LostData DEF Server
<1>3. CASE UNCHANGED vars
  BY <1>3, StutterData
<1>4. Client \/ Server \/ UNCHANGED vars
  BY DEF Next
<1> QED BY <1>1, <1>2, <1>3, <1>4

-----------------------------------------------------------------------------
(* What is kept and what is discarded                                      *)

\* The invariant that the theorems of this section rest on.
THEOREM DataCorrect == NoReuse /\ Spec => []DataInv
<1>1. Init => PlaceInv /\ Named /\ Data
  BY InitPlace, InitNamed, InitData
<1>2. NoReuse /\ PlaceInv /\ Named /\ Data /\ [Next]_vars => PlaceInv' /\ Named' /\ Data'
  BY NextPlace, NextNamed, NextData
<1>3. PlaceInv /\ Named /\ Data => DataInv
  BY DEF DataInv, Data
<1>4. CASE NoReuse
  BY <1>1, <1>2, <1>3, <1>4, PTL DEF Spec
<1> QED BY <1>4

\* Rolling back or dropping a Transaction discards every change made within it,
\* for good (transaction.rs: rollback, Drop, and commit of the ones around it).
THEOREM RollbackDiscardsCorrect == NoReuse /\ Spec => []RollbackDiscards
<1>1. DataInv => RollbackDiscards
  BY DEF DataInv, Durable, RollbackDiscards, Discarded
<1> QED BY <1>1, DataCorrect, PTL

\* A commit that returns Ok has made every change of the Transaction durable, if no
\* statement failed but in what was rolled back (transaction.rs, commit).
THEOREM CommitKeepsCorrect == NoReuse /\ Spec => []CommitKeeps
<1>1. DataInv => CommitKeeps
  <2>1. SUFFICES ASSUME DataInv, NEW h \in Handle, point[h] = 0, fate[h] = "committed",
                        \A hs \in faults : h \in hs => Discarded(hs)
                 PROVE  Changes(h) \subseteq durable
    BY DEF CommitKeeps, Outermost
  <2>2. ~ \E hs \in faults : h \in hs /\ \A g \in hs : fate[g] # "discarded" /\ g \notin Live
    BY <2>1 DEF Discarded
  <2> QED BY <2>1, <2>2 DEF DataInv, Committed, Agreed
<1> QED BY <1>1, DataCorrect, PTL

\* A step makes durable all the changes of an outermost Transaction that its caller
\* asked to commit, or one statement executed outside of any, and nothing else.
THEOREM AllOrNothingCorrect == NoReuse /\ Spec => AllOrNothing
<1> DEFINE Whole == \/ \E h \in Handle : /\ Outermost(h) /\ fate[h] \in {"committing", "unknown"}
                                         /\ durable' = durable \cup Changes(h)
                    \/ \E w \in Writes : under[w] = {} /\ durable' = durable \cup {w}
<1>1. DataInv /\ [Next]_vars => [durable' # durable => Whole]_vars
  <2>1. SUFFICES ASSUME DataInv, Next, durable' # durable PROVE Whole
    OBVIOUS
  <2>2. PlaceInv /\ Data
    BY <2>1 DEF DataInv, Data
  <2>3. SrvWrite \/ SrvCommit
    BY <2>1 DEF Next, Client, Server, serverVars, Start, Nest, Open, NotOpened, Write, Commit,
       CommitDone, Rollback, RollbackDone, Drop, SrvStart, SrvSavepoint, SrvRelease, SrvRollbackTo,
       SrvRollback, SrvFail, Lost
  <2>4. CASE SrvWrite
    <3>1. /\ wire # <<>> /\ Incoming.type = "WRITE" /\ Executes("ok") /\ tx = "idle"
          /\ durable' = durable \cup {Incoming.of}
      BY <2>1, <2>4 DEF SrvWrite, Arrives
    <3>2. Incoming.of \in Writes /\ under[Incoming.of] = Now /\ Now = Incoming.under
      BY <2>2, <3>1, OutcomeStep, NowShrinks
    <3>3. Incoming.under = {}
      BY <2>2, <3>1, Found
    <3> QED BY <3>1, <3>2, <3>3
  <2>5. CASE SrvCommit
    <3>1. wire # <<>> /\ Incoming.type = "COMMIT" /\ durable' = durable \cup work
      BY <2>1, <2>5 DEF SrvCommit, Arrives
    <3>2. PICK h \in Handle : point[h] = 0 /\ fate[h] \in {"committing", "unknown"} /\ work = Changes(h)
      BY <2>2, <3>1, WorkChanges
    <3> QED BY <3>1, <3>2 DEF Outermost
  <2> QED BY <2>3, <2>4, <2>5
<1> HIDE DEF Whole
<1>2. NoReuse /\ Spec => [][durable' # durable => Whole]_vars
  BY <1>1, DataCorrect, PTL DEF Spec
<1> QED BY <1>2 DEF AllOrNothing, Whole
=============================================================================
