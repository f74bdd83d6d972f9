---------------------------- MODULE AnswersProofs ----------------------------
(***************************************************************************)
(* Answers: a call that returns Ok has read the whole answer of its own    *)
(* statements, and what it says of the transaction is what became of it.   *)
(*                                                                         *)
(* A call that is still reading is at some place of the answer that its    *)
(* request would have if nothing failed: what it has read is the answer up *)
(* to there, what it has not read goes on from there, as far as the server *)
(* has got, and ends with an Error where the server failed.                *)
(***************************************************************************)
EXTENDS Answers, SequencesExt, SequenceTheorems, WellFoundedInduction, TLAPS

-----------------------------------------------------------------------------
(* Sequences of sequences: what FlattenSeq returns of the empty one, of one *)
(* with an element more at either end, and of two one after the other.     *)

-----------------------------------------------------------------------------
(* Induction over a set of natural numbers.                                *)

LEMMA NatSetInduction ==
  ASSUME NEW T, 0 \in T, \A n \in Nat : n \in T => n + 1 \in T
  PROVE  \A n \in Nat : n \in T
<1> DEFINE R == {ss \in Nat \X Nat : ss[1] < ss[2]}
           D == {n \in Nat : n \notin T}
<1>1. SUFFICES ASSUME D # {} PROVE FALSE
  OBVIOUS
<1>2. IsWellFoundedOn(R, Nat)
  BY NatLessThanWellFounded DEF OpToRel
<1>3. PICK x \in D : \A y \in D : ~(<<y, x>> \in R)
  <2> D \subseteq Nat
    OBVIOUS
  <2> HIDE DEF R, D
  <2> QED
    BY <1>1, <1>2, WFMin
<1>4. x \in Nat /\ x # 0 /\ x - 1 \in Nat
  BY <1>3
<1>5. x - 1 \in D
  <2>1. x = (x - 1) + 1
    BY <1>4
  <2> QED
    BY <1>3, <1>4, <2>1
<1>6. <<x - 1, x>> \in R
  BY <1>4
<1> QED
  BY <1>3, <1>5, <1>6

-----------------------------------------------------------------------------
(* Concatenation.                                                          *)

LEMMA Associative == \A S : \A a, b, c \in Seq(S) : (a \o b) \o c = a \o (b \o c)
BY ConcatAssociative

-----------------------------------------------------------------------------
(* FlattenSeq.                                                             *)

LEMMA FlattenEmpty == FlattenSeq(<<>>) = <<>>
BY DEF FlattenSeq

\* f[i] is the first i of the sequences, one after the other.
Flattening(ss, f) ==
  f = [i \in 1..Len(ss) |-> IF i = 1 THEN ss[i] ELSE f[i - 1] \o ss[i]]

LEMMA FlatteningExists ==
  ASSUME NEW S, NEW ss \in Seq(Seq(S))
  PROVE  \E f \in [1..Len(ss) -> Seq(S)] : Flattening(ss, f)
<1> DEFINE So(m, f) == \A i \in 1..m : f[i] = IF i = 1 THEN ss[i] ELSE f[i - 1] \o ss[i]
           T == {m \in Nat : m <= Len(ss) => \E f \in [1..m -> Seq(S)] : So(m, f)}
<1>1. Len(ss) \in Nat /\ \A i \in 1..Len(ss) : ss[i] \in Seq(S)
  OBVIOUS
<1>2. 0 \in T
  <2>1. [i \in 1..0 |-> <<>>] \in [1..0 -> Seq(S)] /\ So(0, [i \in 1..0 |-> <<>>])
    OBVIOUS
  <2> HIDE DEF So
  <2> QED
    BY <2>1
<1>3. ASSUME NEW m \in Nat, m \in T PROVE m + 1 \in T
  <2> SUFFICES ASSUME m + 1 <= Len(ss)
               PROVE  \E f \in [1..m + 1 -> Seq(S)] : So(m + 1, f)
    <3> HIDE DEF So
    <3> QED
      OBVIOUS
  <2>1. PICK f \in [1..m -> Seq(S)] : So(m, f)
    <3>1. m <= Len(ss)
      BY <1>1
    <3> HIDE DEF So
    <3> QED
      BY <1>3, <3>1
  <2> DEFINE last == IF m = 0 THEN ss[1] ELSE f[m] \o ss[m + 1]
             g == [i \in 1..m + 1 |-> IF i <= m THEN f[i] ELSE last]
  <2>2. last \in Seq(S)
    BY <1>1
  <2>3. g \in [1..m + 1 -> Seq(S)]
    BY <2>2
  <2>4. \A i \in 1..m : g[i] = f[i] /\ (i # 1 => i - 1 \in 1..m /\ g[i - 1] = f[i - 1])
    OBVIOUS
  <2>5. g[m + 1] = last /\ (m # 0 => g[m] = f[m])
    OBVIOUS
  <2>6. ASSUME NEW i \in 1..m + 1
        PROVE  g[i] = IF i = 1 THEN ss[i] ELSE g[i - 1] \o ss[i]
    <3>1. CASE i \in 1..m
      BY <2>1, <2>4, <3>1
    <3>2. CASE i = m + 1
      <4> HIDE DEF g
      <4> QED
        BY <2>5, <3>2
    <3> QED
      BY <3>1, <3>2
  <2> HIDE DEF g, last
  <2> QED
    BY <2>3, <2>6
<1>4. Len(ss) \in T
  <2> HIDE DEF T
  <2> QED
    BY <1>1, <1>2, <1>3, NatSetInduction
<1>5. PICK f \in [1..Len(ss) -> Seq(S)] : So(Len(ss), f)
  BY <1>1, <1>4
<1>6. Flattening(ss, f)
  <2>1. f = [i \in 1..Len(ss) |-> f[i]]
    OBVIOUS
  <2>2. [i \in 1..Len(ss) |-> f[i]]
          = [i \in 1..Len(ss) |-> IF i = 1 THEN ss[i] ELSE f[i - 1] \o ss[i]]
    BY <1>5
  <2> QED
    BY <2>1, <2>2 DEF Flattening
<1> QED
  BY <1>6

LEMMA FlatteningUnique ==
  ASSUME NEW S, NEW ss \in Seq(Seq(S)), NEW n \in 1..Len(ss)
  PROVE  \A f, g : Flattening(ss, f) /\ Flattening(SubSeq(ss, 1, n), g) =>
           \A i \in 1..n : f[i] = g[i]
<1> SUFFICES ASSUME NEW f, NEW g, Flattening(ss, f), Flattening(SubSeq(ss, 1, n), g)
             PROVE  \A i \in 1..n : f[i] = g[i]
  OBVIOUS
<1> DEFINE T == {m \in Nat : m + 1 <= n => f[m + 1] = g[m + 1]}
           tt == SubSeq(ss, 1, n)
<1>1. Len(ss) \in Nat /\ n \in Nat /\ n >= 1 /\ n <= Len(ss)
  OBVIOUS
<1>2. Len(tt) = n /\ \A i \in 1..n : tt[i] = ss[i]
  BY <1>1, SubSeqProperties
<1>3. \A i \in 1..n : f[i] = IF i = 1 THEN ss[i] ELSE f[i - 1] \o ss[i]
  <2>1. \A i \in 1..Len(ss) : f[i] = IF i = 1 THEN ss[i] ELSE f[i - 1] \o ss[i]
    BY Zenon DEF Flattening
  <2>2. \A i \in 1..n : i \in 1..Len(ss)
    BY <1>1
  <2> QED
    BY <2>1, <2>2, Zenon
<1>4. \A i \in 1..n : g[i] = IF i = 1 THEN ss[i] ELSE g[i - 1] \o ss[i]
  <2> HIDE DEF tt
  <2> QED
    BY <1>1, <1>2, Zenon DEF Flattening, tt
<1>5. 0 \in T
  BY <1>1, <1>3, <1>4
<1>6. ASSUME NEW m \in Nat, m \in T PROVE m + 1 \in T
  <2> SUFFICES ASSUME m + 2 <= n PROVE f[m + 2] = g[m + 2]
    OBVIOUS
  <2>1. f[m + 1] = g[m + 1]
    BY <1>1, <1>6
  <2>2. m + 2 \in 1..n /\ m + 2 # 1 /\ (m + 2) - 1 = m + 1
    BY <1>1
  <2> QED
    BY <1>3, <1>4, <2>1, <2>2
<1>7. \A m \in Nat : m \in T
  <2> HIDE DEF T
  <2> QED
    BY <1>5, <1>6, NatSetInduction
<1> QED
  <2> TAKE i \in 1..n
  <2>1. i - 1 \in Nat /\ (i - 1) + 1 = i /\ i <= n
    BY <1>1
  <2> QED
    BY <1>7, <2>1

LEMMA FlattenByPrefixes ==
  ASSUME NEW S, NEW ss \in Seq(Seq(S)), ss # <<>>
  PROVE  \E f \in [1..Len(ss) -> Seq(S)] : Flattening(ss, f) /\ FlattenSeq(ss) = f[Len(ss)]
<1> DEFINE h == CHOOSE f : f = [i \in 1..Len(ss) |-> IF i = 1 THEN ss[i] ELSE f[i - 1] \o ss[i]]
<1>1. PICK f \in [1..Len(ss) -> Seq(S)] : Flattening(ss, f)
  BY FlatteningExists
<1>2. \E g : g = [i \in 1..Len(ss) |-> IF i = 1 THEN ss[i] ELSE g[i - 1] \o ss[i]]
  BY <1>1 DEF Flattening
<1>3. h = [i \in 1..Len(ss) |-> IF i = 1 THEN ss[i] ELSE h[i - 1] \o ss[i]]
  BY <1>2, Zenon
<1>4. Len(ss) # 0 /\ Len(ss) \in Nat
  OBVIOUS
<1>5. FlattenSeq(ss) = h[Len(ss)]
  BY <1>4, Zenon DEF FlattenSeq
<1> HIDE DEF h
<1>6. Flattening(ss, h)
  BY <1>3 DEF Flattening
<1>7. SubSeq(ss, 1, Len(ss)) = ss
  BY SubSeqFull
<1>8. \A i \in 1..Len(ss) : f[i] = h[i]
  <2>1. Len(ss) \in 1..Len(ss)
    BY <1>4
  <2>2. Flattening(SubSeq(ss, 1, Len(ss)), h)
    BY <1>6, <1>7
  <2> QED
    <3>1. \A n \in 1..Len(ss) : \A f2, g2 :
            Flattening(ss, f2) /\ Flattening(SubSeq(ss, 1, n), g2) => \A k \in 1..n : f2[k] = g2[k]
      BY FlatteningUnique
    <3> QED
      BY <1>1, <2>1, <2>2, <3>1, Zenon
<1>9. f[Len(ss)] = h[Len(ss)]
  BY <1>4, <1>8
<1> QED
  BY <1>1, <1>5, <1>9

LEMMA FlattenType ==
  ASSUME NEW S, NEW ss \in Seq(Seq(S))
  PROVE  FlattenSeq(ss) \in Seq(S)
<1>1. CASE ss = <<>>
  <2>1. FlattenSeq(ss) = <<>>
    BY <1>1, FlattenEmpty
  <2> QED
    BY <2>1, EmptySeq
<1>2. CASE ss # <<>>
  <2>1. Len(ss) \in 1..Len(ss)
    BY <1>2
  <2>2. PICK f \in [1..Len(ss) -> Seq(S)] : FlattenSeq(ss) = f[Len(ss)]
    BY <1>2, FlattenByPrefixes, Zenon
  <2> QED
    BY <2>1, <2>2
<1> QED
  BY <1>1, <1>2

\* One sequence more at the end.
LEMMA FlattenAppend ==
  ASSUME NEW S, NEW ss \in Seq(Seq(S)), NEW s \in Seq(S)
  PROVE  FlattenSeq(Append(ss, s)) = FlattenSeq(ss) \o s
<1> DEFINE tt == Append(ss, s)
           n == Len(ss)
<1>1. /\ tt \in Seq(Seq(S)) /\ tt # <<>> /\ Len(tt) = n + 1 /\ n \in Nat
      /\ tt[n + 1] = s /\ SubSeq(tt, 1, n) = ss
  <2>1. /\ tt \in Seq(Seq(S)) /\ tt # <<>> /\ Len(tt) = n + 1 /\ n \in Nat
        /\ tt[n + 1] = s
    BY AppendProperties
  <2>2. tt = ss \o <<s>> /\ <<s>> \in Seq(Seq(S))
    BY AppendIsConcat
  <2>3. SubSeq(tt, 1, n) = ss
    <3>1. \A i \in 1..n : tt[i] = ss[i]
      BY AppendProperties
    <3>2. SubSeq(tt, 1, n) \in Seq(Seq(S)) /\ Len(SubSeq(tt, 1, n)) = n
          /\ \A i \in 1..n : SubSeq(tt, 1, n)[i] = tt[i]
      <4> HIDE DEF tt
      <4> QED
        BY <2>1, SubSeqProperties
    <3> HIDE DEF tt
    <3> QED
      BY <3>1, <3>2, SeqEqual
  <2> QED
    BY <2>1, <2>3
<1>2. PICK f \in [1..n + 1 -> Seq(S)] : Flattening(tt, f) /\ FlattenSeq(tt) = f[n + 1]
  <2> HIDE DEF tt
  <2> QED
    BY <1>1, FlattenByPrefixes
<1>3. f[n + 1] = IF n + 1 = 1 THEN tt[n + 1] ELSE f[(n + 1) - 1] \o tt[n + 1]
  <2> HIDE DEF tt
  <2> QED
    <3>1. n + 1 \in 1..Len(tt)
      BY <1>1
    <3> QED
      BY <1>2, <3>1, Zenon DEF Flattening
<1>4. CASE ss = <<>>
  <2>1. n = 0 /\ f[n + 1] = s
    BY <1>1, <1>3, <1>4
  <2>2. FlattenSeq(ss) \o s = s
    BY <1>4, FlattenEmpty, ConcatEmptySeq
  <2> QED
    BY <1>2, <2>1, <2>2
<1>5. CASE ss # <<>>
  <2>1. n # 0 /\ n \in 1..n /\ n \in 1..Len(tt) /\ (n + 1) - 1 = n
    BY <1>1, <1>5
  <2>2. PICK g \in [1..n -> Seq(S)] : Flattening(ss, g) /\ FlattenSeq(ss) = g[n]
    BY <1>5, FlattenByPrefixes
  <2>3. f[n] = g[n]
    <3> HIDE DEF tt
    <3> QED
      <4>1. Flattening(SubSeq(tt, 1, n), g)
        BY <1>1, <2>2
      <4>2. \A k \in 1..n : f[k] = g[k]
        <5>1. tt \in Seq(Seq(S)) /\ n \in 1..Len(tt)
          BY <1>1, <2>1
        <5>2. \A g1, g2 : Flattening(tt, g1) /\ Flattening(SubSeq(tt, 1, n), g2) =>
                \A k \in 1..n : g1[k] = g2[k]
          BY <5>1, FlatteningUnique
        <5> QED
          BY <1>2, <4>1, <5>2, Zenon
      <4> QED
        BY <2>1, <4>2
  <2> HIDE DEF tt
  <2> QED
    BY <1>1, <1>2, <1>3, <2>1, <2>2, <2>3 DEF tt
<1> QED
  BY <1>4, <1>5

LEMMA FlattenOne ==
  ASSUME NEW S, NEW s \in Seq(S)
  PROVE  FlattenSeq(<<s>>) = s
<1>1. <<s>> = Append(<<>>, s) /\ <<>> \in Seq(Seq(S))
  OBVIOUS
<1>2. FlattenSeq(<<s>>) = FlattenSeq(<<>>) \o s
  BY <1>1, FlattenAppend
<1> QED
  BY <1>2, FlattenEmpty, ConcatEmptySeq

\* Two after each other.
LEMMA FlattenConcat ==
  \A S : \A ss, tt \in Seq(Seq(S)) :
    FlattenSeq(ss \o tt) = FlattenSeq(ss) \o FlattenSeq(tt)
<1>0. SUFFICES ASSUME NEW S, NEW ss, NEW tt, ss \in Seq(Seq(S)), tt \in Seq(Seq(S))
               PROVE  FlattenSeq(ss \o tt) = FlattenSeq(ss) \o FlattenSeq(tt)
  OBVIOUS
<1> DEFINE T == {m \in Nat : m <= Len(tt) =>
                   FlattenSeq(ss \o SubSeq(tt, 1, m))
                     = FlattenSeq(ss) \o FlattenSeq(SubSeq(tt, 1, m))}
<1>1. Len(tt) \in Nat /\ FlattenSeq(ss) \in Seq(S)
  BY <1>0, FlattenType
<1>2. 0 \in T
  <2>1. SubSeq(tt, 1, 0) = <<>> /\ ss \o <<>> = ss
    BY <1>0, ConcatEmptySeq
  <2>2. FlattenSeq(ss) \o <<>> = FlattenSeq(ss)
    BY <1>1, ConcatEmptySeq
  <2> QED
    BY <2>1, <2>2, FlattenEmpty
<1>3. ASSUME NEW m \in Nat, m \in T PROVE m + 1 \in T
  <2> SUFFICES ASSUME m + 1 <= Len(tt)
               PROVE  FlattenSeq(ss \o SubSeq(tt, 1, m + 1))
                        = FlattenSeq(ss) \o FlattenSeq(SubSeq(tt, 1, m + 1))
    OBVIOUS
  <2> DEFINE u == SubSeq(tt, 1, m)
             s == tt[m + 1]
  <2>1. u \in Seq(Seq(S)) /\ s \in Seq(S) /\ m + 1 \in 1..Len(tt) /\ (m + 1) - 1 = m
    BY <1>0, <1>1
  <2>2. SubSeq(tt, 1, m + 1) = Append(u, s)
    <3>1. SubSeq(tt, 1, m + 1) = u \o <<s>>
      BY <1>0, <2>1, SubSeqRecursiveSecond
    <3> HIDE DEF u, s
    <3> QED
      BY <2>1, <3>1, AppendIsConcat
  <2>3. FlattenSeq(ss \o u) = FlattenSeq(ss) \o FlattenSeq(u)
    BY <1>1, <1>3
  <2> HIDE DEF u, s
  <2>4. ss \o Append(u, s) = Append(ss \o u, s) /\ ss \o u \in Seq(Seq(S))
    <3>1. Append(u, s) = u \o <<s>> /\ Append(ss \o u, s) = (ss \o u) \o <<s>>
          /\ <<s>> \in Seq(Seq(S)) /\ ss \o u \in Seq(Seq(S))
      BY <1>0, <2>1, AppendIsConcat
    <3>2. ss \o (u \o <<s>>) = (ss \o u) \o <<s>>
      <4> DEFINE Q == Seq(S)
                 v == <<s>>
      <4>1. ss \in Seq(Q) /\ u \in Seq(Q) /\ v \in Seq(Q)
        BY <1>0, <2>1, <3>1
      <4> HIDE DEF Q, v
      <4>2. (ss \o u) \o v = ss \o (u \o v)
        BY <4>1, ConcatAssociative
      <4> QED
        BY <4>2 DEF v
    <3> QED
      BY <3>1, <3>2, Zenon
  <2>5. FlattenSeq(ss \o Append(u, s)) = (FlattenSeq(ss) \o FlattenSeq(u)) \o s
    BY <1>0, <2>1, <2>3, <2>4, FlattenAppend
  <2>6. FlattenSeq(Append(u, s)) = FlattenSeq(u) \o s /\ FlattenSeq(u) \in Seq(S)
    BY <2>1, FlattenAppend, FlattenType
  <2>7. (FlattenSeq(ss) \o FlattenSeq(u)) \o s = FlattenSeq(ss) \o (FlattenSeq(u) \o s)
    <3> DEFINE a == FlattenSeq(ss)
               b == FlattenSeq(u)
    <3>1. a \in Seq(S) /\ b \in Seq(S) /\ s \in Seq(S)
      BY <1>1, <2>1, <2>6
    <3> HIDE DEF a, b
    <3>2. (a \o b) \o s = a \o (b \o s)
      BY <3>1, Associative, SMT
    <3> QED
      BY <3>2 DEF a, b
  <2> QED
    BY <2>2, <2>5, <2>6, <2>7
<1>4. Len(tt) \in T
  <2> HIDE DEF T
  <2> QED
    BY <1>1, <1>2, <1>3, NatSetInduction
<1>5. SubSeq(tt, 1, Len(tt)) = tt
  BY <1>0, SubSeqFull
<1>6. FlattenSeq(ss \o SubSeq(tt, 1, Len(tt)))
        = FlattenSeq(ss) \o FlattenSeq(SubSeq(tt, 1, Len(tt)))
  BY <1>1, <1>4
<1> QED
  BY <1>5, <1>6

\* One sequence more at the front.
LEMMA FlattenFront ==
  ASSUME NEW S, NEW ss \in Seq(Seq(S)), NEW s \in Seq(S)
  PROVE  FlattenSeq(<<s>> \o ss) = s \o FlattenSeq(ss)
<1> DEFINE tt == <<s>>
<1>1. tt \in Seq(Seq(S))
  OBVIOUS
<1>2. FlattenSeq(tt) = s
  BY FlattenOne
<1> HIDE DEF tt
<1>3. FlattenSeq(tt \o ss) = FlattenSeq(tt) \o FlattenSeq(ss)
  <2>1. tt \in Seq(Seq(S)) /\ ss \in Seq(Seq(S))
    BY <1>1
  <2> QED
    BY <2>1, FlattenConcat
<1> QED
  BY <1>2, <1>3 DEF tt

-----------------------------------------------------------------------------
(* The answer.                                                             *)

Kinds == {"Parse", "Bind", "Describe", "Execute", "Sync", "Query", "CopyDone", "CopyFail"}
Types == {"ParseComplete", "BindComplete", "ParameterDescription", "RowDescription", "NoData",
          "DataRow", "CommandComplete", "EmptyQuery", "PortalSuspended", "CopyInResponse",
          "CopyOutResponse", "CopyData", "CopyDone"}
Message == [type : Types, of : Nat, n : Nat]

\* What comes before the answer to the Execute, or the Query.
Before ==
  CASE op \in Typed \cup {"execute_typed"} ->
         Just("ParseComplete") \o Just("BindComplete")
           \o (Just("ParameterDescription") \o Description(1))
    [] op = "prepare" -> Just("ParseComplete") \o (Just("ParameterDescription") \o Description(1))
    [] op \in Simple \cup {"query_portal", "sync"} -> <<>>
    [] OTHER -> Just("BindComplete")

RowLimit == IF op = "query_portal" THEN PortalRows ELSE 0
Body ==
  CASE op \in Simple -> Ran
    [] op \in {"prepare", "bind", "sync"} -> <<>>
    [] OTHER -> Executed(1, RowLimit)

Whole == Before \o Body

\* How much of it the first n frontend messages are answered with.
Upto(n) ==
  IF op \in Simple THEN 0
  ELSE IF n = Len(Request(op)) - 1 THEN Len(Whole)
  ELSE IF op = "prepare" THEN n
  ELSE IF n = 3 THEN 4 ELSE n

\* How far the server has got: n messages executed, q messages of the answer sent
\* and then tl.
Served(n, q, tl) ==
  LET N == Len(Request(op)) IN
  \/ /\ n < N /\ srv = "run" /\ outcome = "open" /\ q = Upto(n) /\ tl = <<>>
     /\ n = N - 1 /\ op \notin Simple => ~Copies(Whole)
  \/ /\ n < N /\ srv = "skip" /\ outcome = "open" /\ q < Len(Whole) /\ tl = Just("Error")
     /\ op \notin Simple
  \/ /\ n = N /\ srv = "run" /\ outcome = "committed" /\ q = Len(Whole) /\ tl = Just("Ready")
     /\ ~Copies(Whole)
  \/ /\ n = N /\ srv = "run" /\ outcome = "aborted" /\ tl = Just("Error") \o Just("Ready")
     /\ Copies(Whole) => q < Len(Whole)
  \/ /\ n \in {N - 1, N} /\ srv = "copy" /\ outcome = "open" /\ q = Len(Whole) /\ tl = <<>>
     /\ Copies(Whole)
     /\ op \in Simple => n = N

-----------------------------------------------------------------------------
(* The place of the call in it.                                            *)

Least(a, b) == IF a <= b THEN a ELSE b
FirstRows(i, n) == [k \in 1..n |-> <<i, k>>]

\* The rows in the answer to the Execute.
Rows ==
  IF sql[1].kind # "select" THEN 0
  ELSE IF RowLimit > 0 /\ sql[1].rows >= RowLimit THEN RowLimit ELSE sql[1].rows

AtRows(p) ==
  /\ stage = "rows"
  /\ p >= Len(Before)
  /\ sql[1].kind \in {"copyIn", "copyOut"} => p = Len(Before)
  /\ seen.rows = FirstRows(1, Least(p - Len(Before), Rows))
  /\ op \in One \cup Opt => Len(seen.rows) <= 1

AtCount(p) ==
  /\ p >= Len(Before)
  /\ sql[1].kind \in {"copyIn", "copyOut"} => p = Len(Before)
  /\ p > Len(Before) /\ p = Len(Whole) =>
       seen.affected = IF sql[1].kind = "empty" THEN 0 ELSE sql[1].rows

\* In a text of the simple protocol: k messages into the answer to its i-th statement.
Results(i) == [j \in 1..i |-> Result(j)]
\* How long the answer to the first i statements is.
Start(i) == Len(FlattenSeq(Results(i)))
Statements == CHOOSE n \in DOMAIN sql : RunsLast(n)
RowLists(i) == [j \in 1..i |-> RowsIn(j)]
RowsUpto(i) == FlattenSeq(RowLists(i))
ReadOf(i, k) ==
  RowsUpto(i - 1)
    \o (IF sql[i].kind = "select" /\ k > 0 THEN FirstRows(i, Least(k - 1, sql[i].rows)) ELSE <<>>)
AtSimple(p, i, k) ==
  /\ p = Start(i - 1) + k
  /\ k > 0 => sql[i].kind \notin {"copyIn", "copyOut"}
  /\ sql[i].kind = "select" /\ k > 0 => seen.columns = i
  /\ seen.rows = ReadOf(i, k)

PlacedSimple(p) == \E i \in 1..Statements : \E k \in 0..Len(Result(i)) : AtSimple(p, i, k)

At(p) ==
  \/ op \in RowOps \ Typed /\ p = 0 /\ stage = "bind" /\ seen.rows = <<>>
  \/ op \in Typed /\ p < 4 /\ stage = "describe" /\ seen.rows = <<>>
  \/ op \in RowOps \cup {"query_portal"} /\ AtRows(p)
  \/ op \in {"execute", "bind", "copy_out", "copy_in"} /\ p = 0 /\ stage = "bind" /\ seen.rows = <<>>
  \/ op = "execute" /\ stage = "count" /\ AtCount(p)
  \/ op = "execute_typed" /\ stage = "typed_count" /\ (p < 4 \/ AtCount(p))
  \/ op = "prepare" /\ p < 3 /\ stage = <<"parse", "params", "columns">>[p + 1]
  \/ op = "sync" /\ p = 0 /\ stage = "sync"
  \/ op = "copy_out" /\ p = 1 /\ stage = "copy_out" /\ seen.rows = <<>>
  \/ /\ op = "copy_out" /\ p >= 2 /\ stage = "data" /\ sql[1].kind = "copyOut"
     /\ p <= 2 + sql[1].rows
     /\ seen.rows = FirstRows(1, p - 2)
  \/ op = "copy_in" /\ p = 1 /\ stage = "copy_in"
  \/ op = "copy_in" /\ p = 2 /\ stage = "sink" /\ sql[1].kind = "copyIn"
  \/ op = "batch_execute" /\ stage = "batch_execute"
  \/ op = "simple_query" /\ stage = "simple_query" /\ PlacedSimple(p)

Reading(n, p, q, tl) ==
  /\ n <= Len(Request(op)) /\ p <= q /\ q <= Len(Whole)
  /\ todo = SubSeq(Request(op), n + 1, Len(Request(op)))
  /\ replies = SubSeq(Whole, p + 1, q) \o tl
  /\ Served(n, q, tl)
  /\ At(p)

Tails == {<<>>, Just("Error"), Just("Ready"), Just("Error") \o Just("Ready")}

\* A copy that has been finished: the server takes the end of it, then the Sync.
Err == Msg("Error", 0, 0)
Rdy == Msg("Ready", 0, 0)
Tag == Msg("CommandComplete", 1, sql[1].rows)
Finishing ==
  /\ op = "copy_in" /\ sql[1].kind = "copyIn" /\ stage = "finish"
  /\ \/ /\ srv = "copy" /\ outcome = "open" /\ replies = <<>>
        /\ todo \in {<<"Sync", "CopyDone", "Sync">>, <<"CopyDone", "Sync">>}
     \/ srv = "run" /\ outcome = "open" /\ todo = <<"Sync">> /\ replies = <<Tag>>
     \/ srv = "skip" /\ outcome = "open" /\ todo = <<"Sync">> /\ replies = <<Err>>
     \/ srv = "run" /\ outcome = "committed" /\ todo = <<>> /\ replies = <<Tag, Rdy>>
     \/ /\ srv = "run" /\ outcome = "aborted" /\ todo = <<>>
        /\ replies \in {<<Tag, Err, Rdy>>, <<Err, Rdy>>}

-----------------------------------------------------------------------------
(* The call has returned.                                                  *)

\* A transaction that cannot commit any more.
Lost ==
  /\ outcome = "aborted" \/ (outcome = "open" /\ srv = "skip")
  /\ todo \in Seq(Kinds \ {"Query"})

\* Nor can that of a copy nobody finished.
Unfinished ==
  \/ Lost
  \/ /\ outcome = "open"
     /\ \/ srv = "copy" /\ todo \in Seq(Kinds \ {"Query", "CopyDone"})
        \/ /\ srv = "run"
           /\ todo \in {<<"Bind", "Execute", "Sync", "CopyFail", "Sync">>,
                        <<"Execute", "Sync", "CopyFail", "Sync">>}

Settled ==
  /\ stage = "done"
  /\ result = "ok" /\ op \in Deciding => outcome = "committed" /\ todo = <<>>
  /\ result = "db" => Lost
  /\ op = "copy_in" /\ sql[1].kind = "copyIn" =>
       result \in {"ok", "left", "db", "dropped"} /\ (result \notin {"ok", "left"} => Unfinished)
  /\ ResultExact
  /\ NoFalseAlarm

-----------------------------------------------------------------------------
(* The invariant.                                                          *)

Idle ==
  /\ op = "none" /\ stage = "idle" /\ sql = <<>> /\ todo = <<>> /\ replies = <<>>
  /\ srv = "run" /\ outcome = "open" /\ result = "none"
  /\ seen = [rows |-> <<>>, affected |-> 0, columns |-> 0]

Busy ==
  /\ result = "none"
  /\ \/ Finishing
     \/ \E n, p, q \in Nat, tl \in Tails : Reading(n, p, q, tl)

AnswersInv ==
  \/ Idle
  \/ /\ op \in Ops /\ sql \in Texts(op)
     /\ DOMAIN seen = {"rows", "affected", "columns"}
     /\ Busy \/ Settled
-----------------------------------------------------------------------------
(* Windows of a sequence.                                                  *)

LEMMA WindowEmpty ==
  ASSUME NEW S, NEW F \in Seq(S), NEW p \in Nat
  PROVE  SubSeq(F, p + 1, p) = <<>>
<1>1. p + 1 \in Int /\ p \in Int /\ p + 1 > p
  OBVIOUS
<1> QED
  BY <1>1, SubSeqEmpty

LEMMA WindowElements ==
  ASSUME NEW S, NEW F \in Seq(S), NEW p \in Nat, NEW q \in Nat, p <= q, q <= Len(F)
  PROVE  /\ SubSeq(F, p + 1, q) \in Seq(S)
         /\ Len(SubSeq(F, p + 1, q)) = q - p
         /\ \A j \in 1..q - p : SubSeq(F, p + 1, q)[j] = F[p + j]
<1>1. p + 1 \in 1..Len(F) + 1 /\ q \in p..Len(F)
  OBVIOUS
<1> QED
  BY <1>1, SubSeqProperties

\* Reading the first of it.
LEMMA WindowRead ==
  ASSUME NEW S, NEW F \in Seq(S), NEW t \in Seq(S),
         NEW p \in Nat, NEW q \in Nat, p < q, q <= Len(F)
  PROVE  LET r == SubSeq(F, p + 1, q) \o t
         IN /\ r # <<>> /\ Head(r) = F[p + 1]
            /\ Tail(r) = SubSeq(F, (p + 1) + 1, q) \o t
            /\ p + 1 \in 1..Len(F) /\ F[p + 1] \in S
<1> DEFINE w == SubSeq(F, p + 1, q)
           v == SubSeq(F, (p + 1) + 1, q)
<1>1. w \in Seq(S) /\ Len(w) = q - p /\ \A j \in 1..q - p : w[j] = F[p + j]
  BY WindowElements
<1>2. v \in Seq(S) /\ Len(v) = q - (p + 1) /\ \A j \in 1..q - (p + 1) : v[j] = F[(p + 1) + j]
  BY WindowElements
<1> HIDE DEF w, v
<1>3. p + 1 \in 1..Len(F) /\ F[p + 1] \in S
  OBVIOUS
<1>4. /\ w \o t \in Seq(S) /\ Len(w \o t) = Len(w) + Len(t)
      /\ \A i \in 1..Len(w) + Len(t) :
           (w \o t)[i] = IF i <= Len(w) THEN w[i] ELSE t[i - Len(w)]
  BY <1>1, ConcatProperties
<1>5. /\ v \o t \in Seq(S) /\ Len(v \o t) = Len(v) + Len(t)
      /\ \A i \in 1..Len(v) + Len(t) :
           (v \o t)[i] = IF i <= Len(v) THEN v[i] ELSE t[i - Len(v)]
  BY <1>2, ConcatProperties
<1> DEFINE r == w \o t
<1> HIDE DEF r
<1>6. Len(w) >= 1 /\ Len(w) = Len(v) + 1 /\ Len(t) \in Nat /\ Len(v) \in Nat
  BY <1>1, <1>2
<1>7. r # <<>> /\ Head(r) = F[p + 1]
  <2>1. r \in Seq(S) /\ Len(r) >= 1 /\ r[1] = w[1] /\ w[1] = F[p + 1]
    BY <1>1, <1>4, <1>6 DEF r
  <2> QED
    BY <2>1
<1>8. /\ Tail(r) \in Seq(S) /\ Len(Tail(r)) = Len(v) + Len(t)
      /\ \A i \in 1..Len(v) + Len(t) : Tail(r)[i] = r[i + 1]
  <2>1. r \in Seq(S) /\ r # <<>> /\ Len(r) = Len(w) + Len(t)
    BY <1>4, <1>7 DEF r
  <2> QED
    BY <2>1, <1>6, HeadTailProperties
<1>9. ASSUME NEW i \in 1..Len(v) + Len(t) PROVE Tail(r)[i] = (v \o t)[i]
  <2>1. Tail(r)[i] = (w \o t)[i + 1] /\ i + 1 \in 1..Len(w) + Len(t)
    BY <1>6, <1>8 DEF r
  <2>2. CASE i <= Len(v)
    <3>1. i + 1 <= Len(w) /\ i \in 1..q - (p + 1) /\ i + 1 \in 1..q - p
          /\ p + (i + 1) = (p + 1) + i
      BY <1>1, <1>2, <1>6, <2>2
    <3>2. w[i + 1] = F[p + (i + 1)] /\ v[i] = F[(p + 1) + i]
      BY <1>1, <1>2, <3>1
    <3> QED
      BY <1>4, <1>5, <2>1, <2>2, <3>1, <3>2
  <2>3. CASE i > Len(v)
    <3>1. i + 1 > Len(w) /\ (i + 1) - Len(w) = i - Len(v)
      BY <1>6, <2>3
    <3>2. ~(i + 1 <= Len(w)) /\ ~(i <= Len(v))
      BY <1>6, <2>3
    <3>3. (w \o t)[i + 1] = t[(i + 1) - Len(w)]
      BY <1>4, <2>1, <3>2, Zenon
    <3>4. (v \o t)[i] = t[i - Len(v)]
      BY <1>5, <3>2, Zenon
    <3> QED
      BY <2>1, <3>1, <3>3, <3>4, Zenon
  <2>4. i <= Len(v) \/ i > Len(v)
    BY <1>6
  <2> QED
    BY <2>2, <2>3, <2>4, Zenon
<1>10. Tail(r) = v \o t
  BY <1>5, <1>8, <1>9, SeqEqual
<1> QED
  BY <1>3, <1>7, <1>10 DEF r, w, v

\* The server goes on.
LEMMA WindowGrows ==
  ASSUME NEW S, NEW F \in Seq(S), NEW p \in Nat, NEW q \in Nat, NEW r \in Nat,
         p <= q, q <= r, r <= Len(F)
  PROVE  SubSeq(F, p + 1, q) \o SubSeq(F, q + 1, r) = SubSeq(F, p + 1, r)
<1> DEFINE u == SubSeq(F, p + 1, q)
           v == SubSeq(F, q + 1, r)
           w == SubSeq(F, p + 1, r)
<1>1. u \in Seq(S) /\ Len(u) = q - p /\ \A j \in 1..q - p : u[j] = F[p + j]
  BY WindowElements
<1>2. v \in Seq(S) /\ Len(v) = r - q /\ \A j \in 1..r - q : v[j] = F[q + j]
  BY WindowElements
<1>3. w \in Seq(S) /\ Len(w) = r - p /\ \A j \in 1..r - p : w[j] = F[p + j]
  BY WindowElements
<1> HIDE DEF u, v, w
<1>4. /\ u \o v \in Seq(S) /\ Len(u \o v) = Len(u) + Len(v)
      /\ \A i \in 1..Len(u) + Len(v) :
           (u \o v)[i] = IF i <= Len(u) THEN u[i] ELSE v[i - Len(u)]
  BY <1>1, <1>2, ConcatProperties
<1>a. Len(u) + Len(v) = r - p
  BY <1>1, <1>2
<1>5. ASSUME NEW i \in 1..r - p PROVE (u \o v)[i] = w[i]
  <2>0. i \in 1..Len(u) + Len(v) /\ w[i] = F[p + i]
    BY <1>a, <1>3
  <2>1. CASE i <= q - p
    <3>1. i \in 1..q - p
      BY <2>1
    <3> QED
      BY <1>1, <1>4, <2>0, <2>1, <3>1
  <2>2. CASE i > q - p
    <3>1. i - (q - p) \in 1..r - q /\ q + (i - (q - p)) = p + i
      BY <2>2
    <3> QED
      BY <1>1, <1>2, <1>4, <2>0, <2>2, <3>1
  <2>3. i <= q - p \/ i > q - p
    OBVIOUS
  <2> QED
    BY <2>1, <2>2, <2>3, Zenon
<1> QED
  <2>1. u \o v = w
    BY <1>3, <1>4, <1>a, <1>5, SeqEqual
  <2> QED
    BY <2>1 DEF u, v, w

-----------------------------------------------------------------------------
(* The statements of a call and what they answer.                          *)

\* Somebody has made a call.
Called == MaxRows \in Nat /\ MaxTexts \in Nat \ {0} /\ op \in Ops /\ sql \in Texts(op)

LEMMA Msgs ==
  /\ \A t, i, n : Msg(t, i, n).type = t /\ Msg(t, i, n).of = i /\ Msg(t, i, n).n = n
  /\ \A t \in Types : \A i, n \in Nat : Msg(t, i, n) \in Message
  /\ \A t : Just(t) = <<Msg(t, 0, 0)>>
BY DEF Msg, Just, Message

LEMMA FunctionSeq ==
  ASSUME NEW S, NEW n \in Nat, NEW f \in [1..n -> S]
  PROVE  f \in Seq(S) /\ Len(f) = n /\ DOMAIN f = 1..n
OBVIOUS

LEMMA Called1 ==
  ASSUME Called
  PROVE  /\ sql \in Seq(Statement) /\ Len(sql) \in Nat /\ Len(sql) >= 1
         /\ DOMAIN sql = 1..Len(sql)
         /\ op \notin Simple => Len(sql) = 1
<1>1. CASE op \in Simple
  <2>1. sql \in UNION {[1..n -> Statement] : n \in 1..MaxTexts}
    BY <1>1 DEF Called, Texts
  <2>2. PICK n \in 1..MaxTexts : sql \in [1..n -> Statement]
    BY <2>1
  <2>3. n \in Nat /\ n >= 1
    BY DEF Called
  <2>4. sql \in Seq(Statement) /\ Len(sql) = n
    BY <2>2, <2>3
  <2> QED
    BY <1>1, <2>2, <2>3, <2>4
<1>2. CASE op \notin Simple
  <2>1. sql \in [1..1 -> Statement]
    BY <1>2 DEF Called, Texts
  <2>2. sql \in Seq(Statement) /\ Len(sql) = 1 /\ DOMAIN sql = 1..1
    BY <2>1, FunctionSeq
  <2> QED
    BY <1>2, <2>2
<1> QED
  BY <1>1, <1>2

LEMMA StatementIs ==
  ASSUME MaxRows \in Nat, NEW s \in Statement
  PROVE  /\ s.kind \in {"select", "command", "empty", "copyIn", "copyOut"}
         /\ s.rows \in Nat
         /\ s.kind \in {"empty", "copyIn", "copyOut"} => s.rows = 1
BY DEF Statement

LEMMA RowsOfIs ==
  ASSUME NEW i \in Nat, NEW t \in Types, NEW n \in Nat
  PROVE  /\ RowsOf(i, t, n) \in Seq(Message) /\ Len(RowsOf(i, t, n)) = n
         /\ \A j \in 1..n : RowsOf(i, t, n)[j] = Msg(t, i, j)
<1>1. \A j \in 1..n : Msg(t, i, j) \in Message
  BY Msgs
<1>2. RowsOf(i, t, n) \in [1..n -> Message]
  BY <1>1, Zenon DEF RowsOf
<1>3. RowsOf(i, t, n) \in Seq(Message) /\ Len(RowsOf(i, t, n)) = n
  BY <1>2
<1> QED
  BY <1>3, Zenon DEF RowsOf

\* One more message after some.
LEMMA OneMore ==
  ASSUME NEW S, NEW s \in Seq(S), NEW m \in S
  PROVE  /\ s \o <<m>> \in Seq(S) /\ Len(s \o <<m>>) = Len(s) + 1
         /\ \A j \in 1..Len(s) : (s \o <<m>>)[j] = s[j]
         /\ (s \o <<m>>)[Len(s) + 1] = m
<1>1. <<m>> \in Seq(S) /\ Len(<<m>>) = 1 /\ <<m>>[1] = m
  OBVIOUS
<1>2. /\ s \o <<m>> \in Seq(S) /\ Len(s \o <<m>>) = Len(s) + 1
      /\ \A j \in 1..Len(s) + 1 :
           (s \o <<m>>)[j] = IF j <= Len(s) THEN s[j] ELSE <<m>>[j - Len(s)]
  BY <1>1, ConcatProperties
<1> QED
  BY <1>1, <1>2

LEMMA OneBefore ==
  ASSUME NEW S, NEW s \in Seq(S), NEW m \in S
  PROVE  /\ <<m>> \o s \in Seq(S) /\ Len(<<m>> \o s) = Len(s) + 1
         /\ (<<m>> \o s)[1] = m
         /\ \A j \in 1..Len(s) : (<<m>> \o s)[j + 1] = s[j]
<1>1. <<m>> \in Seq(S) /\ Len(<<m>>) = 1 /\ <<m>>[1] = m
  OBVIOUS
<1>2. /\ <<m>> \o s \in Seq(S) /\ Len(<<m>> \o s) = 1 + Len(s)
      /\ \A j \in 1..1 + Len(s) :
           (<<m>> \o s)[j] = IF j <= 1 THEN <<m>>[j] ELSE s[j - 1]
  BY <1>1, ConcatProperties
<1> QED
  BY <1>1, <1>2

\* What a statement answers.
LEMMA Selected ==
  ASSUME Called, NEW i \in DOMAIN sql, sql[i].kind = "select", NEW max \in Nat
  PROVE  LET m == IF max > 0 /\ sql[i].rows >= max THEN max ELSE sql[i].rows
             e == Executed(i, max)
         IN /\ m \in Nat /\ m <= sql[i].rows /\ (max > 0 => m <= max)
            /\ e \in Seq(Message) /\ Len(e) = m + 1
            /\ \A j \in 1..m : e[j] = Msg("DataRow", i, j)
            /\ e[m + 1] = IF max > 0 /\ sql[i].rows >= max THEN Msg("PortalSuspended", 0, 0)
                          ELSE Msg("CommandComplete", i, sql[i].rows)
<1>1. i \in Nat /\ sql[i] \in Statement
  BY Called1
<1>2. sql[i].rows \in Nat
  BY <1>1, StatementIs DEF Called
<1>3. CASE max > 0 /\ sql[i].rows >= max
  <2>1. Executed(i, max) = RowsOf(i, "DataRow", max) \o <<Msg("PortalSuspended", 0, 0)>>
    BY <1>3, Msgs, Zenon DEF Executed
  <2>2. Msg("PortalSuspended", 0, 0) \in Message
    BY Msgs DEF Types
  <2>3. /\ RowsOf(i, "DataRow", max) \in Seq(Message) /\ Len(RowsOf(i, "DataRow", max)) = max
        /\ \A j \in 1..max : RowsOf(i, "DataRow", max)[j] = Msg("DataRow", i, j)
    BY <1>1, RowsOfIs DEF Types
  <2> DEFINE r == RowsOf(i, "DataRow", max)
             z == Msg("PortalSuspended", 0, 0)
  <2> HIDE DEF r, z
  <2>4. /\ r \o <<z>> \in Seq(Message) /\ Len(r \o <<z>>) = Len(r) + 1
        /\ \A j \in 1..Len(r) : (r \o <<z>>)[j] = r[j]
        /\ (r \o <<z>>)[Len(r) + 1] = z
    BY <2>2, <2>3, OneMore DEF r, z
  <2> QED
    BY <1>2, <1>3, <2>1, <2>3, <2>4 DEF r, z
<1>4. CASE ~(max > 0 /\ sql[i].rows >= max)
  <2> DEFINE n == sql[i].rows
             r == RowsOf(i, "DataRow", n)
             z == Msg("CommandComplete", i, n)
  <2>1. Executed(i, max) = r \o <<z>>
    BY <1>4, Zenon DEF Executed
  <2>2. z \in Message
    BY <1>1, <1>2, Msgs DEF Types
  <2>3. /\ r \in Seq(Message) /\ Len(r) = n
        /\ \A j \in 1..n : r[j] = Msg("DataRow", i, j)
    <3>1. n \in Nat /\ "DataRow" \in Types
      BY <1>2 DEF Types
    <3> HIDE DEF n
    <3> QED
      BY <1>1, <3>1, RowsOfIs
  <2>4. /\ r \o <<z>> \in Seq(Message) /\ Len(r \o <<z>>) = Len(r) + 1
        /\ \A j \in 1..Len(r) : (r \o <<z>>)[j] = r[j]
        /\ (r \o <<z>>)[Len(r) + 1] = z
    <3> HIDE DEF r, z, n
    <3> QED
      BY <2>2, <2>3, OneMore
  <2> HIDE DEF r, z
  <2> QED
    BY <1>2, <1>4, <2>1, <2>3, <2>4 DEF z
<1> QED
  BY <1>3, <1>4

LEMMA Otherwise ==
  ASSUME Called, NEW i \in DOMAIN sql, NEW max
  PROVE  /\ sql[i].kind = "command" =>
              Executed(i, max) = <<Msg("CommandComplete", i, sql[i].rows)>>
         /\ sql[i].kind = "empty" => Executed(i, max) = <<Msg("EmptyQuery", 0, 0)>>
         /\ sql[i].kind = "copyIn" => Executed(i, max) = <<Msg("CopyInResponse", 0, 0)>>
BY Msgs, Zenon DEF Executed

LEMMA CopiedOut ==
  ASSUME Called, NEW i \in DOMAIN sql, sql[i].kind = "copyOut", NEW max
  PROVE  LET n == sql[i].rows
             e == Executed(i, max)
         IN /\ e \in Seq(Message) /\ Len(e) = n + 3 /\ n \in Nat
            /\ e[1] = Msg("CopyOutResponse", 0, 0)
            /\ \A j \in 1..n : e[j + 1] = Msg("CopyData", i, j)
            /\ e[n + 2] = Msg("CopyDone", 0, 0)
            /\ e[n + 3] = Msg("CommandComplete", i, n)
<1> DEFINE n == sql[i].rows
           r == RowsOf(i, "CopyData", n)
           a == Msg("CopyOutResponse", 0, 0)
           d == Msg("CopyDone", 0, 0)
           z == Msg("CommandComplete", i, n)
<1>1. i \in Nat /\ n \in Nat
  <2>1. i \in Nat /\ sql[i] \in Statement
    BY Called1
  <2> QED
    BY <2>1, StatementIs DEF Called
<1>2. Executed(i, max) = ((<<a>> \o r) \o <<d>>) \o <<z>>
  BY Msgs, Zenon DEF Executed
<1>3. a \in Message /\ d \in Message /\ z \in Message
  BY <1>1, Msgs DEF Types
<1>4. r \in Seq(Message) /\ Len(r) = n /\ \A j \in 1..n : r[j] = Msg("CopyData", i, j)
  <2>1. "CopyData" \in Types
    BY DEF Types
  <2> HIDE DEF n
  <2> QED
    BY <1>1, <2>1, RowsOfIs
<1> HIDE DEF r, a, d, z, n
<1> DEFINE s == <<a>> \o r
<1>5. /\ s \in Seq(Message) /\ Len(s) = n + 1 /\ s[1] = a
      /\ \A j \in 1..n : s[j + 1] = r[j]
  BY <1>3, <1>4, OneBefore
<1> HIDE DEF s
<1> DEFINE t == s \o <<d>>
<1>6. /\ t \in Seq(Message) /\ Len(t) = n + 2 /\ t[n + 2] = d
      /\ \A j \in 1..n + 1 : t[j] = s[j]
  <2>1. /\ t \in Seq(Message) /\ Len(t) = Len(s) + 1 /\ t[Len(s) + 1] = d
        /\ \A j \in 1..Len(s) : t[j] = s[j]
    BY <1>3, <1>5, OneMore
  <2>2. (n + 1) + 1 = n + 2
    BY <1>1
  <2> HIDE DEF t
  <2> QED
    BY <1>5, <2>1, <2>2
<1> HIDE DEF t
<1> DEFINE u == t \o <<z>>
<1>7. /\ u \in Seq(Message) /\ Len(u) = n + 3 /\ u[n + 3] = z
      /\ \A j \in 1..n + 2 : u[j] = t[j]
  <2>1. /\ u \in Seq(Message) /\ Len(u) = Len(t) + 1 /\ u[Len(t) + 1] = z
        /\ \A j \in 1..Len(t) : u[j] = t[j]
    BY <1>3, <1>6, OneMore
  <2>2. (n + 2) + 1 = n + 3
    BY <1>1
  <2> HIDE DEF u
  <2> QED
    BY <1>6, <2>1, <2>2
<1>8. u = Executed(i, max)
  BY <1>2 DEF s, t
<1> HIDE DEF u
<1>9. u[1] = a /\ u[n + 2] = d
  BY <1>1, <1>5, <1>6, <1>7
<1>10. ASSUME NEW j \in 1..n PROVE u[j + 1] = Msg("CopyData", i, j)
  <2>1. j + 1 \in 1..n + 1 /\ j + 1 \in 1..n + 2
    BY <1>1
  <2> QED
    BY <1>4, <1>5, <1>6, <1>7, <2>1
<1> QED
  BY <1>1, <1>7, <1>8, <1>9, <1>10 DEF a, d, z, n

\* Whatever it is, it answers something, and only a copy from the client waits.
LEMMA SomeAnswer ==
  ASSUME Called, NEW i \in DOMAIN sql, NEW max \in Nat
  PROVE  LET e == Executed(i, max)
         IN /\ e \in Seq(Message) /\ Len(e) >= 1
            /\ Copies(e) <=> sql[i].kind = "copyIn"
            /\ sql[i].kind = "copyIn" => e[1].type = "CopyInResponse"
            /\ sql[i].kind = "copyOut" => e[1].type = "CopyOutResponse"
<1>1. i \in Nat /\ sql[i] \in Statement
  BY Called1
<1>2. sql[i].rows \in Nat /\ sql[i].kind \in {"select", "command", "empty", "copyIn", "copyOut"}
  BY <1>1, StatementIs DEF Called
<1> DEFINE e == Executed(i, max)
<1> HIDE DEF e
<1>3. CASE sql[i].kind = "select"
  <2>1. PICK m \in Nat : /\ e \in Seq(Message) /\ Len(e) = m + 1
                         /\ e[m + 1] \in {Msg("PortalSuspended", 0, 0),
                                          Msg("CommandComplete", i, sql[i].rows)}
    BY <1>3, Selected, Zenon DEF e
  <2>2. e[m + 1].type \in {"PortalSuspended", "CommandComplete"}
    BY <2>1, Msgs
  <2> QED
    BY <1>3, <2>1, <2>2 DEF Copies, e
<1>4. CASE sql[i].kind = "command"
  <2> DEFINE z == Msg("CommandComplete", i, sql[i].rows)
  <2>1. e = <<z>> /\ z \in Message /\ z.type = "CommandComplete"
    BY <1>1, <1>2, <1>4, Otherwise, Msgs DEF e, Types
  <2> HIDE DEF z
  <2> QED
    BY <1>4, <2>1 DEF Copies, e
<1>5. CASE sql[i].kind = "empty"
  <2> DEFINE z == Msg("EmptyQuery", 0, 0)
  <2>1. e = <<z>> /\ z \in Message /\ z.type = "EmptyQuery"
    BY <1>5, Otherwise, Msgs DEF e, Types
  <2> HIDE DEF z
  <2> QED
    BY <1>5, <2>1 DEF Copies, e
<1>6. CASE sql[i].kind = "copyIn"
  <2> DEFINE z == Msg("CopyInResponse", 0, 0)
  <2>1. e = <<z>> /\ z \in Message /\ z.type = "CopyInResponse"
    BY <1>6, Otherwise, Msgs DEF e, Types
  <2> HIDE DEF z
  <2> QED
    BY <1>6, <2>1 DEF Copies, e
<1>7. CASE sql[i].kind = "copyOut"
  <2>1. /\ e \in Seq(Message) /\ Len(e) = sql[i].rows + 3
        /\ e[1].type = "CopyOutResponse"
        /\ e[sql[i].rows + 3].type = "CommandComplete"
    BY <1>7, CopiedOut, Msgs DEF e
  <2> QED
    BY <1>2, <1>7, <2>1 DEF Copies, e
<1> QED
  BY <1>2, <1>3, <1>4, <1>5, <1>6, <1>7 DEF e

-----------------------------------------------------------------------------
(* A text of the simple protocol.                                          *)

LEMMA ResultIs ==
  ASSUME Called, NEW i \in DOMAIN sql
  PROVE  LET r == Result(i)
             e == Executed(i, 0)
         IN /\ r \in Seq(Message) /\ Len(r) >= 1
            /\ Copies(r) <=> sql[i].kind = "copyIn"
            /\ sql[i].kind = "copyIn" => r[1].type = "CopyInResponse"
            /\ sql[i].kind = "copyOut" => r[1].type = "CopyOutResponse"
            /\ sql[i].kind # "select" => r = e
            /\ sql[i].kind = "select" =>
                 /\ Len(r) = sql[i].rows + 2
                 /\ r[1] = Msg("RowDescription", i, 0)
                 /\ \A j \in 1..sql[i].rows : r[j + 1] = Msg("DataRow", i, j)
                 /\ r[sql[i].rows + 2] = Msg("CommandComplete", i, sql[i].rows)
<1> DEFINE e == Executed(i, 0)
           d == Msg("RowDescription", i, 0)
           n == sql[i].rows
<1>1. /\ e \in Seq(Message) /\ Len(e) >= 1
      /\ Copies(e) <=> sql[i].kind = "copyIn"
      /\ sql[i].kind = "copyIn" => e[1].type = "CopyInResponse"
      /\ sql[i].kind = "copyOut" => e[1].type = "CopyOutResponse"
  BY SomeAnswer
<1>2. CASE sql[i].kind = "select"
  <2>1. Result(i) = <<d>> \o e
    BY <1>2, Zenon DEF Result, Description
  <2>2. i \in Nat /\ n \in Nat /\ d \in Message
    <3>1. i \in Nat /\ sql[i] \in Statement
      BY Called1
    <3>2. n \in Nat
      BY <3>1, StatementIs DEF Called
    <3> QED
      BY <3>1, <3>2, Msgs DEF Types
  <2>3. /\ Len(e) = n + 1
        /\ \A j \in 1..n : e[j] = Msg("DataRow", i, j)
        /\ e[n + 1] = Msg("CommandComplete", i, n)
    <3>1. ~(0 > 0) /\ 0 \in Nat
      OBVIOUS
    <3> QED
      BY <1>2, <3>1, Selected, Zenon
  <2> DEFINE r == <<d>> \o e
  <2> HIDE DEF e, d, n
  <2>4. /\ r \in Seq(Message) /\ Len(r) = Len(e) + 1 /\ r[1] = d
        /\ \A j \in 1..Len(e) : r[j + 1] = e[j]
    BY <1>1, <2>2, OneBefore
  <2> HIDE DEF r
  <2>5. /\ Len(r) = n + 2
        /\ \A j \in 1..n : r[j + 1] = Msg("DataRow", i, j)
        /\ r[n + 2] = Msg("CommandComplete", i, n)
    <3>1. \A j \in 1..n : j \in 1..Len(e)
      BY <2>2, <2>3
    <3>2. n + 1 \in 1..Len(e) /\ (n + 1) + 1 = n + 2
      BY <2>2, <2>3
    <3> QED
      BY <2>2, <2>3, <2>4, <3>1, <3>2
  <2>6. ~Copies(r)
    <3>1. r[Len(r)].type = "CommandComplete"
      BY <2>5, Msgs
    <3> QED
      BY <3>1 DEF Copies
  <2>7. Len(r) >= 1
    BY <2>2, <2>5
  <2>8. Result(i) = r
    BY <2>1 DEF r
  <2> QED
    BY <1>2, <2>4, <2>5, <2>6, <2>7, <2>8 DEF n, d
<1>3. CASE sql[i].kind # "select"
  <2>1. Result(i) = <<>> \o e
    BY <1>3, Zenon DEF Result
  <2> HIDE DEF e
  <2>2. <<>> \o e = e
    BY <1>1, ConcatEmptySeq
  <2> QED
    BY <1>1, <1>3, <2>1, <2>2 DEF e
<1> QED
  BY <1>2, <1>3

LEMMA LastIs ==
  ASSUME Called
  PROVE  Statements \in DOMAIN sql /\ RunsLast(Statements)
<1> DEFINE T == {m \in Nat : (\A j \in 1..m : j \in DOMAIN sql => sql[j].kind # "copyIn")
                             \/ \E n \in DOMAIN sql : RunsLast(n)}
<1>1. Len(sql) \in Nat /\ Len(sql) >= 1 /\ DOMAIN sql = 1..Len(sql)
  BY Called1
<1>2. 0 \in T
  OBVIOUS
<1>3. ASSUME NEW m \in Nat, m \in T PROVE m + 1 \in T
  <2>1. CASE \E n \in DOMAIN sql : RunsLast(n)
    BY <2>1
  <2>2. CASE /\ \A j \in 1..m : j \in DOMAIN sql => sql[j].kind # "copyIn"
             /\ m + 1 \in DOMAIN sql
             /\ sql[m + 1].kind = "copyIn"
    <3>1. RunsLast(m + 1)
      BY <1>1, <2>2 DEF RunsLast
    <3> QED
      BY <2>2, <3>1
  <2>3. CASE /\ \A j \in 1..m : j \in DOMAIN sql => sql[j].kind # "copyIn"
             /\ ~(m + 1 \in DOMAIN sql /\ sql[m + 1].kind = "copyIn")
    <3>1. \A j \in 1..m + 1 : j \in 1..m \/ j = m + 1
      OBVIOUS
    <3> QED
      BY <2>3, <3>1
  <2> QED
    BY <1>3, <2>1, <2>2, <2>3
<1>4. Len(sql) \in T
  <2> HIDE DEF T
  <2> QED
    BY <1>1, <1>2, <1>3, NatSetInduction
<1>5. \E n \in DOMAIN sql : RunsLast(n)
  <2>1. CASE \A j \in 1..Len(sql) : j \in DOMAIN sql => sql[j].kind # "copyIn"
    <3>1. RunsLast(Len(sql)) /\ Len(sql) \in DOMAIN sql
      BY <1>1, <2>1 DEF RunsLast
    <3> QED
      BY <3>1
  <2> QED
    BY <1>4, <2>1
<1> QED
  BY <1>5, Zenon DEF Statements

LEMMA ResultsAre ==
  ASSUME Called, NEW n \in Nat, n <= Len(sql)
  PROVE  Results(n) \in Seq(Seq(Message)) /\ Len(Results(n)) = n
<1>1. \A j \in 1..n : Result(j) \in Seq(Message)
  <2> TAKE j \in 1..n
  <2>1. j \in DOMAIN sql
    BY Called1
  <2> QED
    BY <2>1, ResultIs
<1>2. Results(n) \in [1..n -> Seq(Message)]
  BY <1>1, Zenon DEF Results
<1> QED
  BY <1>2, FunctionSeq

\* One statement more.
LEMMA ResultsGrow ==
  ASSUME Called, NEW i \in DOMAIN sql
  PROVE  LET s == FlattenSeq(Results(i - 1))
             t == FlattenSeq(Results(i))
         IN s \in Seq(Message) /\ t \in Seq(Message) /\ t = s \o Result(i)
<1>1. i - 1 \in Nat /\ i \in Nat /\ i - 1 <= Len(sql) /\ i <= Len(sql) /\ i = (i - 1) + 1
  BY Called1
<1>2. Result(i) \in Seq(Message)
  BY ResultIs
<1> DEFINE a == Results(i - 1)
           b == Results(i)
<1>3. a \in Seq(Seq(Message)) /\ Len(a) = i - 1 /\ b \in Seq(Seq(Message)) /\ Len(b) = i
  BY <1>1, ResultsAre
<1>4. b = Append(a, Result(i))
  <2>1. \A j \in 1..i - 1 : a[j] = Result(j)
    BY Zenon DEF Results
  <2>2. \A j \in 1..i : b[j] = Result(j)
    BY Zenon DEF Results
  <2> DEFINE c == Append(a, Result(i))
  <2> HIDE DEF a, b
  <2>3. /\ c \in Seq(Seq(Message)) /\ Len(c) = i
        /\ \A j \in 1..i - 1 : c[j] = a[j]
        /\ c[i] = Result(i)
    <3>1. /\ c \in Seq(Seq(Message)) /\ Len(c) = Len(a) + 1
          /\ \A j \in 1..Len(a) : c[j] = a[j]
          /\ c[Len(a) + 1] = Result(i)
      BY <1>2, <1>3, AppendProperties
    <3> HIDE DEF c
    <3> QED
      BY <1>1, <1>3, <3>1
  <2> HIDE DEF c
  <2>4. ASSUME NEW j \in 1..i PROVE c[j] = b[j]
    <3>1. j \in 1..i - 1 \/ j = i
      BY <1>1
    <3> QED
      BY <2>1, <2>2, <2>3, <3>1
  <2>5. c = b
    BY <1>1, <1>3, <2>3, <2>4, SeqEqual
  <2> QED
    BY <2>5 DEF c
<1> HIDE DEF a, b
<1>5. FlattenSeq(a) \in Seq(Message) /\ FlattenSeq(b) \in Seq(Message)
  BY <1>3, FlattenType
<1>6. FlattenSeq(b) = FlattenSeq(a) \o Result(i)
  BY <1>2, <1>3, <1>4, FlattenAppend
<1> QED
  BY <1>5, <1>6 DEF a, b

LEMMA StartGrows ==
  ASSUME Called, NEW i \in DOMAIN sql
  PROVE  /\ Start(i - 1) \in Nat /\ Start(i) \in Nat
         /\ Start(i) = Start(i - 1) + Len(Result(i))
         /\ \A j \in 1..Start(i - 1) :
              FlattenSeq(Results(i))[j] = FlattenSeq(Results(i - 1))[j]
         /\ \A k \in 1..Len(Result(i)) :
              FlattenSeq(Results(i))[Start(i - 1) + k] = Result(i)[k]
<1> DEFINE s == FlattenSeq(Results(i - 1))
           t == FlattenSeq(Results(i))
           r == Result(i)
<1>1. s \in Seq(Message) /\ t \in Seq(Message) /\ t = s \o r /\ r \in Seq(Message)
  BY ResultsGrow, ResultIs
<1>2. Start(i - 1) = Len(s) /\ Start(i) = Len(t)
  BY DEF Start
<1> HIDE DEF s, t, r
<1>3. /\ Len(t) = Len(s) + Len(r)
      /\ \A j \in 1..Len(s) + Len(r) : t[j] = IF j <= Len(s) THEN s[j] ELSE r[j - Len(s)]
  BY <1>1, ConcatProperties
<1>4. Len(s) \in Nat /\ Len(t) \in Nat /\ Len(r) \in Nat
  BY <1>1
<1>5. \A j \in 1..Len(s) : t[j] = s[j]
  BY <1>3, <1>4
<1>6. ASSUME NEW k \in 1..Len(r) PROVE t[Len(s) + k] = r[k]
  <2>1. Len(s) + k \in 1..Len(s) + Len(r) /\ ~(Len(s) + k <= Len(s))
        /\ (Len(s) + k) - Len(s) = k
    BY <1>4
  <2> QED
    BY <1>3, <2>1
<1> QED
  BY <1>2, <1>3, <1>4, <1>5, <1>6 DEF s, t, r

\* The answer to the first i goes on in that to the first n.
LEMMA StartOf ==
  ASSUME Called, NEW i \in Nat, NEW n \in Nat, i <= n, n <= Len(sql)
  PROVE  /\ Start(i) \in Nat /\ Start(n) \in Nat /\ Start(i) <= Start(n)
         /\ \A j \in 1..Start(i) : FlattenSeq(Results(n))[j] = FlattenSeq(Results(i))[j]
<1> DEFINE So(m) ==
             /\ Start(i) <= Start(m)
             /\ \A j \in 1..Start(i) : FlattenSeq(Results(m))[j] = FlattenSeq(Results(i))[j]
           T == {m \in Nat : i <= m /\ m <= Len(sql) => So(m)}
<1>1. \A m \in Nat : m <= Len(sql) => Start(m) \in Nat
  <2> TAKE m \in Nat
  <2> SUFFICES ASSUME m <= Len(sql) PROVE Start(m) \in Nat
    OBVIOUS
  <2>1. Results(m) \in Seq(Seq(Message))
    BY ResultsAre
  <2>2. FlattenSeq(Results(m)) \in Seq(Message)
    BY <2>1, FlattenType
  <2> QED
    BY <2>2 DEF Start
<1>2. Len(sql) \in Nat /\ DOMAIN sql = 1..Len(sql)
  BY Called1
<1>3. i <= Len(sql)
  BY <1>2
<1>4. So(i)
  BY <1>1, <1>3
<1>5. 0 \in T
  <2>1. i <= 0 => i = 0
    OBVIOUS
  <2> HIDE DEF So
  <2> QED
    BY <1>4, <2>1
<1>6. ASSUME NEW m \in Nat, m \in T PROVE m + 1 \in T
  <2> SUFFICES ASSUME i <= m + 1, m + 1 <= Len(sql) PROVE So(m + 1)
    <3> HIDE DEF So
    <3> QED
      OBVIOUS
  <2>1. CASE i = m + 1
    BY <1>4, <2>1
  <2>2. CASE i <= m
    <3>1. So(m)
      <4>1. m <= Len(sql)
        BY <1>2
      <4> HIDE DEF So
      <4> QED
        BY <1>6, <2>2, <4>1
    <3>2. m + 1 \in DOMAIN sql /\ (m + 1) - 1 = m
      BY <1>2
    <3>3. /\ Start(m) \in Nat /\ Start(m + 1) = Start(m) + Len(Result(m + 1))
          /\ \A j \in 1..Start(m) :
               FlattenSeq(Results(m + 1))[j] = FlattenSeq(Results(m))[j]
      BY <3>2, StartGrows
    <3>4. Len(Result(m + 1)) \in Nat
      BY <3>2, ResultIs
    <3>5. Start(i) \in Nat
      BY <1>1, <1>3
    <3>6. \A j \in 1..Start(i) : j \in 1..Start(m)
      BY <3>1, <3>3, <3>5
    <3>7. Start(i) <= Start(m + 1)
      BY <3>1, <3>3, <3>4, <3>5
    <3> QED
      BY <3>1, <3>3, <3>6, <3>7
  <2> QED
    BY <2>1, <2>2
<1>7. n \in T
  <2> HIDE DEF T
  <2> QED
    BY <1>5, <1>6, NatSetInduction
<1>8. So(n)
  BY <1>7
<1> QED
  BY <1>1, <1>3, <1>8

\* Where the k-th message of the i-th statement is.
LEMMA RanAt ==
  ASSUME Called, NEW i \in 1..Statements, NEW k \in 1..Len(Result(i))
  PROVE  /\ Start(i - 1) + k \in 1..Len(Ran) /\ Ran[Start(i - 1) + k] = Result(i)[k]
<1>1. /\ Statements \in 1..Len(sql) /\ Len(sql) \in Nat /\ DOMAIN sql = 1..Len(sql)
  BY LastIs, Called1
<1>2. i \in DOMAIN sql /\ i \in Nat /\ Statements \in Nat /\ i <= Statements
      /\ Statements <= Len(sql)
  BY <1>1
<1>3. Ran = FlattenSeq(Results(Statements)) /\ Len(Ran) = Start(Statements)
  BY DEF Ran, Results, Statements, Start
<1>4. /\ Start(i - 1) \in Nat /\ Start(i) = Start(i - 1) + Len(Result(i))
      /\ FlattenSeq(Results(i))[Start(i - 1) + k] = Result(i)[k]
  BY <1>2, StartGrows
<1>5. /\ Start(i) \in Nat /\ Start(Statements) \in Nat /\ Start(i) <= Start(Statements)
      /\ \A j \in 1..Start(i) :
           FlattenSeq(Results(Statements))[j] = FlattenSeq(Results(i))[j]
  BY <1>2, StartOf
<1>6. Len(Result(i)) \in Nat
  BY <1>2, ResultIs
<1>7. Start(i - 1) + k \in 1..Start(i) /\ Start(i - 1) + k \in 1..Start(Statements)
  BY <1>4, <1>5, <1>6
<1> QED
  BY <1>3, <1>4, <1>5, <1>7

LEMMA RanIs ==
  ASSUME Called
  PROVE  /\ Statements \in DOMAIN sql /\ Statements \in Nat
         /\ Ran \in Seq(Message) /\ Len(Ran) >= 1 /\ Len(Ran) = Start(Statements)
         /\ Copies(Ran) <=> sql[Statements].kind = "copyIn"
<1>1. Statements \in DOMAIN sql /\ Statements \in Nat
  BY LastIs, Called1
<1> DEFINE n == Statements
<1>2. Ran = FlattenSeq(Results(n)) /\ Len(Ran) = Start(n)
  BY DEF Ran, Results, Statements, Start
<1>3. Ran \in Seq(Message)
  BY <1>1, <1>2, ResultsGrow
<1>4. /\ Result(n) \in Seq(Message) /\ Len(Result(n)) >= 1
      /\ Copies(Result(n)) <=> sql[n].kind = "copyIn"
  BY <1>1, ResultIs
<1>5. /\ Start(n - 1) \in Nat /\ Start(n) = Start(n - 1) + Len(Result(n))
  BY <1>1, StartGrows
<1>6. Len(Result(n)) \in 1..Len(Result(n)) /\ n \in 1..n
  BY <1>1, <1>4, Called1
<1>7. Ran[Start(n - 1) + Len(Result(n))] = Result(n)[Len(Result(n))]
  BY <1>6, RanAt
<1>8. Len(Ran) >= 1
  BY <1>2, <1>4, <1>5
<1>9. Copies(Ran) <=> Copies(Result(n))
  <2>1. Ran # <<>> /\ Result(n) # <<>>
    BY <1>4, <1>8
  <2>2. Ran[Len(Ran)] = Result(n)[Len(Result(n))]
    BY <1>2, <1>5, <1>7
  <2> QED
    BY <2>1, <2>2, Zenon DEF Copies
<1> QED
  BY <1>1, <1>2, <1>3, <1>4, <1>8, <1>9

\* Every message of it is some statement's.
LEMMA RanFrom ==
  ASSUME Called, NEW j \in 1..Len(Ran)
  PROVE  \E i \in 1..Statements : \E k \in 1..Len(Result(i)) : j = Start(i - 1) + k
<1> DEFINE So == \E i \in 1..Statements : \E k \in 1..Len(Result(i)) : j = Start(i - 1) + k
           T == {m \in Nat : m <= Statements /\ j <= Start(m) => So}
<1>1. /\ Statements \in Nat /\ DOMAIN sql = 1..Len(sql) /\ Len(sql) \in Nat
      /\ Statements <= Len(sql) /\ Len(Ran) = Start(Statements) /\ Len(Ran) \in Nat
  BY RanIs, Called1
<1>2. 0 \in T
  <2>1. Results(0) = <<>>
    BY DEF Results
  <2>2. Start(0) = 0
    BY <2>1, FlattenEmpty DEF Start
  <2>3. ~(j <= 0)
    BY <1>1
  <2> QED
    BY <2>2, <2>3
<1>3. ASSUME NEW m \in Nat, m \in T PROVE m + 1 \in T
  <2> SUFFICES ASSUME m + 1 <= Statements, j <= Start(m + 1) PROVE So
    <3> HIDE DEF So
    <3> QED
      OBVIOUS
  <2>1. m + 1 \in DOMAIN sql /\ (m + 1) - 1 = m /\ m + 1 \in 1..Statements /\ m <= Statements
    BY <1>1
  <2>2. Start(m) \in Nat /\ Start(m + 1) = Start(m) + Len(Result(m + 1))
    BY <2>1, StartGrows
  <2>3. Len(Result(m + 1)) \in Nat
    BY <2>1, ResultIs
  <2>4. CASE j <= Start(m)
    <3> HIDE DEF So
    <3> QED
      BY <1>3, <2>1, <2>4 DEF So
  <2>5. CASE j > Start(m)
    <3>1. j - Start(m) \in 1..Len(Result(m + 1)) /\ j = Start((m + 1) - 1) + (j - Start(m))
      BY <1>1, <2>1, <2>2, <2>3, <2>5
    <3> QED
      BY <2>1, <3>1, Zenon
  <2> QED
    BY <1>1, <2>2, <2>4, <2>5
<1>4. Statements \in T
  <2> HIDE DEF T
  <2> QED
    BY <1>1, <1>2, <1>3, NatSetInduction
<1> QED
  BY <1>1, <1>4

-----------------------------------------------------------------------------
(* The whole answer.                                                       *)

Described == Typed \cup {"execute_typed"}
Bound == (RowOps \ Typed) \cup {"execute", "copy_out", "copy_in"}

LEMMA OpIs ==
  ASSUME Called
  PROVE  op \in Simple \cup Described \cup Bound \cup {"prepare", "bind", "query_portal", "sync"}
BY DEF Called, Ops, Described, Bound

LEMMA Asked ==
  /\ \A o \in Bound : Request(o) = <<"Bind", "Execute", "Sync">>
  /\ \A o \in Described : Request(o) = <<"Parse", "Bind", "Describe", "Execute", "Sync">>
  /\ \A o \in Simple : Request(o) = <<"Query">>
  /\ Request("prepare") = <<"Parse", "Describe", "Sync">>
  /\ Request("bind") = <<"Bind", "Sync">>
  /\ Request("query_portal") = <<"Execute", "Sync">>
  /\ Request("sync") = <<"Sync">>
<1>1. \A o \in Bound : Request(o) = <<"Bind", "Execute", "Sync">>
  <2> TAKE o \in Bound
  <2>1. o \notin Simple /\ o \notin Typed \cup {"execute_typed"}
        /\ o \notin {"prepare", "bind", "query_portal", "sync"}
    BY DEF Bound, RowOps, Simple, Typed, One, Opt, Scalar
  <2> QED
    BY <2>1 DEF Request
<1>2. \A o \in Described : Request(o) = <<"Parse", "Bind", "Describe", "Execute", "Sync">>
  BY DEF Request, Described, Simple, Typed
<1>3. \A o \in Simple : Request(o) = <<"Query">>
  BY DEF Request, Simple, Typed
<1>4. /\ Request("prepare") = <<"Parse", "Describe", "Sync">>
      /\ Request("bind") = <<"Bind", "Sync">>
      /\ Request("query_portal") = <<"Execute", "Sync">>
      /\ Request("sync") = <<"Sync">>
  BY DEF Request, Simple, Typed
<1> QED
  BY <1>1, <1>2, <1>3, <1>4

LEMMA DescriptionIs ==
  ASSUME Called
  PROVE  \E d \in Message : /\ Description(1) = <<d>>
                            /\ d.type = IF sql[1].kind = "select" THEN "RowDescription" ELSE "NoData"
<1>1. CASE sql[1].kind = "select"
  <2>1. Description(1) = <<Msg("RowDescription", 1, 0)>>
    BY <1>1 DEF Description
  <2>2. Msg("RowDescription", 1, 0) \in Message /\ Msg("RowDescription", 1, 0).type = "RowDescription"
    BY Msgs DEF Types
  <2> QED
    BY <1>1, <2>1, <2>2
<1>2. CASE sql[1].kind # "select"
  <2>1. Description(1) = <<Msg("NoData", 0, 0)>>
    BY <1>2 DEF Description, Just
  <2>2. Msg("NoData", 0, 0) \in Message /\ Msg("NoData", 0, 0).type = "NoData"
    BY Msgs DEF Types
  <2> QED
    BY <1>2, <2>1, <2>2
<1> QED
  BY <1>1, <1>2

\* Joining tuples.
LEMMA JoinTwo == \A a, b : <<a>> \o <<b>> = <<a, b>>
<1> TAKE a, b
<1> DEFINE S == {a, b}
           s == <<a>>
           t == <<b>>
           u == <<a, b>>
<1>1. /\ s \in Seq(S) /\ Len(s) = 1 /\ s[1] = a /\ t \in Seq(S) /\ Len(t) = 1 /\ t[1] = b
      /\ u \in Seq(S) /\ Len(u) = 2 /\ u[1] = a /\ u[2] = b
  OBVIOUS
<1> HIDE DEF S, s, t, u
<1>2. /\ s \o t \in Seq(S) /\ Len(s \o t) = Len(s) + Len(t)
      /\ \A j \in 1..Len(s) + Len(t) : (s \o t)[j] = IF j <= Len(s) THEN s[j] ELSE t[j - Len(s)]
  BY <1>1, ConcatProperties
<1>3. \A j \in 1..2 : (s \o t)[j] = u[j]
  BY <1>1, <1>2
<1>4. s \o t = u
  BY <1>1, <1>2, <1>3, SeqEqual
<1> QED
  BY <1>4 DEF s, t, u

LEMMA JoinThree == \A a, b, c : <<a>> \o <<b, c>> = <<a, b, c>>
<1> TAKE a, b, c
<1> DEFINE S == {a, b, c}
           s == <<a>>
           t == <<b, c>>
           u == <<a, b, c>>
<1>1. /\ s \in Seq(S) /\ Len(s) = 1 /\ s[1] = a
      /\ t \in Seq(S) /\ Len(t) = 2 /\ t[1] = b /\ t[2] = c
      /\ u \in Seq(S) /\ Len(u) = 3 /\ u[1] = a /\ u[2] = b /\ u[3] = c
  OBVIOUS
<1> HIDE DEF S, s, t, u
<1>2. /\ s \o t \in Seq(S) /\ Len(s \o t) = Len(s) + Len(t)
      /\ \A j \in 1..Len(s) + Len(t) : (s \o t)[j] = IF j <= Len(s) THEN s[j] ELSE t[j - Len(s)]
  BY <1>1, ConcatProperties
<1>3. \A j \in 1..3 : (s \o t)[j] = u[j]
  BY <1>1, <1>2
<1>4. s \o t = u
  BY <1>1, <1>2, <1>3, SeqEqual
<1> QED
  BY <1>4 DEF s, t, u

LEMMA JoinFour == \A a, b, c, d : <<a, b>> \o <<c, d>> = <<a, b, c, d>>
<1> TAKE a, b, c, d
<1> DEFINE S == {a, b, c, d}
           s == <<a, b>>
           t == <<c, d>>
           u == <<a, b, c, d>>
<1>1. /\ s \in Seq(S) /\ Len(s) = 2 /\ s[1] = a /\ s[2] = b
      /\ t \in Seq(S) /\ Len(t) = 2 /\ t[1] = c /\ t[2] = d
      /\ u \in Seq(S) /\ Len(u) = 4 /\ u[1] = a /\ u[2] = b /\ u[3] = c /\ u[4] = d
  OBVIOUS
<1> HIDE DEF S, s, t, u
<1>2. /\ s \o t \in Seq(S) /\ Len(s \o t) = Len(s) + Len(t)
      /\ \A j \in 1..Len(s) + Len(t) : (s \o t)[j] = IF j <= Len(s) THEN s[j] ELSE t[j - Len(s)]
  BY <1>1, ConcatProperties
<1>3. \A j \in 1..4 : (s \o t)[j] = u[j]
  BY <1>1, <1>2
<1>4. s \o t = u
  BY <1>1, <1>2, <1>3, SeqEqual
<1> QED
  BY <1>4 DEF s, t, u

LEMMA BeforeIs ==
  ASSUME Called
  PROVE  /\ op \in Bound \cup {"bind"} => Before = <<Msg("BindComplete", 0, 0)>>
         /\ op \in Described =>
              \E d \in Message :
                 /\ Before = <<Msg("ParseComplete", 0, 0), Msg("BindComplete", 0, 0),
                               Msg("ParameterDescription", 0, 0), d>>
                 /\ d.type \in {"RowDescription", "NoData"}
                 /\ Description(1) = <<d>>
         /\ op = "prepare" =>
              \E d \in Message :
                 /\ Before = <<Msg("ParseComplete", 0, 0), Msg("ParameterDescription", 0, 0), d>>
                 /\ d.type \in {"RowDescription", "NoData"}
                 /\ Description(1) = <<d>>
         /\ op \in Simple \cup {"query_portal", "sync"} => Before = <<>>
<1>1. ASSUME op \in Bound \cup {"bind"} PROVE Before = <<Msg("BindComplete", 0, 0)>>
  <2>1. op \notin Simple /\ op \notin Typed \cup {"execute_typed"}
        /\ op \notin {"prepare", "query_portal", "sync"}
    BY <1>1 DEF Bound, RowOps, Simple, Typed, One, Opt, Scalar
  <2> QED
    BY <2>1, Msgs DEF Before
<1>2. PICK d \in Message :
        /\ Description(1) = <<d>>
        /\ d.type = IF sql[1].kind = "select" THEN "RowDescription" ELSE "NoData"
  BY DescriptionIs
<1>3. ASSUME op \in Described
      PROVE  Before = <<Msg("ParseComplete", 0, 0), Msg("BindComplete", 0, 0),
                        Msg("ParameterDescription", 0, 0), d>>
  <2>1. Before = Just("ParseComplete") \o Just("BindComplete")
                   \o (Just("ParameterDescription") \o Description(1))
    BY <1>3 DEF Before, Described, Simple, Typed
  <2> DEFINE a == Msg("ParseComplete", 0, 0)
             b == Msg("BindComplete", 0, 0)
             c == Msg("ParameterDescription", 0, 0)
  <2>2. Before = (<<a>> \o <<b>>) \o (<<c>> \o <<d>>)
    BY <1>2, <2>1 DEF Just
  <2> HIDE DEF a, b, c
  <2>3. <<a>> \o <<b>> = <<a, b>> /\ <<c>> \o <<d>> = <<c, d>>
        /\ <<a, b>> \o <<c, d>> = <<a, b, c, d>>
    BY JoinTwo, JoinFour, Zenon
  <2>4. Before = <<a, b, c, d>>
    BY <2>2, <2>3, Zenon
  <2> QED
    BY <2>4 DEF a, b, c
<1>4. ASSUME op = "prepare"
      PROVE  Before = <<Msg("ParseComplete", 0, 0), Msg("ParameterDescription", 0, 0), d>>
  <2>1. Before = Just("ParseComplete") \o (Just("ParameterDescription") \o Description(1))
    <3>1. op \notin Typed \cup {"execute_typed"} /\ op \notin Simple /\ op = "prepare"
      BY <1>4 DEF Typed, Simple
    <3> QED
      BY <3>1 DEF Before
  <2> QED
    BY <1>2, <2>1, JoinTwo, JoinThree, Zenon DEF Just
<1>5. op \in Simple \cup {"query_portal", "sync"} => Before = <<>>
  BY DEF Before, Simple, Typed
<1> QED
  BY <1>1, <1>2, <1>3, <1>4, <1>5

LEMMA BodyIs ==
  ASSUME Called
  PROVE  /\ op \in Bound \cup Described \cup {"query_portal"} => Body = Executed(1, RowLimit)
         /\ op \in {"prepare", "bind", "sync"} => Body = <<>>
         /\ op \in Simple => Body = Ran
         /\ RowLimit \in {0, 1} /\ (op # "query_portal" => RowLimit = 0)
         /\ Body \in Seq(Message)
<1>1. ASSUME op \in Bound \cup Described \cup {"query_portal"} PROVE Body = Executed(1, RowLimit)
  <2>1. op \notin Simple /\ op \notin {"prepare", "bind", "sync"}
    BY <1>1 DEF Bound, Described, RowOps, Simple, Typed, One, Opt, Scalar
  <2> QED
    BY <2>1 DEF Body
<1>2. op \in {"prepare", "bind", "sync"} => Body = <<>>
  BY DEF Body, Simple
<1>3. op \in Simple => Body = Ran
  BY DEF Body, Simple
<1>4. RowLimit \in {0, 1} /\ (op # "query_portal" => RowLimit = 0)
  BY DEF RowLimit, PortalRows
<1>5. Body \in Seq(Message)
  <2>1. CASE op \in Bound \cup Described \cup {"query_portal"}
    <3>1. 1 \in DOMAIN sql /\ RowLimit \in Nat
      BY <1>4, Called1
    <3> QED
      BY <1>1, <2>1, <3>1, SomeAnswer
  <2>2. CASE op \in {"prepare", "bind", "sync"}
    BY <1>2, <2>2, EmptySeq
  <2>3. CASE op \in Simple
    BY <1>3, <2>3, RanIs
  <2> QED
    BY <2>1, <2>2, <2>3, OpIs
<1> QED
  BY <1>1, <1>2, <1>3, <1>4, <1>5

LEMMA WholeIs ==
  ASSUME Called
  PROVE  /\ Before \in Seq(Message) /\ Whole \in Seq(Message)
         /\ Len(Whole) = Len(Before) + Len(Body)
         /\ \A j \in 1..Len(Before) : Whole[j] = Before[j]
         /\ \A j \in 1..Len(Body) : Whole[Len(Before) + j] = Body[j]
<1>1. Before \in Seq(Message)
  <2> DEFINE a == Msg("ParseComplete", 0, 0)
             b == Msg("BindComplete", 0, 0)
             c == Msg("ParameterDescription", 0, 0)
  <2>1. a \in Message /\ b \in Message /\ c \in Message
    BY Msgs DEF Types
  <2> HIDE DEF a, b, c
  <2>2. CASE op \in Bound \cup {"bind"}
    <3>1. Before = <<b>>
      BY <2>2, BeforeIs DEF b
    <3> QED
      BY <2>1, <3>1
  <2>3. CASE op \in Described
    <3>1. PICK d \in Message : Before = <<a, b, c, d>>
      BY <2>3, BeforeIs DEF a, b, c
    <3> QED
      BY <2>1, <3>1
  <2>4. CASE op = "prepare"
    <3>1. PICK d \in Message : Before = <<a, c, d>>
      BY <2>4, BeforeIs DEF a, b, c
    <3> QED
      BY <2>1, <3>1
  <2>5. CASE op \in Simple \cup {"query_portal", "sync"}
    BY <2>5, BeforeIs, EmptySeq
  <2> QED
    BY <2>2, <2>3, <2>4, <2>5, OpIs
<1>2. Body \in Seq(Message)
  BY BodyIs
<1>3. Whole = Before \o Body
  BY DEF Whole
<1>4. /\ Whole \in Seq(Message) /\ Len(Whole) = Len(Before) + Len(Body)
      /\ \A j \in 1..Len(Before) + Len(Body) :
           Whole[j] = IF j <= Len(Before) THEN Before[j] ELSE Body[j - Len(Before)]
  BY <1>1, <1>2, <1>3, ConcatProperties
<1>5. Len(Before) \in Nat /\ Len(Body) \in Nat
  BY <1>1, <1>2
<1>6. ASSUME NEW j \in 1..Len(Body) PROVE Whole[Len(Before) + j] = Body[j]
  <2>1. Len(Before) + j \in 1..Len(Before) + Len(Body) /\ ~(Len(Before) + j <= Len(Before))
        /\ (Len(Before) + j) - Len(Before) = j
    BY <1>5
  <2> QED
    BY <1>4, <2>1
<1> QED
  BY <1>1, <1>4, <1>5, <1>6

\* Whether the answer ends in a copy from the client.
LEMMA WholeCopies ==
  ASSUME Called
  PROVE  /\ op \in Simple => (Copies(Whole) <=> Copies(Ran)) /\ Whole = Ran
         /\ op \in Bound \cup Described \cup {"query_portal"} =>
              (Copies(Whole) <=> sql[1].kind = "copyIn") /\ Len(Body) >= 1
         /\ op \in {"prepare", "bind", "sync"} => ~Copies(Whole)
<1>1. /\ Before \in Seq(Message) /\ Body \in Seq(Message) /\ Whole \in Seq(Message)
      /\ Len(Whole) = Len(Before) + Len(Body)
      /\ \A j \in 1..Len(Before) : Whole[j] = Before[j]
      /\ \A j \in 1..Len(Body) : Whole[Len(Before) + j] = Body[j]
  BY WholeIs, BodyIs
<1>2. Len(Before) \in Nat /\ Len(Body) \in Nat
  BY <1>1
<1>3. ASSUME op \in Simple PROVE (Copies(Whole) <=> Copies(Ran)) /\ Whole = Ran
  <2>1. Before = <<>> /\ Body = Ran
    BY <1>3, BeforeIs, BodyIs
  <2>2. Whole = Body
    BY <1>1, <2>1, ConcatEmptySeq DEF Whole
  <2> QED
    BY <2>1, <2>2
<1>4. ASSUME op \in Bound \cup Described \cup {"query_portal"}
      PROVE  (Copies(Whole) <=> sql[1].kind = "copyIn") /\ Len(Body) >= 1
  <2>1. Body = Executed(1, RowLimit) /\ RowLimit \in Nat /\ 1 \in DOMAIN sql
    BY <1>4, BodyIs, Called1
  <2>2. Len(Body) >= 1 /\ (Copies(Body) <=> sql[1].kind = "copyIn")
    BY <2>1, SomeAnswer
  <2>3. Len(Body) \in 1..Len(Body)
    BY <1>2, <2>2
  <2>4. Whole[Len(Whole)] = Body[Len(Body)]
    BY <1>1, <2>3
  <2>5. Whole # <<>> /\ Body # <<>>
    BY <1>1, <1>2, <2>2
  <2>6. Copies(Whole) <=> Copies(Body)
    BY <2>4, <2>5, Zenon DEF Copies
  <2> QED
    BY <2>2, <2>6
<1>5. ASSUME op \in {"prepare", "bind", "sync"} PROVE ~Copies(Whole)
  <2>1. Len(Body) = 0
    BY <1>5, BodyIs
  <2>2. CASE op = "sync"
    <3>1. Len(Before) = 0
      BY <2>2, BeforeIs
    <3>2. Whole = <<>>
      BY <1>1, <2>1, <3>1
    <3> QED
      BY <3>2 DEF Copies
  <2>3. CASE op = "bind"
    <3> DEFINE a == Msg("BindComplete", 0, 0)
    <3>1. Before = <<a>> /\ a.type = "BindComplete"
      BY <2>3, BeforeIs, Msgs
    <3> HIDE DEF a
    <3>2. Len(Before) = 1 /\ Before[1].type = "BindComplete"
      BY <3>1
    <3>3. Whole[Len(Whole)].type = "BindComplete"
      BY <1>1, <2>1, <3>2
    <3> QED
      BY <3>3 DEF Copies
  <2>4. CASE op = "prepare"
    <3> DEFINE a == Msg("ParseComplete", 0, 0)
               b == Msg("ParameterDescription", 0, 0)
    <3>1. PICK d \in Message : Before = <<a, b, d>> /\ d.type \in {"RowDescription", "NoData"}
      BY <2>4, BeforeIs
    <3> HIDE DEF a, b
    <3>2. Len(Before) = 3 /\ Before[3] = d
      BY <3>1
    <3>3. Whole[Len(Whole)].type \in {"RowDescription", "NoData"}
      BY <1>1, <2>1, <3>1, <3>2
    <3> QED
      BY <3>3 DEF Copies
  <2> QED
    BY <1>5, <2>2, <2>3, <2>4
<1> QED
  BY <1>3, <1>4, <1>5

\* A part of it, told by its messages.
LEMMA WindowIs ==
  ASSUME NEW S, NEW F \in Seq(S), NEW x \in Seq(S), NEW p \in Nat, NEW q \in Nat,
         q = p + Len(x), q <= Len(F), \A j \in 1..Len(x) : F[p + j] = x[j]
  PROVE  x = SubSeq(F, p + 1, q)
<1>1. p <= q /\ q - p = Len(x)
  OBVIOUS
<1>2. /\ SubSeq(F, p + 1, q) \in Seq(S) /\ Len(SubSeq(F, p + 1, q)) = q - p
      /\ \A j \in 1..q - p : SubSeq(F, p + 1, q)[j] = F[p + j]
  BY <1>1, WindowElements
<1> QED
  BY <1>1, <1>2, SeqEqual

LEMMA AnswerIs ==
  ASSUME Called
  PROVE  /\ Answer("Parse") = <<Msg("ParseComplete", 0, 0)>>
         /\ Answer("Bind") = <<Msg("BindComplete", 0, 0)>>
         /\ \A d : Description(1) = <<d>> =>
              Answer("Describe") = <<Msg("ParameterDescription", 0, 0), d>>
         /\ Answer("Execute") = Executed(1, RowLimit)
         /\ Answer("CopyDone") = <<Msg("CommandComplete", 1, sql[1].rows)>>
         /\ Answer("Query") = Ran
<1>1. Answer("Describe") = Just("ParameterDescription") \o Description(1)
  BY DEF Answer
<1>2. \A d : Description(1) = <<d>> =>
              Answer("Describe") = <<Msg("ParameterDescription", 0, 0), d>>
  BY <1>1, JoinTwo, Zenon DEF Just
<1>3. /\ Answer("Parse") = Just("ParseComplete")
      /\ Answer("Bind") = Just("BindComplete")
      /\ Answer("Execute") = Executed(1, RowLimit)
      /\ Answer("CopyDone") = <<Msg("CommandComplete", 1, sql[1].rows)>>
      /\ Answer("Query") = Ran
  BY DEF Answer, RowLimit
<1> QED
  BY <1>2, <1>3 DEF Just

\* What the server answers next is what comes next of the whole.
Answers1(n) ==
  LET m == Request(op)[n + 1]
  IN /\ m \in {"Parse", "Bind", "Describe", "Execute"}
     /\ Upto(n) \in Nat /\ Upto(n + 1) \in Nat
     /\ Upto(n) < Upto(n + 1) /\ Upto(n + 1) <= Len(Whole)
     /\ Answer(m) = SubSeq(Whole, Upto(n) + 1, Upto(n + 1))
     /\ Answer(m) \in Seq(Message) /\ Len(Answer(m)) = Upto(n + 1) - Upto(n)
     /\ Copies(Answer(m)) <=> (n + 1 = Len(Request(op)) - 1 /\ Copies(Whole))

LEMMA OneAnswer ==
  ASSUME NEW n \in Nat, NEW m, NEW a, NEW u \in Nat, NEW v \in Nat,
         Request(op)[n + 1] = m, m \in {"Parse", "Bind", "Describe", "Execute"},
         Answer(m) = a, a \in Seq(Message), a # <<>>, Whole \in Seq(Message),
         Upto(n) = u, Upto(n + 1) = v, v = u + Len(a), v <= Len(Whole),
         \A j \in 1..Len(a) : Whole[u + j] = a[j],
         Copies(a) <=> (n + 1 = Len(Request(op)) - 1 /\ Copies(Whole))
  PROVE  Answers1(n)
<1>1. a = SubSeq(Whole, u + 1, v)
  BY WindowIs
<1>2. u < v /\ Len(a) = v - u
  OBVIOUS
<1> QED
  BY <1>1, <1>2 DEF Answers1

LEMMA SingleAnswer ==
  ASSUME NEW n \in Nat, NEW m, NEW x \in Message, NEW u \in Nat,
         Request(op)[n + 1] = m, m \in {"Parse", "Bind", "Describe", "Execute"},
         Answer(m) = <<x>>, x.type # "CopyInResponse", Whole \in Seq(Message),
         Upto(n) = u, Upto(n + 1) = u + 1, u + 1 <= Len(Whole), Whole[u + 1] = x,
         n + 1 = Len(Request(op)) - 1 => ~Copies(Whole)
  PROVE  Answers1(n)
<1> DEFINE a == <<x>>
<1>1. a \in Seq(Message) /\ a # <<>> /\ Len(a) = 1 /\ a[1] = x
  OBVIOUS
<1>2. ~Copies(a)
  <2>1. a[Len(a)].type # "CopyInResponse"
    BY <1>1
  <2> HIDE DEF a
  <2> QED
    BY <2>1 DEF Copies
<1>3. Answer(m) = a
  OBVIOUS
<1> HIDE DEF a
<1>4. \A j \in 1..Len(a) : Whole[u + j] = a[j]
  BY <1>1
<1> DEFINE v == u + 1
<1>5. v = u + Len(a) /\ v \in Nat /\ v <= Len(Whole) /\ Upto(n + 1) = v
  BY <1>1
<1>6. Copies(a) <=> (n + 1 = Len(Request(op)) - 1 /\ Copies(Whole))
  BY <1>2
<1> HIDE DEF v
<1>7. /\ Request(op)[n + 1] = m /\ m \in {"Parse", "Bind", "Describe", "Execute"}
      /\ Whole \in Seq(Message) /\ Upto(n) = u
  OBVIOUS
<1>8. a = SubSeq(Whole, u + 1, v)
  BY <1>1, <1>4, <1>5, <1>7, WindowIs
<1>9. u < v /\ Len(a) = v - u
  BY <1>1, <1>5
<1> QED
  BY <1>1, <1>3, <1>5, <1>6, <1>7, <1>8, <1>9 DEF Answers1

LEMMA DoubleAnswer ==
  ASSUME NEW n \in Nat, NEW m, NEW x \in Message, NEW y \in Message, NEW u \in Nat,
         Request(op)[n + 1] = m, m \in {"Parse", "Bind", "Describe", "Execute"},
         Answer(m) = <<x, y>>, y.type # "CopyInResponse", Whole \in Seq(Message),
         Upto(n) = u, Upto(n + 1) = u + 2, u + 2 <= Len(Whole),
         Whole[u + 1] = x, Whole[u + 2] = y,
         n + 1 = Len(Request(op)) - 1 => ~Copies(Whole)
  PROVE  Answers1(n)
<1> DEFINE a == <<x, y>>
<1>1. a \in Seq(Message) /\ a # <<>> /\ Len(a) = 2 /\ a[1] = x /\ a[2] = y
  OBVIOUS
<1>2. ~Copies(a)
  <2>1. a[Len(a)].type # "CopyInResponse"
    BY <1>1
  <2> HIDE DEF a
  <2> QED
    BY <2>1 DEF Copies
<1>3. Answer(m) = a
  OBVIOUS
<1> HIDE DEF a
<1>4. \A j \in 1..Len(a) : Whole[u + j] = a[j]
  BY <1>1
<1> DEFINE v == u + 2
<1>5. v = u + Len(a) /\ v \in Nat /\ v <= Len(Whole) /\ Upto(n + 1) = v
  BY <1>1
<1>6. Copies(a) <=> (n + 1 = Len(Request(op)) - 1 /\ Copies(Whole))
  BY <1>2
<1> HIDE DEF v
<1>7. /\ Request(op)[n + 1] = m /\ m \in {"Parse", "Bind", "Describe", "Execute"}
      /\ Whole \in Seq(Message) /\ Upto(n) = u
  OBVIOUS
<1>8. a = SubSeq(Whole, u + 1, v)
  BY <1>1, <1>4, <1>5, <1>7, WindowIs
<1>9. u < v /\ Len(a) = v - u
  BY <1>1, <1>5
<1> QED
  BY <1>1, <1>3, <1>5, <1>6, <1>7, <1>8, <1>9 DEF Answers1

LEMMA Executing ==
  ASSUME Called, op \in Bound \cup Described \cup {"query_portal"},
         NEW n \in Nat, Request(op)[n + 1] = "Execute", Len(Request(op)) = n + 2,
         Upto(n) = Len(Before)
  PROVE  Answers1(n)
<1>1. /\ Body = Executed(1, RowLimit) /\ Body \in Seq(Message) /\ Len(Body) >= 1
      /\ Answer("Execute") = Body
  BY BodyIs, WholeCopies, AnswerIs
<1>2. /\ Before \in Seq(Message) /\ Whole \in Seq(Message)
      /\ Len(Whole) = Len(Before) + Len(Body)
      /\ \A j \in 1..Len(Body) : Whole[Len(Before) + j] = Body[j]
  BY WholeIs
<1>3. Upto(n + 1) = Len(Whole)
  <2>1. op \notin Simple
    BY DEF Bound, Described, RowOps, Simple, Typed, One, Opt, Scalar
  <2>2. n + 1 = Len(Request(op)) - 1
    OBVIOUS
  <2> QED
    BY <2>1, <2>2, Zenon DEF Upto
<1>4. Copies(Body) <=> (n + 1 = Len(Request(op)) - 1 /\ Copies(Whole))
  <2>1. 1 \in DOMAIN sql /\ RowLimit \in Nat
    BY Called1, BodyIs
  <2>2. Copies(Body) <=> sql[1].kind = "copyIn"
    BY <1>1, <2>1, SomeAnswer
  <2>3. Copies(Whole) <=> sql[1].kind = "copyIn"
    BY WholeCopies
  <2>4. n + 1 = Len(Request(op)) - 1
    OBVIOUS
  <2> QED
    BY <2>2, <2>3, <2>4
<1>5. Body # <<>> /\ Len(Before) \in Nat /\ Len(Whole) \in Nat /\ Len(Whole) <= Len(Whole)
  BY <1>1, <1>2
<1>6. "Execute" \in {"Parse", "Bind", "Describe", "Execute"}
  OBVIOUS
<1> QED
  BY <1>1, <1>2, <1>3, <1>4, <1>5, <1>6, OneAnswer, Zenon

LEMMA Answering ==
  ASSUME Called, op \notin Simple, NEW n \in Nat, n < Len(Request(op)) - 1
  PROVE  Answers1(n)
<1> DEFINE a == Msg("ParseComplete", 0, 0)
           b == Msg("BindComplete", 0, 0)
           c == Msg("ParameterDescription", 0, 0)
<1>1. /\ a \in Message /\ b \in Message /\ c \in Message
      /\ a.type = "ParseComplete" /\ b.type = "BindComplete" /\ c.type = "ParameterDescription"
  BY Msgs DEF Types
<1>2. /\ Answer("Parse") = <<a>> /\ Answer("Bind") = <<b>>
      /\ \A d : Description(1) = <<d>> => Answer("Describe") = <<c, d>>
  BY AnswerIs
<1>3. /\ op \in Bound \cup {"bind"} => Before = <<b>>
      /\ op \in Described => \E d \in Message : /\ Before = <<a, b, c, d>>
                                                /\ d.type \in {"RowDescription", "NoData"}
                                                /\ Description(1) = <<d>>
      /\ op = "prepare" => \E d \in Message : /\ Before = <<a, c, d>>
                                              /\ d.type \in {"RowDescription", "NoData"}
                                              /\ Description(1) = <<d>>
      /\ op = "query_portal" => Before = <<>>
  BY BeforeIs
<1> HIDE DEF a, b, c
<1>4. /\ Before \in Seq(Message) /\ Body \in Seq(Message) /\ Whole \in Seq(Message)
      /\ Len(Whole) = Len(Before) + Len(Body)
      /\ \A j \in 1..Len(Before) : Whole[j] = Before[j]
  BY WholeIs, BodyIs
<1>5. Len(Whole) \in Nat /\ Len(Body) \in Nat /\ Len(Before) <= Len(Whole)
  BY <1>4
<1>6. \A x \in Message : x.type # "CopyInResponse" => ~Copies(<<x>>)
  BY DEF Copies
<1>7. \A x, y \in Message : y.type # "CopyInResponse" => ~Copies(<<x, y>>)
  BY DEF Copies
<1>8. CASE op \in Bound
  <2>1. Request(op) = <<"Bind", "Execute", "Sync">>
    BY <1>8, Asked
  <2>2. Before = <<b>> /\ Len(Before) = 1 /\ Whole[1] = b
    <3>1. Before = <<b>>
      BY <1>3, <1>8
    <3> QED
      BY <1>4, <3>1
  <2>3. Len(Request(op)) = 3 /\ op # "prepare"
    BY <1>8, <2>1 DEF Bound, RowOps, Typed, One, Opt, Scalar
  <2>4. Upto(0) = 0 /\ Upto(1) = 1
    BY <2>3 DEF Upto
  <2>5. CASE n = 0
    <3>1. /\ Request(op)[n + 1] = "Bind" /\ Upto(n) = 0 /\ Upto(n + 1) = 0 + 1
          /\ 0 + 1 <= Len(Whole) /\ Whole[0 + 1] = b
          /\ n + 1 = Len(Request(op)) - 1 => ~Copies(Whole)
      BY <1>5, <2>1, <2>2, <2>3, <2>4, <2>5
    <3>2. b.type # "CopyInResponse" /\ 0 \in Nat
          /\ "Bind" \in {"Parse", "Bind", "Describe", "Execute"}
      BY <1>1
    <3> QED
      BY <1>1, <1>2, <1>4, <3>1, <3>2, SingleAnswer, Zenon
  <2>6. CASE n = 1
    <3>1. Request(op)[1 + 1] = "Execute" /\ Len(Request(op)) = 1 + 2
      BY <2>1, <2>3
    <3> QED
      BY <1>8, <2>2, <2>4, <2>6, <3>1, Executing
  <2> QED
    BY <2>3, <2>5, <2>6
<1>9. CASE op \in Described
  <2>1. Request(op) = <<"Parse", "Bind", "Describe", "Execute", "Sync">>
    BY <1>9, Asked
  <2>2. PICK d \in Message : /\ Before = <<a, b, c, d>>
                             /\ d.type \in {"RowDescription", "NoData"}
                             /\ Description(1) = <<d>>
    BY <1>3, <1>9
  <2>3. /\ Len(Before) = 4
        /\ Whole[1] = a /\ Whole[2] = b /\ Whole[3] = c /\ Whole[4] = d
    BY <1>4, <2>2
  <2>4. Len(Request(op)) = 5 /\ op # "prepare"
    BY <1>9, <2>1 DEF Described, Typed
  <2>5. Upto(0) = 0 /\ Upto(1) = 1 /\ Upto(2) = 2 /\ Upto(3) = 4
    BY <2>4 DEF Upto
  <2>6. CASE n = 0
    <3>1. /\ Request(op)[n + 1] = "Parse" /\ Upto(n) = 0 /\ Upto(n + 1) = 0 + 1
          /\ 0 + 1 <= Len(Whole) /\ Whole[0 + 1] = a
          /\ n + 1 = Len(Request(op)) - 1 => ~Copies(Whole)
      BY <1>5, <2>1, <2>3, <2>4, <2>5, <2>6
    <3>2. a.type # "CopyInResponse" /\ 0 \in Nat
          /\ "Parse" \in {"Parse", "Bind", "Describe", "Execute"}
      BY <1>1
    <3> QED
      BY <1>1, <1>2, <1>4, <3>1, <3>2, SingleAnswer, Zenon
  <2>7. CASE n = 1
    <3>1. /\ Request(op)[n + 1] = "Bind" /\ Upto(n) = 1 /\ Upto(n + 1) = 1 + 1
          /\ 1 + 1 <= Len(Whole) /\ Whole[1 + 1] = b
          /\ n + 1 = Len(Request(op)) - 1 => ~Copies(Whole)
      BY <1>5, <2>1, <2>3, <2>4, <2>5, <2>7
    <3>2. b.type # "CopyInResponse" /\ 1 \in Nat
          /\ "Bind" \in {"Parse", "Bind", "Describe", "Execute"}
      BY <1>1
    <3> QED
      BY <1>1, <1>2, <1>4, <3>1, <3>2, SingleAnswer, Zenon
  <2>8. CASE n = 2
    <3>1. /\ Request(op)[n + 1] = "Describe" /\ Upto(n) = 2 /\ Upto(n + 1) = 2 + 2
          /\ 2 + 2 <= Len(Whole) /\ Whole[2 + 1] = c /\ Whole[2 + 2] = d
          /\ n + 1 = Len(Request(op)) - 1 => ~Copies(Whole)
      BY <1>5, <2>1, <2>3, <2>4, <2>5, <2>8
    <3>2. d.type # "CopyInResponse" /\ 2 \in Nat
          /\ "Describe" \in {"Parse", "Bind", "Describe", "Execute"}
      BY <2>2
    <3>3. Answer("Describe") = <<c, d>>
      BY <1>2, <2>2
    <3> QED
      BY <1>1, <1>4, <3>1, <3>2, <3>3, DoubleAnswer, Zenon
  <2>9. CASE n = 3
    <3>1. Request(op)[3 + 1] = "Execute" /\ Len(Request(op)) = 3 + 2
      BY <2>1, <2>4
    <3> QED
      BY <1>9, <2>3, <2>5, <2>9, <3>1, Executing
  <2> QED
    BY <2>4, <2>6, <2>7, <2>8, <2>9
<1>10. CASE op = "prepare"
  <2>1. Request(op) = <<"Parse", "Describe", "Sync">>
    BY <1>10, Asked
  <2>2. PICK d \in Message : /\ Before = <<a, c, d>>
                             /\ d.type \in {"RowDescription", "NoData"}
                             /\ Description(1) = <<d>>
    BY <1>3, <1>10
  <2>3. /\ Len(Before) = 3
        /\ Whole[1] = a /\ Whole[2] = c /\ Whole[3] = d
    BY <1>4, <2>2
  <2>4. Len(Request(op)) = 3 /\ op \notin Simple
    BY <1>10, <2>1 DEF Simple
  <2>5. Len(Whole) = 3
    <3>1. Body = <<>>
      BY <1>10, BodyIs
    <3> QED
      BY <1>4, <2>3, <3>1
  <2>6. Upto(0) = 0 /\ Upto(1) = 1 /\ Upto(2) = 3
    <3>1. 0 # 3 - 1 /\ 1 # 3 - 1 /\ 2 = 3 - 1
      OBVIOUS
    <3> QED
      BY <1>10, <2>4, <2>5, <3>1, Zenon DEF Upto
  <2>7. ~Copies(Whole)
    BY <1>10, WholeCopies
  <2>8. CASE n = 0
    <3>1. /\ Request(op)[n + 1] = "Parse" /\ Upto(n) = 0 /\ Upto(n + 1) = 0 + 1
          /\ 0 + 1 <= Len(Whole) /\ Whole[0 + 1] = a
          /\ n + 1 = Len(Request(op)) - 1 => ~Copies(Whole)
      BY <2>1, <2>3, <2>4, <2>5, <2>6, <2>7, <2>8
    <3>2. a.type # "CopyInResponse" /\ 0 \in Nat
          /\ "Parse" \in {"Parse", "Bind", "Describe", "Execute"}
      BY <1>1
    <3> QED
      BY <1>1, <1>2, <1>4, <3>1, <3>2, SingleAnswer, Zenon
  <2>9. CASE n = 1
    <3>1. /\ Request(op)[n + 1] = "Describe" /\ Upto(n) = 1 /\ Upto(n + 1) = 1 + 2
          /\ 1 + 2 <= Len(Whole) /\ Whole[1 + 1] = c /\ Whole[1 + 2] = d
          /\ n + 1 = Len(Request(op)) - 1 => ~Copies(Whole)
      BY <2>1, <2>3, <2>4, <2>5, <2>6, <2>7, <2>9
    <3>2. d.type # "CopyInResponse" /\ 1 \in Nat
          /\ "Describe" \in {"Parse", "Bind", "Describe", "Execute"}
      BY <2>2
    <3>3. Answer("Describe") = <<c, d>>
      BY <1>2, <2>2
    <3> QED
      BY <1>1, <1>4, <3>1, <3>2, <3>3, DoubleAnswer, Zenon
  <2> QED
    BY <2>4, <2>8, <2>9
<1>11. CASE op = "bind"
  <2>1. Request(op) = <<"Bind", "Sync">>
    BY <1>11, Asked
  <2>2. Before = <<b>>
    BY <1>3, <1>11
  <2>3. Len(Before) = 1 /\ Whole[1] = b
    BY <1>4, <2>2
  <2>4. Len(Request(op)) = 2 /\ op \notin Simple /\ op # "prepare"
    BY <1>11, <2>1 DEF Simple
  <2>5. Len(Whole) = 1
    <3>1. Body = <<>>
      BY <1>11, BodyIs
    <3> QED
      BY <1>4, <2>3, <3>1
  <2>6. Upto(0) = 0 /\ Upto(1) = 1
    BY <2>4, <2>5 DEF Upto
  <2>7. ~Copies(Whole)
    BY <1>11, WholeCopies
  <2>8. n = 0
    BY <2>4
  <2>9. /\ Request(op)[n + 1] = "Bind" /\ Upto(n) = 0 /\ Upto(n + 1) = 0 + 1
        /\ 0 + 1 <= Len(Whole) /\ Whole[0 + 1] = b
        /\ n + 1 = Len(Request(op)) - 1 => ~Copies(Whole)
    BY <2>1, <2>3, <2>4, <2>5, <2>6, <2>7, <2>8
  <2>10. b.type # "CopyInResponse" /\ 0 \in Nat
        /\ "Bind" \in {"Parse", "Bind", "Describe", "Execute"}
    BY <1>1
  <2> QED
    BY <1>1, <1>2, <1>4, <2>9, <2>10, SingleAnswer, Zenon
<1>12. CASE op = "query_portal"
  <2>1. Request(op) = <<"Execute", "Sync">>
    BY <1>12, Asked
  <2>2. Len(Before) = 0
    BY <1>3, <1>12
  <2>3. Len(Request(op)) = 2 /\ op \notin Simple /\ op # "prepare"
    BY <1>12, <2>1 DEF Simple
  <2>4. Upto(0) = 0
    BY <2>3 DEF Upto
  <2>5. Request(op)[0 + 1] = "Execute" /\ Len(Request(op)) = 0 + 2 /\ n = 0
    BY <2>1, <2>3
  <2> QED
    BY <1>12, <2>2, <2>4, <2>5, Executing
<1>13. CASE op = "sync"
  <2>1. Len(Request(op)) = 1
    BY <1>13, Asked
  <2> QED
    BY <2>1
<1> QED
  BY <1>8, <1>9, <1>10, <1>11, <1>12, <1>13, OpIs

-----------------------------------------------------------------------------
(* The server goes on.                                                     *)

AnyMessage == Message \cup {Err, Rdy}

LEMMA Ends ==
  /\ Just("Error") = <<Err>> /\ Just("Ready") = <<Rdy>>
  /\ Just("Error") \o Just("Ready") = <<Err, Rdy>>
  /\ Err.type = "Error" /\ Rdy.type = "Ready" /\ Err \in AnyMessage /\ Rdy \in AnyMessage
  /\ <<Err>> \in Seq(AnyMessage) /\ <<Rdy>> \in Seq(AnyMessage) /\ <<Err, Rdy>> \in Seq(AnyMessage)
  /\ Tails = {<<>>, <<Err>>, <<Rdy>>, <<Err, Rdy>>}
<1>1. Just("Error") = <<Err>> /\ Just("Ready") = <<Rdy>>
  BY DEF Just, Err, Rdy
<1>2. Just("Error") \o Just("Ready") = <<Err, Rdy>>
  BY <1>1, JoinTwo, Zenon
<1>3. Err.type = "Error" /\ Rdy.type = "Ready"
  BY Msgs DEF Err, Rdy
<1>4. Err \in AnyMessage /\ Rdy \in AnyMessage
  BY DEF AnyMessage
<1>5. <<Err>> \in Seq(AnyMessage) /\ <<Rdy>> \in Seq(AnyMessage) /\ <<Err, Rdy>> \in Seq(AnyMessage)
  BY <1>4
<1>6. Tails = {<<>>, <<Err>>, <<Rdy>>, <<Err, Rdy>>}
  BY <1>1, <1>2, Zenon DEF Tails
<1> QED
  BY <1>1, <1>2, <1>3, <1>4, <1>5, <1>6

LEMMA RequestIs ==
  ASSUME Called
  PROVE  LET N == Len(Request(op))
         IN /\ Request(op) \in Seq(Kinds) /\ N \in Nat /\ N >= 1
            /\ op \notin Simple => Request(op)[N] = "Sync" /\ Upto(N - 1) = Len(Whole)
            /\ op \notin Simple => Request(op) \in Seq(Kinds \ {"Query"})
            /\ op \in Simple => N = 1 /\ Request(op)[1] = "Query" /\ Upto(0) = 0
<1>1. CASE op \in Simple
  <2>1. Request(op) = <<"Query">> /\ Upto(0) = 0
    BY <1>1, Asked DEF Upto
  <2> QED
    BY <1>1, <2>1 DEF Kinds
<1>2. CASE op \notin Simple
  <2>1. Upto(Len(Request(op)) - 1) = Len(Whole)
    BY <1>2 DEF Upto
  <2> DEFINE S == Kinds \ {"Query"}
  <2>2. /\ "Bind" \in S /\ "Execute" \in S /\ "Sync" \in S /\ "Parse" \in S /\ "Describe" \in S
    BY DEF Kinds
  <2> DEFINE N == Len(Request(op))
  <2>3. Request(op) \in Seq(S) /\ N \in Nat /\ N >= 1 /\ Request(op)[N] = "Sync"
    <3> HIDE DEF S
    <3>1. CASE op \in Bound
      <4>1. Request(op) = <<"Bind", "Execute", "Sync">>
        BY <3>1, Asked
      <4> QED
        BY <2>2, <4>1
    <3>2. CASE op \in Described
      <4>1. Request(op) = <<"Parse", "Bind", "Describe", "Execute", "Sync">>
        BY <3>2, Asked
      <4> QED
        BY <2>2, <4>1
    <3>3. CASE op = "prepare"
      <4>1. Request(op) = <<"Parse", "Describe", "Sync">>
        BY <3>3, Asked
      <4> QED
        BY <2>2, <4>1
    <3>4. CASE op = "bind"
      <4>1. Request(op) = <<"Bind", "Sync">>
        BY <3>4, Asked
      <4> QED
        BY <2>2, <4>1
    <3>5. CASE op = "query_portal"
      <4>1. Request(op) = <<"Execute", "Sync">>
        BY <3>5, Asked
      <4> QED
        BY <2>2, <4>1
    <3>6. CASE op = "sync"
      <4>1. Request(op) = <<"Sync">>
        BY <3>6, Asked
      <4> QED
        BY <2>2, <4>1
    <3> QED
      BY <1>2, <3>1, <3>2, <3>3, <3>4, <3>5, <3>6, OpIs
  <2>4. Request(op) \in Seq(Kinds)
    BY <2>3
  <2> QED
    BY <1>2, <2>1, <2>3, <2>4
<1> QED
  BY <1>1, <1>2

LEMMA WholeAny == ASSUME Called PROVE Whole \in Seq(AnyMessage) /\ Len(Whole) \in Nat
<1>1. Whole \in Seq(Message) /\ Message \subseteq AnyMessage
  BY WholeIs DEF AnyMessage
<1> QED
  BY <1>1

\* What has not been read goes on with the next answer, or with a part of it and an error.
Follows(p, q, r, a) ==
  /\ (SubSeq(Whole, p + 1, q) \o <<>>) \o a = SubSeq(Whole, p + 1, r) \o <<>>
  /\ \A ms \in Partial(a) :
       \E k \in Nat : /\ q + k < r
                      /\ (SubSeq(Whole, p + 1, q) \o <<>>) \o ms
                           = SubSeq(Whole, p + 1, q + k) \o <<Err>>

LEMMA AnswerFollows ==
  ASSUME Called, NEW p \in Nat, NEW q \in Nat, NEW r \in Nat,
         p <= q, q <= r, r <= Len(Whole),
         NEW a, a = SubSeq(Whole, q + 1, r)
  PROVE  Follows(p, q, r, a)
<1> DEFINE w == SubSeq(Whole, p + 1, q)
           v == SubSeq(Whole, p + 1, r)
<1>1. Whole \in Seq(AnyMessage) /\ Len(Whole) \in Nat
  BY WholeAny
<1>2. /\ w \in Seq(AnyMessage) /\ v \in Seq(AnyMessage) /\ a \in Seq(AnyMessage) /\ Len(a) = r - q
      /\ \A j \in 1..r - q : a[j] = Whole[q + j]
  BY <1>1, WindowElements
<1>3. w \o a = v
  BY <1>1, WindowGrows
<1>4. w \o <<>> = w /\ v \o <<>> = v
  BY <1>2, ConcatEmptySeq
<1>5. ASSUME NEW ms \in Partial(a)
      PROVE  \E k \in Nat : /\ q + k < r
                            /\ w \o ms = SubSeq(Whole, p + 1, q + k) \o <<Err>>
  <2>1. PICK k \in 0..Len(a) - 1 : ms = SubSeq(a, 1, k) \o <<Err>>
    BY <1>5, Ends DEF Partial
  <2>2. k \in Nat /\ k <= Len(a) /\ q + k < r /\ q + k <= Len(Whole) /\ p <= q + k
    BY <1>1, <1>2
  <2>3. SubSeq(a, 1, k) = SubSeq(Whole, q + 1, q + k)
    <3>1. /\ SubSeq(a, 1, k) \in Seq(AnyMessage) /\ Len(SubSeq(a, 1, k)) = k
          /\ \A j \in 1..k : SubSeq(a, 1, k)[j] = a[j]
      <4>1. 0 <= k /\ 0 + 1 = 1 /\ k - 0 = k /\ \A j \in 1..k : 0 + j = j
        BY <2>2
      <4> HIDE DEF w, v
      <4> QED
        BY <1>2, <2>2, <4>1, WindowElements
    <3>2. \A j \in 1..k : Whole[q + j] = SubSeq(a, 1, k)[j]
      BY <1>2, <2>2, <3>1
    <3> QED
      BY <1>1, <2>2, <3>1, <3>2, WindowIs
  <2> DEFINE s == SubSeq(a, 1, k)
             u == SubSeq(Whole, p + 1, q + k)
  <2>4. w \o s = u
    BY <1>1, <2>2, <2>3, WindowGrows
  <2>5. s \in Seq(AnyMessage) /\ <<Err>> \in Seq(AnyMessage)
    <3>1. SubSeq(Whole, q + 1, q + k) \in Seq(AnyMessage)
      BY <1>1, <2>2, WindowElements
    <3> QED
      BY <2>3, <3>1, Ends
  <2> HIDE DEF w, s, u
  <2>6. w \o (s \o <<Err>>) = (w \o s) \o <<Err>>
    BY <1>2, <2>5, ConcatAssociative
  <2> QED
    BY <2>1, <2>2, <2>4, <2>6 DEF s, u
<1> HIDE DEF w, v
<1> QED
  BY <1>3, <1>4, <1>5 DEF w, v, Follows

\* Neither the answer nor the place of the call changes with the server.
LEMMA SameAnswer ==
  ASSUME UNCHANGED <<op, sql>>
  PROVE  /\ Whole' = Whole /\ Before' = Before /\ Body' = Body /\ Rows' = Rows
         /\ \A n : Upto(n)' = Upto(n)
         /\ \A i : Result(i)' = Result(i) /\ Results(i)' = Results(i) /\ Start(i)' = Start(i)
         /\ Statements' = Statements
<1>1. \A i : /\ Executed(i, 0)' = Executed(i, 0) /\ Description(i)' = Description(i)
             /\ Executed(i, RowLimit)' = Executed(i, RowLimit)
  BY DEF Executed, Description, RowLimit
<1>2. \A i : Result(i)' = Result(i)
  BY <1>1 DEF Result
<1>3. Statements' = Statements
  BY DEF Statements, RunsLast
<1>4. \A i : Results(i)' = Results(i)
  BY <1>2 DEF Results
<1>5. \A i : Start(i)' = Start(i)
  BY <1>4 DEF Start
<1>6. /\ Ran = FlattenSeq([i \in 1..Statements |-> Result(i)])
      /\ Ran' = FlattenSeq([i \in 1..Statements' |-> Result(i)'])
  BY Zenon DEF Ran, Statements
<1>7. Ran' = Ran
  BY <1>2, <1>3, <1>6
<1>8. Before' = Before /\ Body' = Body
  BY <1>1, <1>7 DEF Before, Body
<1>9. Whole' = Whole
  BY <1>8 DEF Whole
<1>10. \A n : Upto(n)' = Upto(n)
  BY <1>9 DEF Upto
<1>11. Rows' = Rows
  BY DEF Rows, RowLimit
<1> QED
  BY <1>2, <1>3, <1>4, <1>5, <1>8, <1>9, <1>10, <1>11

LEMMA SamePlace ==
  ASSUME UNCHANGED <<op, sql, stage, seen>>, NEW p
  PROVE  At(p)' <=> At(p)
<1>1. /\ Whole' = Whole /\ Before' = Before /\ Rows' = Rows
      /\ \A i : Result(i)' = Result(i) /\ Start(i)' = Start(i)
      /\ Statements' = Statements
  BY SameAnswer
<1>2. AtRows(p)' <=> AtRows(p)
  BY <1>1 DEF AtRows
<1>3. AtCount(p)' <=> AtCount(p)
  BY <1>1 DEF AtCount
<1>4. \A i, k : AtSimple(p, i, k)' <=> AtSimple(p, i, k)
  BY <1>1 DEF AtSimple, ReadOf, RowsUpto, RowLists, RowsIn
<1>5. PlacedSimple(p)' <=> PlacedSimple(p)
  BY <1>1, <1>4 DEF PlacedSimple
<1> QED
  BY <1>2, <1>3, <1>5 DEF At

LEMMA NextTodo ==
  ASSUME Called, NEW n \in Nat, n <= Len(Request(op)), todo # <<>>,
         todo = SubSeq(Request(op), n + 1, Len(Request(op)))
  PROVE  /\ n < Len(Request(op)) /\ n + 1 \in 1..Len(Request(op))
         /\ Head(todo) = Request(op)[n + 1]
         /\ Tail(todo) = SubSeq(Request(op), (n + 1) + 1, Len(Request(op)))
<1> DEFINE R == Request(op)
           N == Len(R)
<1>1. R \in Seq(Kinds) /\ N \in Nat
  BY RequestIs
<1> HIDE DEF R
<1>2. todo = SubSeq(R, n + 1, N) /\ n <= N
  BY DEF R
<1>3. n < N
  <2> SUFFICES ASSUME n = N PROVE FALSE
    BY <1>1, <1>2
  <2>1. SubSeq(R, n + 1, n) = <<>>
    BY <1>1, WindowEmpty
  <2> QED
    BY <1>2, <2>1
<1>4. SubSeq(R, n + 1, N) \o <<>> = SubSeq(R, n + 1, N) /\ SubSeq(R, (n + 1) + 1, N) \o <<>> = SubSeq(R, (n + 1) + 1, N)
  <2>1. SubSeq(R, n + 1, N) \in Seq(Kinds) /\ SubSeq(R, (n + 1) + 1, N) \in Seq(Kinds)
    BY <1>1, <1>3, WindowElements
  <2> QED
    BY <2>1, ConcatEmptySeq
<1>5. <<>> \in Seq(Kinds) /\ N <= Len(R)
  BY <1>1, EmptySeq
<1>6. LET r == SubSeq(R, n + 1, N) \o <<>>
      IN /\ r # <<>> /\ Head(r) = R[n + 1]
         /\ Tail(r) = SubSeq(R, (n + 1) + 1, N) \o <<>>
         /\ n + 1 \in 1..Len(R) /\ R[n + 1] \in Kinds
  <2> HIDE DEF N
  <2> DEFINE Fine(t) == LET r == SubSeq(R, n + 1, N) \o t
                        IN /\ r # <<>> /\ Head(r) = R[n + 1]
                           /\ Tail(r) = SubSeq(R, (n + 1) + 1, N) \o t
                           /\ n + 1 \in 1..Len(R) /\ R[n + 1] \in Kinds
  <2>1. ASSUME NEW t \in Seq(Kinds) PROVE Fine(t)
    BY <1>1, <1>3, <1>5, WindowRead
  <2>2. Fine(<<>>)
    <3> HIDE DEF Fine
    <3> QED
      BY <1>5, <2>1
  <2> QED
    BY <2>2
<1> QED
  BY <1>2, <1>3, <1>4, <1>6 DEF R

\* The server, at one message of its own.
LEMMA ServerSteps ==
  ASSUME Server
  PROVE  /\ todo # <<>> /\ todo' = Tail(todo) /\ UNCHANGED <<op, sql, stage, seen, result>>
         /\ LET m == Head(todo)
            IN \/ Serve(m)
               \/ m = "CopyFail" /\ ServeCopyFail
               \/ m = "Sync" /\ ServeSync
               \/ m = "Query" /\ ServeQuery
               \/ Ignored(m)
BY DEF Server

LEMMA ReadingFollows ==
  ASSUME Called, NEW n, NEW p, NEW q, NEW tl,
         UNCHANGED <<op, sql, stage, seen>>,
         n <= Len(Request(op)), p <= q, q <= Len(Whole),
         todo' = SubSeq(Request(op), n + 1, Len(Request(op))),
         replies' = SubSeq(Whole, p + 1, q) \o tl,
         At(p),
         LET N == Len(Request(op)) IN
         \/ /\ n < N /\ srv' = "run" /\ outcome' = "open" /\ q = Upto(n) /\ tl = <<>>
            /\ n = N - 1 /\ op \notin Simple => ~Copies(Whole)
         \/ /\ n < N /\ srv' = "skip" /\ outcome' = "open" /\ q < Len(Whole) /\ tl = <<Err>>
            /\ op \notin Simple
         \/ /\ n = N /\ srv' = "run" /\ outcome' = "committed" /\ q = Len(Whole) /\ tl = <<Rdy>>
            /\ ~Copies(Whole)
         \/ /\ n = N /\ srv' = "run" /\ outcome' = "aborted" /\ tl = <<Err, Rdy>>
            /\ Copies(Whole) => q < Len(Whole)
         \/ /\ n \in {N - 1, N} /\ srv' = "copy" /\ outcome' = "open" /\ q = Len(Whole) /\ tl = <<>>
            /\ Copies(Whole)
            /\ op \in Simple => n = N
  PROVE  Reading(n, p, q, tl)' /\ tl \in Tails
<1>1. Whole' = Whole /\ Upto(n)' = Upto(n)
  BY SameAnswer
<1>2. At(p)'
  BY SamePlace
<1>4. Served(n, q, tl)'
  BY <1>1, Ends DEF Served, Copies
<1>5. tl \in Tails
  BY Ends
<1> QED
  BY <1>1, <1>2, <1>4, <1>5 DEF Reading

LEMMA ServerReads ==
  ASSUME Called, NEW n \in Nat, NEW p \in Nat, NEW q \in Nat, NEW tl,
         Reading(n, p, q, tl), Server
  PROVE  \E n1, p1, q1 \in Nat, tl1 \in Tails : Reading(n1, p1, q1, tl1)'
<1> DEFINE R == Request(op)
           N == Len(Request(op))
           w == SubSeq(Whole, p + 1, q)
           m == Head(todo)
<1>1. /\ n <= N /\ p <= q /\ q <= Len(Whole)
      /\ todo = SubSeq(Request(op), n + 1, Len(Request(op)))
      /\ replies = w \o tl /\ Served(n, q, tl) /\ At(p)
  BY DEF Reading
<1>2. /\ todo # <<>> /\ todo' = Tail(todo) /\ UNCHANGED <<op, sql, stage, seen>>
      /\ \/ Serve(m)
         \/ m = "CopyFail" /\ ServeCopyFail
         \/ m = "Sync" /\ ServeSync
         \/ m = "Query" /\ ServeQuery
         \/ Ignored(m)
  BY ServerSteps
<1>3. /\ n < N /\ m = R[n + 1]
      /\ todo' = SubSeq(R, (n + 1) + 1, N)
  BY <1>1, <1>2, NextTodo
<1>4. N \in Nat /\ n + 1 <= N /\ n + 1 \in Nat
  BY <1>3, RequestIs
<1>5. /\ op \notin Simple => R[N] = "Sync" /\ Upto(N - 1) = Len(Whole)
      /\ op \in Simple => N = 1 /\ R[1] = "Query" /\ Upto(0) = 0
  BY RequestIs
<1>6. Whole \in Seq(AnyMessage) /\ Len(Whole) \in Nat /\ w \in Seq(AnyMessage)
  BY <1>1, WholeAny, WindowElements
<1> DEFINE Goes(q1, tl1) ==
             /\ p <= q1 /\ q1 <= Len(Whole) /\ q1 \in Nat
             /\ replies' = SubSeq(Whole, p + 1, q1) \o tl1
             /\ \/ /\ n + 1 < N /\ srv' = "run" /\ outcome' = "open" /\ q1 = Upto(n + 1)
                   /\ tl1 = <<>>
                   /\ n + 1 = N - 1 /\ op \notin Simple => ~Copies(Whole)
                \/ /\ n + 1 < N /\ srv' = "skip" /\ outcome' = "open" /\ q1 < Len(Whole)
                   /\ tl1 = <<Err>> /\ op \notin Simple
                \/ /\ n + 1 = N /\ srv' = "run" /\ outcome' = "committed" /\ q1 = Len(Whole)
                   /\ tl1 = <<Rdy>> /\ ~Copies(Whole)
                \/ /\ n + 1 = N /\ srv' = "run" /\ outcome' = "aborted" /\ tl1 = <<Err, Rdy>>
                   /\ Copies(Whole) => q1 < Len(Whole)
                \/ /\ n + 1 \in {N - 1, N} /\ srv' = "copy" /\ outcome' = "open"
                   /\ q1 = Len(Whole) /\ tl1 = <<>>
                   /\ Copies(Whole)
                   /\ op \in Simple => n + 1 = N
<1>7. ASSUME NEW q1, NEW tl1, Goes(q1, tl1)
      PROVE  \E n1, p1, q2 \in Nat, tl2 \in Tails : Reading(n1, p1, q2, tl2)'
  <2>1. Reading(n + 1, p, q1, tl1)' /\ tl1 \in Tails /\ q1 \in Nat
    BY <1>1, <1>2, <1>3, <1>4, <1>7, ReadingFollows
  <2> QED
    BY <1>4, <2>1
<1> SUFFICES \E q1, tl1 : Goes(q1, tl1)
  <2> HIDE DEF Goes
  <2> QED
    BY <1>7
<1>8. \/ /\ srv = "run" /\ outcome = "open" /\ q = Upto(n) /\ tl = <<>>
         /\ n = N - 1 /\ op \notin Simple => ~Copies(Whole)
      \/ /\ srv = "skip" /\ outcome = "open" /\ q < Len(Whole) /\ tl = <<Err>> /\ op \notin Simple
      \/ /\ n = N - 1 /\ srv = "copy" /\ outcome = "open" /\ q = Len(Whole) /\ tl = <<>>
         /\ Copies(Whole) /\ op \notin Simple
  BY <1>1, <1>3, <1>4, Ends DEF Served
<1>9. ASSUME op \notin Simple, n < N - 1 PROVE Answers1(n)
  BY <1>9, Answering
<1>16. n < N - 1 \/ n = N - 1
  BY <1>3, <1>4
<1>10. CASE op \notin Simple /\ n < N - 1 /\ srv = "run"
  <2>1. /\ outcome = "open" /\ q = Upto(n) /\ tl = <<>>
    BY <1>8, <1>10
  <2>2. /\ m \in {"Parse", "Bind", "Describe", "Execute"}
        /\ Upto(n + 1) \in Nat /\ q < Upto(n + 1) /\ Upto(n + 1) <= Len(Whole)
        /\ Answer(m) = SubSeq(Whole, q + 1, Upto(n + 1))
        /\ Copies(Answer(m)) <=> (n + 1 = N - 1 /\ Copies(Whole))
    BY <1>3, <1>9, <1>10, <2>1 DEF Answers1
  <2> DEFINE a == Answer(m)
             r == Upto(n + 1)
  <2>3. /\ (w \o <<>>) \o a = SubSeq(Whole, p + 1, r) \o <<>>
        /\ \A ms \in Partial(a) :
             \E k \in Nat : /\ q + k < r
                            /\ (w \o <<>>) \o ms = SubSeq(Whole, p + 1, q + k) \o <<Err>>
    <3>1. q <= r /\ r \in Nat /\ r <= Len(Whole) /\ a = SubSeq(Whole, q + 1, r)
      BY <2>2
    <3> HIDE DEF a, r
    <3>2. Follows(p, q, r, a)
      BY <1>1, <3>1, AnswerFollows
    <3> QED
      BY <3>2, Zenon DEF Follows
  <2>4. Serve(m)
    BY <1>2, <1>10, <2>2 DEF Ignored
  <2>5. /\ outcome' = outcome
        /\ \/ replies' = replies \o a /\ srv' = IF Copies(a) THEN "copy" ELSE "run"
           \/ \E ms \in Partial(a) : replies' = replies \o ms /\ srv' = "skip"
    BY <2>2, <2>4 DEF Serve
  <2> HIDE DEF a
  <2>6. CASE replies' = replies \o a /\ srv' = IF Copies(a) THEN "copy" ELSE "run"
    <3>1. replies' = SubSeq(Whole, p + 1, r) \o <<>> /\ p <= r /\ r \in Nat /\ r <= Len(Whole)
      <4>1. replies' = (w \o <<>>) \o a
        BY <1>1, <2>1, <2>6
      <4>2. p <= r /\ r \in Nat /\ r <= Len(Whole)
        BY <1>1, <2>2
      <4> HIDE DEF w, r
      <4> QED
        BY <2>3, <4>1, <4>2
    <3>2. CASE Copies(a)
      <4>1. n + 1 = N - 1 /\ Copies(Whole) /\ r = Len(Whole) /\ srv' = "copy"
        BY <1>5, <1>10, <2>2, <2>6, <3>2 DEF a
      <4>2. Goes(r, <<>>)
        BY <1>10, <2>1, <2>5, <3>1, <4>1
      <4> QED
        BY <4>2
    <3>3. CASE ~Copies(a)
      <4>1. srv' = "run" /\ (n + 1 = N - 1 => ~Copies(Whole)) /\ n + 1 < N
        BY <1>4, <1>10, <2>2, <2>6, <3>3 DEF a
      <4>2. Goes(r, <<>>)
        BY <2>1, <2>5, <3>1, <4>1
      <4> QED
        BY <4>2
    <3> QED
      BY <3>2, <3>3
  <2>7. CASE \E ms \in Partial(a) : replies' = replies \o ms /\ srv' = "skip"
    <3>1. PICK ms \in Partial(a) : replies' = replies \o ms /\ srv' = "skip"
      BY <2>7
    <3>2. PICK k \in Nat : /\ q + k < r
                           /\ (w \o <<>>) \o ms = SubSeq(Whole, p + 1, q + k) \o <<Err>>
      BY <2>3
    <3>3. /\ replies' = SubSeq(Whole, p + 1, q + k) \o <<Err>>
          /\ p <= q + k /\ q + k \in Nat /\ q + k < Len(Whole) /\ n + 1 < N
      <4>1. replies' = (w \o <<>>) \o ms
        BY <1>1, <2>1, <3>1
      <4>2. replies' = SubSeq(Whole, p + 1, q + k) \o <<Err>>
        <5> HIDE DEF w
        <5> QED
          BY <3>2, <4>1
      <4>3. p <= q + k /\ q + k \in Nat /\ q + k < Len(Whole) /\ n + 1 < N
        <5>1. p <= q /\ r \in Nat /\ r <= Len(Whole) /\ Len(Whole) \in Nat
              /\ N \in Nat /\ n < N - 1
          BY <1>1, <1>4, <1>6, <1>10, <2>2
        <5>2. q + k < r
          BY <3>2
        <5> HIDE DEF r, N, w
        <5> QED
          BY <5>1, <5>2
      <4> QED
        BY <4>2, <4>3
    <3>4. Goes(q + k, <<Err>>)
      BY <1>6, <1>10, <2>1, <2>5, <3>1, <3>3
    <3> QED
      BY <3>4
  <2> QED
    BY <2>5, <2>6, <2>7
<1>11. CASE op \notin Simple /\ n = N - 1 /\ srv = "run"
  <2>1. /\ outcome = "open" /\ q = Len(Whole) /\ tl = <<>> /\ ~Copies(Whole)
        /\ m = "Sync" /\ n + 1 = N
    BY <1>3, <1>4, <1>5, <1>8, <1>11
  <2>2. ServeSync
    BY <1>2, <1>11, <2>1 DEF Serve, Ignored
  <2>3. w \o <<>> = w
    BY <1>6, ConcatEmptySeq
  <2>4. CASE outcome' = "committed" /\ replies' = replies \o Just("Ready") /\ srv' = "run"
    <3>1. replies' = w \o <<Rdy>>
      BY <1>1, <2>1, <2>3, <2>4, Ends
    <3>2. Goes(q, <<Rdy>>)
      BY <1>1, <2>1, <2>4, <3>1
    <3> QED
      BY <3>2
  <2>5. CASE /\ outcome' = "aborted" /\ replies' = replies \o Just("Error") \o Just("Ready")
             /\ srv' = "run"
    <3>1. replies' = (w \o <<Err>>) \o <<Rdy>>
      BY <1>1, <2>1, <2>3, <2>5, Ends
    <3>2. (w \o <<Err>>) \o <<Rdy>> = w \o (<<Err>> \o <<Rdy>>)
      BY <1>6, Ends, ConcatAssociative
    <3>3. replies' = w \o <<Err, Rdy>>
      BY <3>1, <3>2, JoinTwo
    <3>4. Goes(q, <<Err, Rdy>>)
      BY <1>1, <2>1, <2>5, <3>3
    <3> QED
      BY <3>4
  <2> QED
    BY <1>11, <2>1, <2>2, <2>4, <2>5 DEF ServeSync
<1>12. CASE op \in Simple /\ srv = "run"
  <2>1. /\ outcome = "open" /\ q = 0 /\ p = 0 /\ tl = <<>> /\ m = "Query" /\ n + 1 = N
    <3>1. N = 1 /\ n = 0 /\ R[1] = "Query" /\ Upto(0) = 0
      <4>1. N = 1 /\ R[1] = "Query" /\ Upto(0) = 0
        BY <1>5, <1>12, Zenon
      <4>2. n = 0
        BY <1>3, <1>4, <4>1
      <4> QED
        BY <4>1, <4>2
    <3>2. outcome = "open" /\ q = Upto(n) /\ tl = <<>>
      BY <1>8, <1>12
    <3>3. q = 0
      BY <3>1, <3>2
    <3> QED
      BY <1>1, <1>3, <3>1, <3>2, <3>3
  <2>2. Whole = Ran /\ Ran \in Seq(AnyMessage)
    BY <1>6, <1>12, WholeCopies
  <2>3. ServeQuery
    BY <1>2, <1>12, <2>1 DEF Serve, Ignored
  <2>4. replies = w \o <<>> /\ w = <<>> /\ <<>> \o Ran = Ran /\ w \o <<>> = <<>>
    <3>1. w = <<>>
      BY <1>6, <2>1, WindowEmpty
    <3>2. <<>> \o Ran = Ran
      BY <2>2, ConcatEmptySeq
    <3>3. w \o <<>> = w
      BY <1>6, ConcatEmptySeq
    <3> QED
      BY <1>1, <2>1, <3>1, <3>2, <3>3
  <2>5. SubSeq(Whole, p + 1, Len(Whole)) = Whole
    <3>1. p + 1 = 1
      BY <2>1
    <3> QED
      BY <1>6, <3>1, SubSeqFull
  <2> DEFINE a == Ran
             L == Len(Whole)
  <2>6. CASE replies' = replies \o Ran \o (IF Copies(Ran) THEN <<>> ELSE Just("Ready"))
             /\ IF Copies(Ran) THEN srv' = "copy" /\ UNCHANGED outcome
                               ELSE outcome' = "committed" /\ UNCHANGED srv
    <3>1. replies' = Whole \o (IF Copies(Ran) THEN <<>> ELSE <<Rdy>>)
      BY <2>2, <2>4, <2>6, Ends
    <3>2. CASE Copies(Ran)
      <4>1. replies' = SubSeq(Whole, p + 1, L) \o <<>>
        BY <2>5, <3>1, <3>2
      <4>2. p <= L /\ L <= Len(Whole) /\ L \in Nat /\ Copies(Whole)
        BY <1>6, <2>1, <2>2, <3>2
      <4>3. srv' = "copy" /\ outcome' = "open" /\ n + 1 \in {N - 1, N}
        BY <2>1, <2>6, <3>2
      <4>4. Goes(L, <<>>)
        BY <2>1, <4>1, <4>2, <4>3, Zenon
      <4> QED
        BY <4>4
    <3>3. CASE ~Copies(Ran)
      <4>1. replies' = SubSeq(Whole, p + 1, L) \o <<Rdy>>
        BY <2>5, <3>1, <3>3
      <4>2. p <= L /\ L <= Len(Whole) /\ L \in Nat /\ ~Copies(Whole)
        BY <1>6, <2>1, <2>2, <3>3
      <4>3. srv' = "run" /\ outcome' = "committed"
        BY <1>12, <2>6, <3>3
      <4>4. Goes(L, <<Rdy>>)
        BY <1>12, <2>1, <4>1, <4>2, <4>3
      <4> QED
        BY <4>4
    <3> QED
      BY <3>2, <3>3
  <2>7. CASE \E ms \in Partial(Ran) :
               replies' = replies \o ms \o Just("Ready") /\ outcome' = "aborted" /\ UNCHANGED srv
    <3>1. PICK ms \in Partial(Ran) :
            replies' = replies \o ms \o Just("Ready") /\ outcome' = "aborted" /\ UNCHANGED srv
      BY <2>7
    <3>2. Ran = SubSeq(Whole, q + 1, L) /\ q <= L /\ p <= q /\ L <= Len(Whole) /\ L \in Nat
      BY <1>6, <2>1, <2>2, <2>5
    <3>3. PICK k \in Nat : /\ q + k < L
                           /\ (w \o <<>>) \o ms = SubSeq(Whole, p + 1, q + k) \o <<Err>>
      <4> HIDE DEF L
      <4>1. Follows(p, q, L, Ran)
        BY <1>1, <3>2, AnswerFollows
      <4>2. ms \in Partial(Ran)
        OBVIOUS
      <4> QED
        BY <4>1, <4>2, Zenon DEF Follows
    <3> DEFINE u == SubSeq(Whole, p + 1, q + k)
    <3>4. replies' = (u \o <<Err>>) \o <<Rdy>>
      BY <1>1, <2>1, <3>1, <3>3, Ends
    <3>5. u \in Seq(AnyMessage)
      BY <1>6, <2>1, <3>3, WindowElements
    <3>6. (u \o <<Err>>) \o <<Rdy>> = u \o (<<Err>> \o <<Rdy>>)
      <4> HIDE DEF u
      <4> QED
        BY <3>5, Ends, ConcatAssociative
    <3>7. replies' = u \o <<Err, Rdy>>
      <4> HIDE DEF u
      <4> QED
        BY <3>4, <3>6, JoinTwo
    <3>8. Goes(q + k, <<Err, Rdy>>)
      <4>1. p <= q + k /\ q + k \in Nat /\ q + k < Len(Whole) /\ q + k <= Len(Whole)
        BY <1>6, <2>1, <3>3
      <4>2. srv' = "run" /\ outcome' = "aborted"
        BY <1>12, <3>1
      <4> QED
        BY <2>1, <3>7, <4>1, <4>2, Zenon
    <3> QED
      BY <3>8
  <2> QED
    BY <2>3, <2>6, <2>7 DEF ServeQuery
<1>13. CASE srv = "skip"
  <2>1. outcome = "open" /\ q < Len(Whole) /\ tl = <<Err>> /\ op \notin Simple
    BY <1>8, <1>13
  <2>2. CASE n < N - 1
    <3>1. m \in {"Parse", "Bind", "Describe", "Execute"}
      BY <1>3, <1>9, <2>1, <2>2 DEF Answers1
    <3>2. Ignored(m)
      BY <1>2, <1>13, <3>1 DEF Serve
    <3>3. UNCHANGED <<srv, outcome, replies>> /\ n + 1 < N
      BY <1>4, <2>2, <3>2 DEF Ignored
    <3>4. Goes(q, <<Err>>)
      BY <1>1, <1>13, <2>1, <3>3
    <3> QED
      BY <3>4
  <2>3. CASE n = N - 1
    <3>1. m = "Sync" /\ n + 1 = N
      BY <1>3, <1>4, <1>5, <2>1, <2>3
    <3>2. ServeSync
      BY <1>2, <1>13, <3>1 DEF Serve, Ignored
    <3>3. srv' = "run" /\ outcome' = "aborted" /\ replies' = replies \o <<Rdy>>
      BY <1>13, <2>1, <3>2, Ends DEF ServeSync
    <3>4. (w \o <<Err>>) \o <<Rdy>> = w \o (<<Err>> \o <<Rdy>>)
      <4> HIDE DEF w
      <4> QED
        BY <1>6, Ends, ConcatAssociative
    <3>5. replies' = w \o <<Err, Rdy>>
      BY <1>1, <2>1, <3>3, <3>4, JoinTwo
    <3>6. Goes(q, <<Err, Rdy>>)
      BY <1>1, <2>1, <3>1, <3>3, <3>5
    <3> QED
      BY <3>6
  <2> QED
    BY <1>16, <2>2, <2>3
<1>14. CASE srv = "copy"
  <2>1. /\ n = N - 1 /\ outcome = "open" /\ q = Len(Whole) /\ tl = <<>>
        /\ Copies(Whole) /\ op \notin Simple /\ m = "Sync" /\ n + 1 = N
    BY <1>3, <1>4, <1>5, <1>8, <1>14
  <2>2. Ignored(m)
    BY <1>2, <1>14, <2>1 DEF Serve, ServeSync
  <2>3. UNCHANGED <<srv, outcome, replies>>
    BY <2>2 DEF Ignored
  <2>4. Goes(q, <<>>)
    BY <1>1, <1>4, <1>14, <2>1, <2>3
  <2> QED
    BY <2>4
<1>15. srv \in {"run", "skip", "copy"}
  BY <1>8
<1> QED
  <2> HIDE DEF Goes
  <2> QED
    BY <1>10, <1>11, <1>12, <1>13, <1>14, <1>15, <1>16

\* The end of a copy.
LEMMA ServerFinishes ==
  ASSUME Called, Finishing, Server
  PROVE  Finishing'
<1> DEFINE m == Head(todo)
<1>1. /\ op = "copy_in" /\ sql[1].kind = "copyIn" /\ stage = "finish"
      /\ op' = op /\ sql' = sql /\ stage' = stage
  BY ServerSteps DEF Finishing
<1>2. Tag' = Tag /\ Err' = Err /\ Rdy' = Rdy
  BY <1>1 DEF Tag, Err, Rdy, Msg
<1>3. /\ todo # <<>> /\ todo' = Tail(todo)
      /\ \/ Serve(m)
         \/ m = "CopyFail" /\ ServeCopyFail
         \/ m = "Sync" /\ ServeSync
         \/ m = "Query" /\ ServeQuery
         \/ Ignored(m)
  BY ServerSteps
<1> DEFINE Holds ==
       \/ /\ srv' = "copy" /\ outcome' = "open" /\ replies' = <<>>
          /\ todo' \in {<<"Sync", "CopyDone", "Sync">>, <<"CopyDone", "Sync">>}
       \/ srv' = "run" /\ outcome' = "open" /\ todo' = <<"Sync">> /\ replies' = <<Tag>>
       \/ srv' = "skip" /\ outcome' = "open" /\ todo' = <<"Sync">> /\ replies' = <<Err>>
       \/ srv' = "run" /\ outcome' = "committed" /\ todo' = <<>> /\ replies' = <<Tag, Rdy>>
       \/ /\ srv' = "run" /\ outcome' = "aborted" /\ todo' = <<>>
          /\ replies' \in {<<Tag, Err, Rdy>>, <<Err, Rdy>>}
<1>4. SUFFICES Holds
  BY <1>1, <1>2 DEF Finishing
<1>5. CASE srv = "copy" /\ outcome = "open" /\ replies = <<>>
           /\ todo = <<"Sync", "CopyDone", "Sync">>
  <2>1. m = "Sync" /\ todo' = <<"CopyDone", "Sync">>
    BY <1>3, <1>5
  <2>2. Ignored(m)
    BY <1>3, <1>5, <2>1 DEF Serve, ServeSync
  <2> QED
    BY <1>5, <2>1, <2>2 DEF Ignored
<1>6. CASE srv = "copy" /\ outcome = "open" /\ replies = <<>> /\ todo = <<"CopyDone", "Sync">>
  <2>1. m = "CopyDone" /\ todo' = <<"Sync">>
    BY <1>3, <1>6
  <2>2. Serve(m)
    BY <1>3, <1>6, <2>1 DEF Ignored
  <2>3. Answer("CopyDone") = <<Tag>>
    BY AnswerIs DEF Tag
  <2>4. /\ outcome' = "open"
        /\ \/ replies' = <<>> \o <<Tag>> /\ srv' = "run"
           \/ \E ms \in Partial(<<Tag>>) : replies' = <<>> \o ms /\ srv' = "skip"
    BY <1>6, <2>1, <2>2, <2>3 DEF Serve
  <2>5. \A ms \in Partial(<<Tag>>) : ms = <<Err>>
    <3> TAKE ms \in Partial(<<Tag>>)
    <3>1. PICK k \in 0..Len(<<Tag>>) - 1 : ms = SubSeq(<<Tag>>, 1, k) \o <<Err>>
      BY Ends DEF Partial
    <3>2. k = 0
      OBVIOUS
    <3>3. SubSeq(<<Tag>>, 1, 0) = <<>>
      OBVIOUS
    <3>4. <<>> \o <<Err>> = <<Err>>
      BY Ends, ConcatEmptySeq
    <3> QED
      BY <3>1, <3>2, <3>3, <3>4
  <2>6. <<>> \o <<Tag>> = <<Tag>> /\ <<>> \o <<Err>> = <<Err>>
    <3>1. <<Tag>> \in Seq({Tag}) /\ <<Err>> \in Seq({Err})
      OBVIOUS
    <3> QED
      BY <3>1, ConcatEmptySeq
  <2> QED
    BY <2>1, <2>4, <2>5, <2>6
<1>7. CASE srv = "run" /\ outcome = "open" /\ todo = <<"Sync">> /\ replies = <<Tag>>
  <2>1. m = "Sync" /\ todo' = <<>>
    BY <1>3, <1>7
  <2>2. ServeSync
    BY <1>3, <1>7, <2>1 DEF Serve, Ignored
  <2>3. /\ <<Tag>> \o Just("Ready") = <<Tag, Rdy>>
        /\ <<Tag>> \o Just("Error") \o Just("Ready") = <<Tag, Err, Rdy>>
    <3>1. <<Tag>> \o Just("Ready") = <<Tag, Rdy>> /\ <<Tag>> \o Just("Error") = <<Tag, Err>>
      BY Ends, JoinTwo, Zenon
    <3>2. <<Tag, Err>> \o <<Rdy>> = <<Tag, Err, Rdy>>
      <4> DEFINE S == {Tag, Err, Rdy}
                 a == <<Tag>>
                 b == <<Err>>
                 c == <<Rdy>>
      <4>1. a \in Seq(S) /\ b \in Seq(S) /\ c \in Seq(S)
        OBVIOUS
      <4> HIDE DEF S, a, b, c
      <4>2. (a \o b) \o c = a \o (b \o c)
        BY <4>1, ConcatAssociative
      <4>3. a \o b = <<Tag, Err>> /\ b \o c = <<Err, Rdy>>
            /\ a \o <<Err, Rdy>> = <<Tag, Err, Rdy>>
        BY JoinTwo, JoinThree, Zenon DEF a, b, c
      <4> QED
        BY <4>2, <4>3 DEF c
    <3> QED
      BY <3>1, <3>2, Ends
  <2> QED
    BY <1>7, <2>1, <2>2, <2>3 DEF ServeSync
<1>8. CASE srv = "skip" /\ outcome = "open" /\ todo = <<"Sync">> /\ replies = <<Err>>
  <2>1. m = "Sync" /\ todo' = <<>>
    BY <1>3, <1>8
  <2>2. ServeSync
    BY <1>3, <1>8, <2>1 DEF Serve, Ignored
  <2>3. <<Err>> \o Just("Ready") = <<Err, Rdy>>
    BY Ends
  <2> QED
    BY <1>8, <2>1, <2>2, <2>3 DEF ServeSync
<1> QED
  <2>1. \/ srv = "copy" /\ outcome = "open" /\ replies = <<>>
             /\ todo = <<"Sync", "CopyDone", "Sync">>
        \/ srv = "copy" /\ outcome = "open" /\ replies = <<>> /\ todo = <<"CopyDone", "Sync">>
        \/ srv = "run" /\ outcome = "open" /\ todo = <<"Sync">> /\ replies = <<Tag>>
        \/ srv = "skip" /\ outcome = "open" /\ todo = <<"Sync">> /\ replies = <<Err>>
    BY <1>3 DEF Finishing
  <2> HIDE DEF Holds
  <2> QED
    BY <1>5, <1>6, <1>7, <1>8, <2>1

-----------------------------------------------------------------------------
(* The server after the call has returned.                                 *)

LEMMA LostStays ==
  ASSUME Lost, Server
  PROVE  Lost'
<1> DEFINE m == Head(todo)
           S == Kinds \ {"Query"}
<1>1. /\ todo # <<>> /\ todo' = Tail(todo)
      /\ \/ Serve(m)
         \/ m = "CopyFail" /\ ServeCopyFail
         \/ m = "Sync" /\ ServeSync
         \/ m = "Query" /\ ServeQuery
         \/ Ignored(m)
  BY ServerSteps
<1>2. todo \in Seq(S) /\ (outcome = "aborted" \/ (outcome = "open" /\ srv = "skip"))
  BY DEF Lost
<1>3. todo' \in Seq(S) /\ m \in S
  <2> HIDE DEF S
  <2> QED
    BY <1>1, <1>2
<1>4. m # "Query"
  BY <1>3
<1>5. outcome' = "aborted" \/ (outcome' = "open" /\ srv' = "skip")
  <2>1. CASE Serve(m)
    BY <1>2, <2>1 DEF Serve
  <2>2. CASE ServeCopyFail
    BY <1>2, <2>2 DEF ServeCopyFail
  <2>3. CASE ServeSync
    BY <1>2, <2>3 DEF ServeSync
  <2>4. CASE Ignored(m)
    BY <1>2, <2>4 DEF Ignored
  <2> QED
    BY <1>1, <1>4, <2>1, <2>2, <2>3, <2>4
<1> QED
  BY <1>3, <1>5 DEF Lost

LEMMA UnfinishedStays ==
  ASSUME Called, sql[1].kind = "copyIn", op = "copy_in", Unfinished, Server
  PROVE  Unfinished'
<1> DEFINE m == Head(todo)
           S == Kinds \ {"Query", "CopyDone"}
<1>1. /\ todo # <<>> /\ todo' = Tail(todo)
      /\ \/ Serve(m)
         \/ m = "CopyFail" /\ ServeCopyFail
         \/ m = "Sync" /\ ServeSync
         \/ m = "Query" /\ ServeQuery
         \/ Ignored(m)
  BY ServerSteps
<1>2. CASE Lost
  <2>1. Lost'
    BY <1>2, LostStays
  <2> QED
    BY <2>1 DEF Unfinished
<1>3. CASE outcome = "open" /\ srv = "copy" /\ todo \in Seq(S)
  <2>1. todo' \in Seq(S) /\ m \in S
    <3> HIDE DEF S
    <3> QED
      BY <1>1, <1>3
  <2>2. m # "Query" /\ m # "CopyDone"
    BY <2>1
  <2>3. \/ m = "CopyFail" /\ ServeCopyFail
        \/ Ignored(m)
    BY <1>1, <1>3, <2>2 DEF Serve, ServeSync
  <2>4. \/ outcome' = "open" /\ srv' = "copy"
        \/ outcome' = "open" /\ srv' = "skip"
    BY <1>3, <2>3 DEF Ignored, ServeCopyFail
  <2>5. todo' \in Seq(Kinds \ {"Query"})
    BY <2>1
  <2> QED
    BY <2>1, <2>4, <2>5 DEF Unfinished, Lost
<1>4. CASE outcome = "open" /\ srv = "run"
           /\ todo = <<"Bind", "Execute", "Sync", "CopyFail", "Sync">>
  <2>1. m = "Bind" /\ todo' = <<"Execute", "Sync", "CopyFail", "Sync">>
    BY <1>1, <1>4
  <2>2. Serve(m)
    BY <1>1, <1>4, <2>1 DEF Ignored
  <2>3. ~Copies(Answer("Bind"))
    <3> DEFINE b == Msg("BindComplete", 0, 0)
    <3>1. Answer("Bind") = <<b>> /\ b.type = "BindComplete"
      BY AnswerIs, Msgs
    <3> HIDE DEF b
    <3>2. <<b>>[Len(<<b>>)].type # "CopyInResponse"
      BY <3>1
    <3> QED
      BY <3>1, <3>2 DEF Copies
  <2>4. outcome' = "open" /\ srv' \in {"run", "skip"}
    BY <1>4, <2>1, <2>2, <2>3 DEF Serve
  <2>5. todo' \in Seq(Kinds \ {"Query"})
    BY <2>1 DEF Kinds
  <2> QED
    BY <2>1, <2>4, <2>5 DEF Unfinished, Lost
<1>5. CASE outcome = "open" /\ srv = "run" /\ todo = <<"Execute", "Sync", "CopyFail", "Sync">>
  <2>1. m = "Execute" /\ todo' = <<"Sync", "CopyFail", "Sync">>
    BY <1>1, <1>5
  <2>2. Serve(m)
    BY <1>1, <1>5, <2>1 DEF Ignored
  <2>3. Copies(Answer("Execute"))
    <3>1. 1 \in DOMAIN sql /\ RowLimit \in Nat /\ Answer("Execute") = Executed(1, RowLimit)
      BY Called1, BodyIs, AnswerIs
    <3> QED
      BY <3>1, SomeAnswer
  <2>4. outcome' = "open" /\ srv' \in {"copy", "skip"}
    BY <1>5, <2>1, <2>2, <2>3 DEF Serve
  <2>5. todo' \in Seq(Kinds \ {"Query"}) /\ todo' \in Seq(S)
    BY <2>1 DEF Kinds
  <2> QED
    BY <2>1, <2>4, <2>5 DEF Unfinished, Lost
<1> QED
  BY <1>2, <1>3, <1>4, <1>5 DEF Unfinished
-----------------------------------------------------------------------------
(* What the call promises depends on what it has read alone.               *)

LEMMA SamePromise ==
  ASSUME UNCHANGED <<op, sql, seen, result>>
  PROVE  (ResultExact' <=> ResultExact) /\ (NoFalseAlarm' <=> NoFalseAlarm)
<1>1. AllRows' = AllRows
  <2>1. \A i : RowsIn(i)' = RowsIn(i)
    BY DEF RowsIn
  <2> QED
    BY <2>1 DEF AllRows
<1>2. ResultExact' <=> ResultExact
  BY <1>1 DEF ResultExact
<1>3. NoFalseAlarm' <=> NoFalseAlarm
  BY DEF NoFalseAlarm, Fits
<1> QED
  BY <1>2, <1>3

LEMMA ServerSettles ==
  ASSUME Called, Settled, Server
  PROVE  Settled'
<1>1. todo # <<>> /\ UNCHANGED <<op, sql, stage, seen, result>>
  BY ServerSteps
<1>2. stage' = "done" /\ ~(result' = "ok" /\ op' \in Deciding)
  BY <1>1 DEF Settled, Deciding
<1>3. result' = "db" => Lost'
  BY <1>1, LostStays DEF Settled
<1>4. op' = "copy_in" /\ sql'[1].kind = "copyIn" =>
        /\ result' \in {"ok", "left", "db", "dropped"}
        /\ result' \notin {"ok", "left"} => Unfinished'
  BY <1>1, UnfinishedStays DEF Settled
<1>5. ResultExact' /\ NoFalseAlarm'
  BY <1>1, SamePromise DEF Settled
<1> QED
  BY <1>2, <1>3, <1>4, <1>5 DEF Settled

-----------------------------------------------------------------------------
(* What a call hears while it reads: a message of the answer, the error    *)
(* the server failed with, or the end of a transaction that committed.     *)

Heard(n, p, q, tl) ==
  \/ /\ p < q /\ p + 1 \in 1..Len(Whole) /\ M = Whole[p + 1] /\ M \in Message
     /\ Tail(replies) = SubSeq(Whole, (p + 1) + 1, q) \o tl
  \/ /\ p = q /\ M = Err /\ Lost
  \/ /\ p = q /\ M = Rdy /\ p = Len(Whole) /\ ~Copies(Whole)
     /\ outcome = "committed" /\ todo = <<>>

LEMMA TodoIs ==
  ASSUME Called, NEW n \in Nat, n <= Len(Request(op)), NEW S, Request(op) \in Seq(S)
  PROVE  /\ SubSeq(Request(op), n + 1, Len(Request(op))) \in Seq(S)
         /\ n = Len(Request(op)) => SubSeq(Request(op), n + 1, Len(Request(op))) = <<>>
<1>1. Len(Request(op)) \in Nat
  BY RequestIs
<1>2. SubSeq(Request(op), n + 1, Len(Request(op))) \in Seq(S)
  BY <1>1, WindowElements
<1>3. ASSUME n = Len(Request(op))
      PROVE  SubSeq(Request(op), n + 1, Len(Request(op))) = <<>>
  <2>1. SubSeq(Request(op), n + 1, n) = <<>>
    BY WindowEmpty
  <2> QED
    BY <1>3, <2>1
<1> QED
  BY <1>2, <1>3

LEMMA Hearing ==
  ASSUME Called, NEW n \in Nat, NEW p \in Nat, NEW q \in Nat, NEW tl \in Tails,
         Reading(n, p, q, tl), replies # <<>>
  PROVE  Heard(n, p, q, tl)
<1> DEFINE N == Len(Request(op))
<1>1. /\ n <= N /\ p <= q /\ q <= Len(Whole)
      /\ todo = SubSeq(Request(op), n + 1, N)
      /\ replies = SubSeq(Whole, p + 1, q) \o tl /\ Served(n, q, tl)
  BY DEF Reading
<1>2. Whole \in Seq(AnyMessage) /\ Whole \in Seq(Message) /\ Len(Whole) \in Nat /\ tl \in Seq(AnyMessage)
  <2>1. tl \in {<<>>, <<Err>>, <<Rdy>>, <<Err, Rdy>>}
    BY Ends
  <2>2. <<>> \in Seq(AnyMessage)
    OBVIOUS
  <2>3. tl \in Seq(AnyMessage)
    BY <2>1, <2>2, Ends
  <2> QED
    BY <2>3, WholeAny, WholeIs
<1>3. CASE p < q
  <2>1. /\ Head(replies) = Whole[p + 1] /\ p + 1 \in 1..Len(Whole)
        /\ Tail(replies) = SubSeq(Whole, (p + 1) + 1, q) \o tl
    <3> DEFINE r == SubSeq(Whole, p + 1, q) \o tl
    <3>1. /\ r # <<>> /\ Head(r) = Whole[p + 1]
          /\ Tail(r) = SubSeq(Whole, (p + 1) + 1, q) \o tl
          /\ p + 1 \in 1..Len(Whole) /\ Whole[p + 1] \in AnyMessage
      <4>1. Whole \in Seq(AnyMessage) /\ tl \in Seq(AnyMessage) /\ p < q /\ q <= Len(Whole)
        BY <1>1, <1>2, <1>3
      <4> QED
        BY <4>1, WindowRead, Zenon DEF r
    <3>2. replies = r
      BY <1>1
    <3> HIDE DEF r
    <3> QED
      BY <3>1, <3>2
  <2>2. Whole[p + 1] \in Message
    BY <1>2, <2>1
  <2> QED
    BY <1>3, <2>1, <2>2 DEF Heard, M
<1>4. CASE p = q
  <2>1. SubSeq(Whole, p + 1, p) = <<>>
    BY <1>2, WindowEmpty
  <2>2. replies = <<>> \o tl /\ <<>> \o tl = tl
    BY <1>1, <1>2, <1>4, <2>1, ConcatEmptySeq
  <2>3. tl # <<>>
    BY <2>2
  <2>4. N \in Nat /\ Request(op) \in Seq(Kinds)
        /\ (op \notin Simple => Request(op) \in Seq(Kinds \ {"Query"}))
    BY RequestIs
  <2>5. CASE srv = "skip" /\ outcome = "open" /\ tl = <<Err>> /\ op \notin Simple
    <3>1. todo \in Seq(Kinds \ {"Query"})
      BY <1>1, <2>4, <2>5, TodoIs
    <3> QED
      BY <1>4, <2>2, <2>5, <3>1 DEF Heard, M, Lost
  <2>6. CASE n = N /\ outcome = "aborted" /\ tl = <<Err, Rdy>>
    <3>1. todo = <<>>
      BY <1>1, <2>4, <2>6, TodoIs
    <3>2. todo \in Seq(Kinds \ {"Query"})
      BY <3>1
    <3> QED
      BY <1>4, <2>2, <2>6, <3>2 DEF Heard, M, Lost
  <2>7. CASE n = N /\ outcome = "committed" /\ tl = <<Rdy>> /\ q = Len(Whole) /\ ~Copies(Whole)
    <3>1. todo = <<>>
      BY <1>1, <2>4, <2>7, TodoIs
    <3> QED
      BY <1>4, <2>2, <2>7, <3>1 DEF Heard, M
  <2> QED
    BY <1>1, <2>3, <2>5, <2>6, <2>7, Ends DEF Served
<1> QED
  BY <1>1, <1>2, <1>3, <1>4

\* The call goes on.
LEMMA ReadOn ==
  ASSUME Called, NEW n \in Nat, NEW p \in Nat, NEW q \in Nat, NEW tl \in Tails,
         Reading(n, p, q, tl), p < q,
         Tail(replies) = SubSeq(Whole, (p + 1) + 1, q) \o tl,
         replies' = Tail(replies), UNCHANGED <<op, sql, srv, outcome, todo>>, At(p + 1)'
  PROVE  Reading(n, p + 1, q, tl)'
<1>1. Whole' = Whole /\ \A k : Upto(k)' = Upto(k)
  BY SameAnswer
<1>2. Served(n, q, tl)'
  BY <1>1 DEF Served, Copies, Reading
<1>3. n <= Len(Request(op)) /\ p + 1 <= q /\ q <= Len(Whole)
      /\ todo' = SubSeq(Request(op), n + 1, Len(Request(op)))
  BY DEF Reading
<1> QED
  BY <1>1, <1>2, <1>3 DEF Reading

\* It gives up, and if it copies data in tells the server.
LEMMA AbortIs ==
  Abort \in {<<>>, <<"CopyFail", "Sync">>} /\ (op = "copy_in" /\ stage # "finish" <=> Abort # <<>>)
BY DEF Abort

LEMMA LostGivenUp ==
  ASSUME Lost, todo' = todo \o Abort, UNCHANGED <<srv, outcome>>
  PROVE  Lost'
<1> DEFINE S == Kinds \ {"Query"}
<1>1. Abort \in Seq(S)
  <2>1. "CopyFail" \in S /\ "Sync" \in S
    BY DEF Kinds
  <2> HIDE DEF S
  <2>2. <<>> \in Seq(S) /\ <<"CopyFail", "Sync">> \in Seq(S)
    BY <2>1
  <2> QED
    BY <2>2, AbortIs, Zenon
<1>2. todo' \in Seq(S)
  <2> HIDE DEF S
  <2>1. todo \in Seq(S)
    BY DEF Lost, S
  <2> QED
    BY <1>1, <2>1, ConcatProperties
<1> QED
  BY <1>2 DEF Lost

LEMMA ReadError ==
  ASSUME Called, Lost, stage' = "done", result' = "db", todo' = todo \o Abort,
         UNCHANGED <<op, sql, srv, outcome, seen>>
  PROVE  Settled'
<1>1. Lost'
  BY LostGivenUp
<1>2. Unfinished'
  BY <1>1 DEF Unfinished
<1> QED
  BY <1>1, <1>2 DEF Settled, ResultExact, NoFalseAlarm

LEMMA ReadUnexpected ==
  ASSUME ~Fits, stage' = "done", result' = "unexpected", UNCHANGED <<op, sql>>
  PROVE  Settled'
<1>1. Fits' <=> Fits
  BY DEF Fits
<1>2. ~(op' = "copy_in" /\ sql'[1].kind = "copyIn")
  BY DEF Fits
<1> QED
  BY <1>1, <1>2 DEF Settled, ResultExact, NoFalseAlarm

LEMMA ReadTooMany ==
  ASSUME stage' = "done", result' \in {"rowcount", "columncount"}, op # "copy_in",
         UNCHANGED <<op, sql>>
  PROVE  Settled'
BY DEF Settled, ResultExact, NoFalseAlarm

LEMMA ReadToEnd ==
  ASSUME stage' = "done", result' = "ok", UNCHANGED <<op, sql, outcome, todo>>,
         op \in Deciding => outcome = "committed" /\ todo = <<>>, ResultExact'
  PROVE  Settled'
BY DEF Settled, NoFalseAlarm, Deciding

LEMMA Refusing ==
  ASSUME Called, NEW n \in Nat, NEW p \in Nat, NEW q \in Nat, NEW tl \in Tails,
         Heard(n, p, q, tl), NEW E, Refused(E), ReadMessage,
         M = Err \/ ~Fits
  PROVE  Settled'
<1>1. /\ stage' = "done" /\ todo' = todo \o Abort /\ UNCHANGED seen
      /\ result' = IF M.type = "Error" THEN "db" ELSE "unexpected"
  BY DEF Refused, Stop
<1>2. UNCHANGED <<op, sql, srv, outcome>>
  BY DEF ReadMessage
<1>3. CASE M.type = "Error"
  <2>1. Lost
    <3>1. M \notin Message /\ M # Rdy
      BY <1>3, Ends DEF Message, Types
    <3> QED
      BY <3>1 DEF Heard
  <2> QED
    BY <1>1, <1>2, <1>3, <2>1, ReadError
<1>4. CASE M.type # "Error"
  <2>1. ~Fits
    BY <1>4, Ends
  <2> QED
    BY <1>1, <1>2, <1>4, <2>1, ReadUnexpected
<1> QED
  BY <1>3, <1>4
\* What becomes of a call that reads.
Goes(n, p, q, tl) == (Reading(n, p + 1, q, tl)' /\ result' = "none") \/ Settled'

LEMMA Continues ==
  ASSUME Called, NEW n \in Nat, NEW p \in Nat, NEW q \in Nat, NEW tl \in Tails,
         Reading(n, p, q, tl), Heard(n, p, q, tl), M \in Message, ReadMessage,
         result = "none", UNCHANGED <<todo, result>>, At(p + 1)'
  PROVE  Goes(n, p, q, tl)
<1>1. M # Err /\ M # Rdy
  BY Ends DEF Message, Types
<1>2. p < q /\ Tail(replies) = SubSeq(Whole, (p + 1) + 1, q) \o tl
  BY <1>1 DEF Heard
<1>3. Reading(n, p + 1, q, tl)'
  BY <1>2, ReadOn DEF ReadMessage
<1> QED
  BY <1>3 DEF Goes

\* The first rows of a statement.
LEMMA FirstRowsAre ==
  ASSUME NEW i \in Nat, NEW n \in Nat
  PROVE  /\ FirstRows(i, n) \in Seq(Nat \X Nat) /\ Len(FirstRows(i, n)) = n
         /\ FirstRows(i, 0) = <<>> /\ (n > 0 => FirstRows(i, n) # <<>>)
         /\ Append(FirstRows(i, n), <<i, n + 1>>) = FirstRows(i, n + 1)
<1>1. \A k \in Nat : /\ FirstRows(i, k) \in Seq(Nat \X Nat) /\ Len(FirstRows(i, k)) = k
                     /\ \A j \in 1..k : FirstRows(i, k)[j] = <<i, j>>
  <2> TAKE k \in Nat
  <2>1. FirstRows(i, k) \in [1..k -> Nat \X Nat]
    BY DEF FirstRows
  <2>2. FirstRows(i, k) \in Seq(Nat \X Nat) /\ Len(FirstRows(i, k)) = k
    BY <2>1, FunctionSeq
  <2>3. \A j \in 1..k : FirstRows(i, k)[j] = <<i, j>>
    BY DEF FirstRows
  <2> QED
    BY <2>2, <2>3
<1>2. FirstRows(i, 0) = <<>>
  BY <1>1, EmptySeq
<1>3. n > 0 => FirstRows(i, n) # <<>>
  BY <1>1
<1>4. Append(FirstRows(i, n), <<i, n + 1>>) = FirstRows(i, n + 1)
  <2> DEFINE s == FirstRows(i, n)
             t == FirstRows(i, n + 1)
             e == <<i, n + 1>>
  <2>1. /\ s \in Seq(Nat \X Nat) /\ Len(s) = n /\ t \in Seq(Nat \X Nat) /\ Len(t) = n + 1
        /\ \A j \in 1..n : s[j] = <<i, j>>
        /\ \A j \in 1..n + 1 : t[j] = <<i, j>>
    <3>1. n + 1 \in Nat
      OBVIOUS
    <3> QED
      BY <1>1, <3>1, Zenon
  <2>2. e \in Nat \X Nat /\ e = t[n + 1]
    BY <2>1
  <2> HIDE DEF s, t, e
  <2>3. /\ Append(s, e) \in Seq(Nat \X Nat) /\ Len(Append(s, e)) = n + 1
        /\ \A j \in 1..n : Append(s, e)[j] = s[j]
        /\ Append(s, e)[n + 1] = e
    BY <2>1, <2>2, AppendProperties
  <2>4. \A j \in 1..n + 1 : Append(s, e)[j] = t[j]
    <3>1. SUFFICES ASSUME NEW j \in 1..n + 1 PROVE Append(s, e)[j] = t[j]
      OBVIOUS
    <3>2. CASE j = n + 1
      BY <2>2, <2>3, <3>2
    <3>3. CASE j \in 1..n
      BY <2>1, <2>3, <3>3
    <3>4. j = n + 1 \/ j \in 1..n
      OBVIOUS
    <3> QED
      BY <3>2, <3>3, <3>4, Zenon
  <2>5. Append(s, e) = t
    BY <2>1, <2>3, <2>4, SeqEqual
  <2> QED
    BY <2>5 DEF s, t, e
<1> QED
  BY <1>1, <1>2, <1>3, <1>4

LEMMA AtBind ==
  ASSUME Called, NEW p \in Nat, At(p), stage = "bind"
  PROVE  /\ op \in (RowOps \ Typed) \cup {"execute", "bind", "copy_out", "copy_in"}
         /\ p = 0 /\ seen.rows = <<>>
BY DEF At, AtRows

LEMMA BindReads ==
  ASSUME Called, NEW n \in Nat, NEW p \in Nat, NEW q \in Nat, NEW tl \in Tails,
         Reading(n, p, q, tl), Heard(n, p, q, tl), result = "none", ReadBindComplete
  PROVE  Goes(n, p, q, tl)
<1>1. /\ op \in (RowOps \ Typed) \cup {"execute", "bind", "copy_out", "copy_in"}
      /\ p = 0 /\ seen.rows = <<>> /\ stage = "bind"
  BY AtBind DEF Reading, ReadBindComplete, Hears
<1>2. op \in Bound \cup {"bind"}
  BY <1>1 DEF Bound
<1>3. Len(Before) = 1 /\ Len(Whole) >= 1 /\ Whole[1].type = "BindComplete"
  <2>1. Before = <<Msg("BindComplete", 0, 0)>>
    BY <1>2, BeforeIs
  <2>2. Len(Before) = 1 /\ Before[1] = Msg("BindComplete", 0, 0)
    BY <2>1
  <2>3. Len(Body) \in Nat
    BY BodyIs
  <2> QED
    BY <2>2, <2>3, WholeIs, Msgs
<1>4. CASE M \in Message
  <2>1. M # Err /\ M # Rdy
    BY <1>4, Ends DEF Message, Types
  <2>2. M.type = "BindComplete"
    BY <1>1, <1>3, <2>1 DEF Heard
  <2>3. /\ UNCHANGED seen /\ ReadMessage
        /\ CASE op = "bind" -> Returns("ok")
             [] op = "execute" -> Continue("count")
             [] op \in {"copy_out", "copy_in"} -> Continue(op)
             [] OTHER -> Continue("rows")
    BY <2>2 DEF ReadBindComplete, Refused
  <2>4. UNCHANGED <<op, sql, outcome>> /\ Before' = Before /\ Rows' = Rows
    BY <2>3, SameAnswer DEF ReadMessage
  <2>5. CASE op = "bind"
    <3>1. stage' = "done" /\ result' = "ok" /\ todo' = todo
      BY <2>3, <2>5 DEF Returns
    <3>2. ResultExact'
      BY <2>4, <2>5 DEF ResultExact, RowOps, One, Opt, Scalar, Typed
    <3>3. op \notin Deciding
      BY <2>5 DEF Deciding
    <3> QED
      BY <2>4, <3>1, <3>2, <3>3, ReadToEnd DEF Goes
  <2>6. CASE op = "execute"
    <3>1. stage' = "count" /\ UNCHANGED <<todo, result>>
      BY <2>3, <2>6 DEF Continue
    <3>2. AtCount(p + 1)'
      <4>1. p + 1 = Len(Before') /\ p + 1 = 1
        BY <1>1, <1>3, <2>4
      <4>2. p + 1 >= Len(Before') /\ ~(p + 1 > Len(Before'))
        BY <1>3, <2>4, <4>1
      <4> QED
        BY <4>1, <4>2, Zenon DEF AtCount
    <3>3. At(p + 1)'
      BY <2>4, <2>6, <3>1, <3>2 DEF At
    <3> QED
      BY <1>4, <2>3, <3>1, <3>3, Continues
  <2>7. CASE op \in {"copy_out", "copy_in"}
    <3>1. stage' = op /\ UNCHANGED <<todo, result>>
      BY <2>3, <2>7 DEF Continue
    <3>2. At(p + 1)'
      BY <1>1, <2>3, <2>4, <2>7, <3>1 DEF At
    <3> QED
      BY <1>4, <2>3, <3>1, <3>2, Continues
  <2>8. CASE op \in RowOps \ Typed
    <3>1. op \notin {"bind", "execute", "copy_out", "copy_in"}
      BY <2>8 DEF RowOps, One, Opt, Scalar, Typed
    <3>2. stage' = "rows" /\ UNCHANGED <<todo, result>>
      BY <2>3, <3>1 DEF Continue
    <3>3. AtRows(p + 1)'
      <4>1. Least(0, Rows) = 0
        <5>1. Rows \in Nat
          <6>1. 1 \in DOMAIN sql /\ sql[1] \in Statement
            BY Called1
          <6>2. sql[1].rows \in Nat
            BY <6>1, StatementIs DEF Called
          <6> QED
            BY <6>2, BodyIs DEF Rows
        <5> QED
          BY <5>1 DEF Least
      <4>2. (p + 1) - Len(Before) = 0 /\ p + 1 = Len(Before)
        BY <1>1, <1>3
      <4>3. seen' = seen /\ seen.rows = <<>> /\ FirstRows(1, 0) = <<>>
        BY <1>1, <2>3, FirstRowsAre
      <4> QED
        BY <2>4, <3>2, <4>1, <4>2, <4>3 DEF AtRows
    <3>4. At(p + 1)'
      BY <2>4, <2>8, <3>3 DEF At
    <3> QED
      BY <1>4, <2>3, <3>2, <3>4, Continues
  <2> QED
    BY <1>1, <2>5, <2>6, <2>7, <2>8
<1>5. CASE M = Err
  <2>1. Refused({"BindComplete"}) /\ ReadMessage
    BY <1>5, Ends DEF ReadBindComplete
  <2> QED
    BY <1>5, <2>1, Refusing DEF Goes
<1>6. CASE M = Rdy /\ p = Len(Whole)
  BY <1>1, <1>3, <1>6
<1> QED
  BY <1>4, <1>5, <1>6 DEF Heard

LEMMA AtSync ==
  ASSUME Called, NEW p \in Nat, At(p), stage = "sync"
  PROVE  op = "sync" /\ p = 0
BY DEF At, AtRows

LEMMA SyncReads ==
  ASSUME Called, NEW n \in Nat, NEW p \in Nat, NEW q \in Nat, NEW tl \in Tails,
         Reading(n, p, q, tl), Heard(n, p, q, tl), result = "none", ReadSync
  PROVE  Goes(n, p, q, tl)
<1>1. op = "sync" /\ p = 0
  BY AtSync DEF Reading, ReadSync, Hears
<1>2. Len(Whole) = 0
  <2>1. Before = <<>> /\ Body = <<>>
    BY <1>1, BeforeIs, BodyIs
  <2> QED
    BY <2>1, WholeIs
<1>4. CASE M = Rdy /\ outcome = "committed" /\ todo = <<>>
  <2>1. /\ stage' = "done" /\ result' = "ok" /\ todo' = todo
        /\ UNCHANGED <<op, sql, outcome>>
    BY <1>4, Ends DEF ReadSync, Returns, Refused, ReadMessage
  <2>2. ResultExact'
    BY <1>1, <2>1 DEF ResultExact, RowOps, One, Opt, Scalar, Typed
  <2> QED
    BY <1>4, <2>1, <2>2, ReadToEnd DEF Goes
<1>5. CASE M = Err
  <2>1. Refused({"Ready"}) /\ ReadMessage
    BY <1>5, Ends DEF ReadSync
  <2> QED
    BY <1>5, <2>1, Refusing DEF Goes
<1> QED
  BY <1>1, <1>2, <1>4, <1>5 DEF Heard
\* prepare.
LEMMA AtPrepared ==
  ASSUME Called, NEW p \in Nat, At(p), stage \in {"parse", "params", "columns"}
  PROVE  /\ op = "prepare" /\ p \in 0..2
         /\ stage = "parse" => p = 0
         /\ stage = "params" => p = 1
         /\ stage = "columns" => p = 2
<1>1. op = "prepare" /\ p < 3 /\ stage = <<"parse", "params", "columns">>[p + 1]
  BY DEF At, AtRows, Simple
<1> QED
  BY <1>1

LEMMA PreparedReads ==
  ASSUME Called, NEW n \in Nat, NEW p \in Nat, NEW q \in Nat, NEW tl \in Tails,
         Reading(n, p, q, tl), Heard(n, p, q, tl), result = "none", ReadPrepared
  PROVE  Goes(n, p, q, tl)
<1>1. /\ op = "prepare" /\ p \in 0..2
      /\ stage = "parse" => p = 0
      /\ stage = "params" => p = 1
      /\ stage = "columns" => p = 2
      /\ stage \in {"parse", "params", "columns"}
  BY AtPrepared DEF Reading, ReadPrepared, Hears
<1>2. /\ Len(Whole) >= 3 /\ Whole[1].type = "ParseComplete"
      /\ Whole[2].type = "ParameterDescription" /\ Whole[3].type \in {"RowDescription", "NoData"}
  <2>1. PICK d \in Message :
           /\ Before = <<Msg("ParseComplete", 0, 0), Msg("ParameterDescription", 0, 0), d>>
           /\ d.type \in {"RowDescription", "NoData"}
    BY <1>1, BeforeIs
  <2>2. /\ Len(Before) = 3 /\ Before[1] = Msg("ParseComplete", 0, 0)
        /\ Before[2] = Msg("ParameterDescription", 0, 0) /\ Before[3] = d
    BY <2>1
  <2>3. Len(Body) \in Nat
    BY BodyIs
  <2> QED
    BY <2>1, <2>2, <2>3, WholeIs, Msgs
<1>3. ReadMessage /\ UNCHANGED seen
  BY DEF ReadPrepared
<1>4. UNCHANGED <<op, sql, outcome>>
  BY <1>3 DEF ReadMessage
<1>5. CASE M \in Message
  <2>1. M # Err /\ M # Rdy
    BY <1>5, Ends DEF Message, Types
  <2>2. M = Whole[p + 1]
    BY <2>1 DEF Heard
  <2>3. CASE stage = "parse"
    <3>1. stage' = "params" /\ UNCHANGED <<todo, result>>
      BY <1>1, <1>2, <2>2, <2>3 DEF ReadPrepared, Hears, Refused, Continue
    <3>2. At(p + 1)'
      BY <1>1, <1>4, <2>3, <3>1 DEF At
    <3> QED
      BY <1>3, <1>5, <3>1, <3>2, Continues
  <2>4. CASE stage = "params"
    <3>1. stage' = "columns" /\ UNCHANGED <<todo, result>>
      BY <1>1, <1>2, <2>2, <2>4 DEF ReadPrepared, Hears, Refused, Continue
    <3>2. At(p + 1)'
      BY <1>1, <1>4, <2>4, <3>1 DEF At
    <3> QED
      BY <1>3, <1>5, <3>1, <3>2, Continues
  <2>5. CASE stage = "columns"
    <3>1. stage' = "done" /\ result' = "ok" /\ todo' = todo
      BY <1>1, <1>2, <2>2, <2>5 DEF ReadPrepared, Hears, Refused, Returns
    <3>2. ResultExact'
      BY <1>1, <1>4 DEF ResultExact, RowOps, One, Opt, Scalar, Typed
    <3>3. op \notin Deciding
      BY <1>1 DEF Deciding
    <3> QED
      BY <1>4, <3>1, <3>2, <3>3, ReadToEnd DEF Goes
  <2> QED
    BY <1>1, <2>3, <2>4, <2>5
<1>6. CASE M = Err
  <2>1. \E E : Refused(E)
    BY <1>6, Ends DEF ReadPrepared
  <2> QED
    BY <1>3, <1>6, <2>1, Refusing DEF Goes
<1> QED
  BY <1>1, <1>2, <1>5, <1>6 DEF Heard

\* The start of a copy, in or out.
LEMMA AtCopying ==
  ASSUME Called, NEW p \in Nat, At(p), stage \in {"copy_in", "copy_out"}
  PROVE  p = 1 /\ op = stage /\ (stage = "copy_out" => seen.rows = <<>>)
BY DEF At, AtRows, Simple

LEMMA CopyingIs ==
  ASSUME Called, op \in {"copy_in", "copy_out"}
  PROVE  /\ Len(Before) = 1 /\ Len(Whole) >= 2
         /\ op = "copy_in" => (Whole[2].type = "CopyInResponse" <=> sql[1].kind = "copyIn")
         /\ op = "copy_out" => (Whole[2].type = "CopyOutResponse" <=> sql[1].kind = "copyOut")
<1>1. op \in Bound
  BY DEF Bound
<1>2. Before = <<Msg("BindComplete", 0, 0)>> /\ Body = Executed(1, 0)
  BY <1>1, BeforeIs, BodyIs
<1>3. Len(Before) = 1
  BY <1>2
<1>4. 1 \in DOMAIN sql /\ sql[1] \in Statement
  BY Called1
<1>5. sql[1].kind \in {"select", "command", "empty", "copyIn", "copyOut"} /\ sql[1].rows \in Nat
  BY <1>4, StatementIs DEF Called
<1>6. /\ Body \in Seq(Message) /\ Len(Body) >= 1
      /\ sql[1].kind = "copyIn" => Body[1].type = "CopyInResponse"
      /\ sql[1].kind = "copyOut" => Body[1].type = "CopyOutResponse"
  BY <1>2, <1>4, SomeAnswer
<1>7. /\ sql[1].kind = "command" => Body[1].type = "CommandComplete"
      /\ sql[1].kind = "empty" => Body[1].type = "EmptyQuery"
  BY <1>2, <1>4, Otherwise, Msgs
<1>8. sql[1].kind = "select" => Body[1].type \in {"DataRow", "CommandComplete"}
  <2>1. SUFFICES ASSUME sql[1].kind = "select"
                 PROVE  Body[1].type \in {"DataRow", "CommandComplete"}
    OBVIOUS
  <2>2. /\ \A j \in 1..sql[1].rows : Body[j] = Msg("DataRow", 1, j)
        /\ Body[sql[1].rows + 1] = Msg("CommandComplete", 1, sql[1].rows)
    BY <1>2, <1>4, <2>1, Selected
  <2>3. CASE sql[1].rows = 0
    BY <2>2, <2>3, Msgs
  <2>4. CASE sql[1].rows > 0
    <3>1. 1 \in 1..sql[1].rows
      BY <1>5, <2>4
    <3> QED
      BY <2>2, <3>1, Msgs
  <2> QED
    BY <1>5, <2>3, <2>4
<1>9. Whole[2] = Body[1] /\ Len(Whole) >= 2
  <2>1. Whole[Len(Before) + 1] = Body[1] /\ Len(Whole) = Len(Before) + Len(Body)
    BY <1>6, WholeIs
  <2> QED
    BY <1>3, <1>6, <2>1
<1> QED
  BY <1>3, <1>5, <1>6, <1>7, <1>8, <1>9

LEMMA CopyInReads ==
  ASSUME Called, NEW n \in Nat, NEW p \in Nat, NEW q \in Nat, NEW tl \in Tails,
         Reading(n, p, q, tl), Heard(n, p, q, tl), result = "none", ReadCopyIn
  PROVE  Goes(n, p, q, tl)
<1>1. p = 1 /\ op = "copy_in"
  BY AtCopying DEF Reading, ReadCopyIn, Hears
<1>2. Len(Whole) >= 2 /\ (Whole[2].type = "CopyInResponse" <=> sql[1].kind = "copyIn")
  BY <1>1, CopyingIs
<1>3. ReadMessage /\ UNCHANGED <<op, sql>>
  BY DEF ReadCopyIn, ReadMessage
<1>4. CASE M \in Message /\ M.type = "CopyInResponse"
  <2>1. M # Err /\ M # Rdy
    BY <1>4, Ends DEF Message, Types
  <2>2. sql[1].kind = "copyIn"
    BY <1>1, <1>2, <1>4, <2>1 DEF Heard
  <2>3. stage' = "sink" /\ UNCHANGED <<todo, result>>
    BY <1>4 DEF ReadCopyIn, Refused, Continue
  <2>4. At(p + 1)'
    BY <1>1, <1>3, <2>2, <2>3 DEF At
  <2> QED
    BY <1>3, <1>4, <2>3, <2>4, Continues
<1>5. CASE M \in Message /\ M.type # "CopyInResponse"
  <2>1. M # Err /\ M # Rdy
    BY <1>5, Ends DEF Message, Types
  <2>2. sql[1].kind # "copyIn"
    BY <1>1, <1>2, <1>5, <2>1 DEF Heard
  <2>3. Refused({"CopyInResponse"}) /\ ~Fits
    BY <1>1, <1>5, <2>2 DEF ReadCopyIn, Fits
  <2> QED
    BY <1>3, <2>3, Refusing DEF Goes
<1>6. CASE M = Err
  <2>1. Refused({"CopyInResponse"})
    BY <1>6, Ends DEF ReadCopyIn
  <2> QED
    BY <1>3, <1>6, <2>1, Refusing DEF Goes
<1> QED
  BY <1>1, <1>2, <1>4, <1>5, <1>6 DEF Heard

LEMMA CopyOutReads ==
  ASSUME Called, NEW n \in Nat, NEW p \in Nat, NEW q \in Nat, NEW tl \in Tails,
         Reading(n, p, q, tl), Heard(n, p, q, tl), result = "none", ReadCopyOut
  PROVE  Goes(n, p, q, tl)
<1>1. p = 1 /\ op = "copy_out" /\ seen.rows = <<>>
  BY AtCopying DEF Reading, ReadCopyOut, Hears
<1>2. Len(Whole) >= 2 /\ (Whole[2].type = "CopyOutResponse" <=> sql[1].kind = "copyOut")
  BY <1>1, CopyingIs
<1>3. ReadMessage /\ UNCHANGED <<op, sql>>
  BY DEF ReadCopyOut, ReadMessage
<1>4. CASE M \in Message /\ M.type = "CopyOutResponse"
  <2>1. M # Err /\ M # Rdy
    BY <1>4, Ends DEF Message, Types
  <2>2. sql[1].kind = "copyOut"
    BY <1>1, <1>2, <1>4, <2>1 DEF Heard
  <2>3. stage' = "data" /\ UNCHANGED <<todo, result, seen>>
    BY <1>4 DEF ReadCopyOut, Refused, Continue
  <2>4. sql[1].rows \in Nat /\ FirstRows(1, 0) = <<>>
    <3>1. sql[1] \in Statement
      BY Called1
    <3> QED
      BY <3>1, StatementIs, FirstRowsAre DEF Called
  <2>5. p + 1 = 2 /\ (p + 1) - 2 = 0 /\ p + 1 <= 2 + sql[1].rows
    BY <1>1, <2>4
  <2>6. At(p + 1)'
    BY <1>1, <1>3, <2>2, <2>3, <2>4, <2>5 DEF At
  <2> QED
    BY <1>3, <1>4, <2>3, <2>6, Continues
<1>5. CASE M \in Message /\ M.type # "CopyOutResponse"
  <2>1. M # Err /\ M # Rdy
    BY <1>5, Ends DEF Message, Types
  <2>2. sql[1].kind # "copyOut"
    BY <1>1, <1>2, <1>5, <2>1 DEF Heard
  <2>3. Refused({"CopyOutResponse"}) /\ ~Fits
    BY <1>1, <1>5, <2>2 DEF ReadCopyOut, Fits
  <2> QED
    BY <1>3, <2>3, Refusing DEF Goes
<1>6. CASE M = Err
  <2>1. Refused({"CopyOutResponse"})
    BY <1>6, Ends DEF ReadCopyOut
  <2> QED
    BY <1>3, <1>6, <2>1, Refusing DEF Goes
<1> QED
  BY <1>1, <1>2, <1>4, <1>5, <1>6 DEF Heard

\* The stream of a copy to the client.
LEMMA AllOfOne ==
  ASSUME Called, op \notin Simple
  PROVE  AllRows = RowsIn(1)
<1>1. Len(sql) = 1 /\ sql[1] \in Statement
  <2>1. Len(sql) = 1 /\ DOMAIN sql = 1..Len(sql) /\ sql \in Seq(Statement)
    BY Called1
  <2> QED
    BY <2>1
<1>2. sql[1].rows \in Nat
  BY <1>1, StatementIs DEF Called
<1>3. RowsIn(1) \in Seq(Nat \X Nat)
  <2>1. RowsIn(1) = FirstRows(1, sql[1].rows) \/ RowsIn(1) = <<>>
    BY DEF RowsIn, FirstRows
  <2>2. FirstRows(1, sql[1].rows) \in Seq(Nat \X Nat)
    BY <1>2, FirstRowsAre
  <2>3. <<>> \in Seq(Nat \X Nat)
    OBVIOUS
  <2> QED
    BY <2>1, <2>2, <2>3, Zenon
<1>4. [i \in 1..Len(sql) |-> RowsIn(i)] = <<RowsIn(1)>>
  <2> DEFINE f == [i \in 1..Len(sql) |-> RowsIn(i)]
             T == Seq(Nat \X Nat)
             r == RowsIn(1)
  <2>1. 1..Len(sql) = {1} /\ DOMAIN f = 1..Len(sql) /\ f[1] = r
    BY <1>1
  <2>2. f \in [1..1 -> T]
    <3>1. \A i \in 1..Len(sql) : RowsIn(i) \in T
      BY <1>3, <2>1
    <3> QED
      BY <1>1, <3>1
  <2>4. r \in T
    BY <1>3
  <2> HIDE DEF T, r, f
  <2>3. f \in Seq(T) /\ Len(f) = 1
    BY <2>2, FunctionSeq
  <2>5. <<r>> \in Seq(T) /\ Len(<<r>>) = 1 /\ <<r>>[1] = r
    BY <2>4
  <2>6. f = <<r>>
    BY <2>1, <2>3, <2>5, SeqEqual
  <2> QED
    BY <2>6 DEF f, r
<1>5. FlattenSeq(<<RowsIn(1)>>) = RowsIn(1)
  BY <1>3, FlattenOne
<1> QED
  BY <1>4, <1>5 DEF AllRows
\* What a call that executes one statement is answered with.
LEMMA ExecuteIs ==
  ASSUME Called, op \in Bound \cup Described \cup {"query_portal"}
  PROVE  LET b == Len(Before)
             s == sql[1]
         IN /\ b \in Nat /\ Rows \in Nat /\ s.rows \in Nat /\ Len(Whole) > b
            /\ s.kind \in {"select", "command", "empty", "copyIn", "copyOut"}
            /\ op # "query_portal" /\ s.kind = "select" => Rows = s.rows
            /\ op = "query_portal" => Rows <= PortalRows
            /\ s.kind # "select" => Rows = 0
            /\ s.kind = "select" =>
                 /\ Len(Whole) = b + Rows + 1
                 /\ \A j \in 1..Rows : Whole[b + j] = Msg("DataRow", 1, j)
                 /\ Whole[b + Rows + 1].type \in {"CommandComplete", "PortalSuspended"}
                 /\ op # "query_portal" =>
                      Whole[b + Rows + 1] = Msg("CommandComplete", 1, s.rows)
            /\ s.kind = "command" =>
                 Len(Whole) = b + 1 /\ Whole[b + 1] = Msg("CommandComplete", 1, s.rows)
            /\ s.kind = "empty" => Len(Whole) = b + 1 /\ Whole[b + 1].type = "EmptyQuery"
            /\ s.kind = "copyIn" => Whole[b + 1].type = "CopyInResponse"
            /\ s.kind = "copyOut" =>
                 /\ Whole[b + 1].type = "CopyOutResponse" /\ Len(Whole) = b + s.rows + 3
                 /\ \A j \in 1..s.rows : Whole[b + j + 1] = Msg("CopyData", 1, j)
                 /\ Whole[b + s.rows + 2].type = "CopyDone"
<1> DEFINE b == Len(Before)
           s == sql[1]
<1>1. /\ Body = Executed(1, RowLimit) /\ RowLimit \in Nat /\ RowLimit \in {0, 1}
      /\ op # "query_portal" => RowLimit = 0
      /\ op = "query_portal" => RowLimit = PortalRows
  BY BodyIs DEF RowLimit
<1>2. 1 \in DOMAIN sql /\ s \in Statement
  BY Called1
<1>3. s.kind \in {"select", "command", "empty", "copyIn", "copyOut"} /\ s.rows \in Nat
  BY <1>2, StatementIs DEF Called
<1>4. /\ Body \in Seq(Message) /\ Len(Body) >= 1 /\ Before \in Seq(Message)
      /\ s.kind = "copyIn" => Body[1].type = "CopyInResponse"
      /\ s.kind = "copyOut" => Body[1].type = "CopyOutResponse"
  BY <1>1, <1>2, SomeAnswer, WholeIs
<1>5. /\ b \in Nat /\ Len(Body) \in Nat /\ Len(Whole) = b + Len(Body)
      /\ \A j \in 1..Len(Body) : Whole[b + j] = Body[j]
  BY <1>4, WholeIs
<1>6. /\ Rows \in Nat
      /\ op # "query_portal" /\ s.kind = "select" => Rows = s.rows
      /\ op = "query_portal" => Rows <= PortalRows
      /\ s.kind # "select" => Rows = 0
  BY <1>1, <1>3 DEF Rows, PortalRows
<1>7. ASSUME s.kind = "select"
      PROVE  /\ Len(Whole) = b + Rows + 1
             /\ \A j \in 1..Rows : Whole[b + j] = Msg("DataRow", 1, j)
             /\ Whole[b + Rows + 1].type \in {"CommandComplete", "PortalSuspended"}
             /\ op # "query_portal" =>
                  Whole[b + Rows + 1] = Msg("CommandComplete", 1, s.rows)
  <2>1. Rows = IF RowLimit > 0 /\ s.rows >= RowLimit THEN RowLimit ELSE s.rows
    BY <1>7 DEF Rows
  <2>2. /\ Len(Body) = Rows + 1
        /\ \A j \in 1..Rows : Body[j] = Msg("DataRow", 1, j)
        /\ Body[Rows + 1] = IF RowLimit > 0 /\ s.rows >= RowLimit
                              THEN Msg("PortalSuspended", 0, 0)
                              ELSE Msg("CommandComplete", 1, s.rows)
    BY <1>1, <1>2, <1>7, <2>1, Selected
  <2>3. Rows + 1 \in 1..Len(Body) /\ \A j \in 1..Rows : j \in 1..Len(Body)
    BY <1>6, <2>2
  <2>4. Whole[b + (Rows + 1)] = Body[Rows + 1]
        /\ \A j \in 1..Rows : Whole[b + j] = Msg("DataRow", 1, j)
    BY <1>5, <2>2, <2>3
  <2>5. b + (Rows + 1) = b + Rows + 1
    BY <1>5, <1>6
  <2> QED
    BY <1>1, <1>5, <2>2, <2>4, <2>5, Msgs
<1>8. /\ s.kind = "command" =>
           Len(Whole) = b + 1 /\ Whole[b + 1] = Msg("CommandComplete", 1, s.rows)
      /\ s.kind = "empty" => Len(Whole) = b + 1 /\ Whole[b + 1].type = "EmptyQuery"
  <2>1. Whole[b + 1] = Body[1]
    BY <1>4, <1>5
  <2>2. /\ s.kind = "command" => Body = <<Msg("CommandComplete", 1, s.rows)>>
        /\ s.kind = "empty" => Body = <<Msg("EmptyQuery", 0, 0)>>
    BY <1>1, <1>2, Otherwise
  <2> HIDE DEF s
  <2> QED
    BY <1>5, <2>1, <2>2, Msgs
<1>9. ASSUME s.kind = "copyOut"
      PROVE  /\ Len(Whole) = b + s.rows + 3
             /\ \A j \in 1..s.rows : Whole[b + j + 1] = Msg("CopyData", 1, j)
             /\ Whole[b + s.rows + 2].type = "CopyDone"
  <2>1. /\ Len(Body) = s.rows + 3
        /\ \A j \in 1..s.rows : Body[j + 1] = Msg("CopyData", 1, j)
        /\ Body[s.rows + 2] = Msg("CopyDone", 0, 0)
    BY <1>1, <1>2, <1>9, CopiedOut
  <2>2. s.rows + 2 \in 1..Len(Body) /\ b + (s.rows + 2) = b + s.rows + 2
        /\ b + (s.rows + 3) = b + s.rows + 3
    <3> HIDE DEF b, s
    <3> QED
      BY <1>3, <1>5, <2>1
  <2>3. ASSUME NEW j \in 1..s.rows PROVE Whole[b + j + 1] = Msg("CopyData", 1, j)
    <3>1. j + 1 \in 1..Len(Body) /\ b + (j + 1) = b + j + 1
      BY <1>3, <1>5, <2>1
    <3> QED
      BY <1>5, <2>1, <3>1
  <2> QED
    BY <1>5, <2>1, <2>2, <2>3, Msgs
<1>10. /\ Len(Whole) > b /\ Whole[b + 1] = Body[1]
  BY <1>4, <1>5
<1> QED
  BY <1>3, <1>4, <1>5, <1>6, <1>7, <1>8, <1>9, <1>10

LEMMA AtData ==
  ASSUME Called, NEW p \in Nat, At(p), stage = "data"
  PROVE  /\ op = "copy_out" /\ p >= 2 /\ sql[1].kind = "copyOut" /\ p <= 2 + sql[1].rows
         /\ seen.rows = FirstRows(1, p - 2)
BY DEF At, AtRows, Simple

LEMMA DataReads ==
  ASSUME Called, NEW n \in Nat, NEW p \in Nat, NEW q \in Nat, NEW tl \in Tails,
         Reading(n, p, q, tl), Heard(n, p, q, tl), result = "none", ReadData,
         DOMAIN seen = {"rows", "affected", "columns"}
  PROVE  Goes(n, p, q, tl)
<1>1. /\ op = "copy_out" /\ p >= 2 /\ sql[1].kind = "copyOut" /\ p <= 2 + sql[1].rows
      /\ seen.rows = FirstRows(1, p - 2) /\ stage = "data"
  BY AtData DEF Reading, ReadData, Hears
<1>2. op \in Bound /\ op \notin Simple
  BY <1>1 DEF Bound, Simple
<1>3. /\ Len(Before) = 1 /\ sql[1].rows \in Nat /\ Len(Whole) = sql[1].rows + 4
      /\ \A j \in 1..sql[1].rows : Whole[1 + j + 1] = Msg("CopyData", 1, j)
      /\ Whole[1 + sql[1].rows + 2].type = "CopyDone"
  <2>1. Len(Before) = 1
    BY <1>1, CopyingIs
  <2>2. LET b == Len(Before)
            s == sql[1]
        IN /\ s.rows \in Nat
           /\ s.kind = "copyOut" =>
                /\ Len(Whole) = b + s.rows + 3
                /\ \A j \in 1..s.rows : Whole[b + j + 1] = Msg("CopyData", 1, j)
                /\ Whole[b + s.rows + 2].type = "CopyDone"
    BY <1>2, ExecuteIs
  <2> QED
    BY <1>1, <2>1, <2>2
<1>4. ReadMessage /\ UNCHANGED <<op, sql, outcome>>
  BY DEF ReadData, ReadMessage
<1>5. CASE M \in Message /\ p < 2 + sql[1].rows
  <2>1. M # Err /\ M # Rdy
    BY <1>5, Ends DEF Message, Types
  <2>2. p - 1 \in 1..sql[1].rows /\ 1 + (p - 1) + 1 = p + 1 /\ p - 2 \in Nat /\ (p - 2) + 1 = p - 1
    BY <1>1, <1>3, <1>5
  <2>3. M = Msg("CopyData", 1, p - 1)
    BY <1>3, <2>1, <2>2 DEF Heard
  <2>4. M.type = "CopyData" /\ M.of = 1 /\ M.n = p - 1
    BY <2>3, Msgs
  <2>5. /\ stage' = "data" /\ UNCHANGED <<todo, result>>
        /\ seen' = [seen EXCEPT !.rows = Append(@, <<1, p - 1>>)]
    BY <1>1, <2>4 DEF ReadData, Refused, Stay, Continue
  <2>6. seen'.rows = Append(FirstRows(1, p - 2), <<1, (p - 2) + 1>>)
    BY <1>1, <2>2, <2>5
  <2>7. seen'.rows = FirstRows(1, (p - 2) + 1)
    BY <2>2, <2>6, FirstRowsAre
  <2>8. (p + 1) - 2 = (p - 2) + 1 /\ p + 1 >= 2 /\ p + 1 <= 2 + sql[1].rows
    BY <1>1, <1>3, <1>5
  <2>9. At(p + 1)'
    BY <1>1, <1>4, <2>5, <2>7, <2>8 DEF At
  <2> QED
    BY <1>4, <1>5, <2>5, <2>9, Continues
<1>6. CASE M \in Message /\ p = 2 + sql[1].rows
  <2>1. M # Err /\ M # Rdy
    BY <1>6, Ends DEF Message, Types
  <2>2. p + 1 = 1 + sql[1].rows + 2 /\ p - 2 = sql[1].rows
    BY <1>3, <1>6
  <2>3. M.type = "CopyDone"
    BY <1>3, <2>1, <2>2 DEF Heard
  <2>4. stage' = "done" /\ result' = "ok" /\ UNCHANGED <<todo, seen>>
    BY <2>3 DEF ReadData, Refused, Returns
  <2>5. AllRows' = FirstRows(1, sql[1].rows)
    <3>1. AllRows = RowsIn(1) /\ RowsIn(1) = FirstRows(1, sql[1].rows)
      BY <1>1, <1>2, AllOfOne DEF RowsIn, FirstRows
    <3>2. AllRows' = AllRows
      <4>1. \A i : RowsIn(i)' = RowsIn(i)
        BY <1>4 DEF RowsIn
      <4> QED
        BY <1>4, <4>1 DEF AllRows
    <3> QED
      BY <3>1, <3>2
  <2>6. ResultExact'
    BY <1>1, <1>4, <2>2, <2>4, <2>5 DEF ResultExact, One, Opt, Scalar
  <2>7. op \notin Deciding
    BY <1>1 DEF Deciding
  <2> QED
    BY <1>4, <2>4, <2>6, <2>7, ReadToEnd DEF Goes
<1>7. CASE M = Err
  <2>1. Refused({"CopyData", "CopyDone"})
    BY <1>7, Ends DEF ReadData
  <2> QED
    BY <1>4, <1>7, <2>1, Refusing DEF Goes
<1> QED
  <2>1. p # Len(Whole) /\ (p < 2 + sql[1].rows \/ p = 2 + sql[1].rows)
    BY <1>1, <1>3
  <2> QED
    BY <1>5, <1>6, <1>7, <2>1 DEF Heard
LEMMA SameRows == ASSUME UNCHANGED <<op, sql>> PROVE AllRows' = AllRows
<1>1. \A i : RowsIn(i)' = RowsIn(i)
  BY DEF RowsIn
<1> QED
  BY <1>1 DEF AllRows

\* The rows of a query.
LEMMA AtRow ==
  ASSUME Called, NEW p \in Nat, At(p), stage = "rows"
  PROVE  /\ op \in RowOps \cup {"query_portal"} /\ AtRows(p)
         /\ op \notin Simple /\ op \in Bound \cup Described \cup {"query_portal"}
<1>1. op \in RowOps \cup {"query_portal"} /\ AtRows(p)
  BY DEF At
<1> QED
  BY <1>1 DEF Simple, RowOps, One, Opt, Scalar, Typed, Bound, Described

LEMMA RowStays ==
  ASSUME Called, NEW p \in Nat, AtRows(p), op \in RowOps \cup {"query_portal"},
         UNCHANGED <<op, sql, stage>>, sql[1].kind \notin {"copyIn", "copyOut"},
         p + 1 > Len(Before), Len(Before) \in Nat,
         seen'.rows = FirstRows(1, Least((p + 1) - Len(Before), Rows)),
         op \in One \cup Opt => Len(seen'.rows) <= 1
  PROVE  At(p + 1)'
<1>1. Before' = Before /\ Rows' = Rows
  BY SameAnswer
<1>2. AtRows(p + 1)'
  BY <1>1 DEF AtRows
<1> QED
  BY <1>2 DEF At

LEMMA RowReads ==
  ASSUME Called, NEW n \in Nat, NEW p \in Nat, NEW q \in Nat, NEW tl \in Tails,
         Reading(n, p, q, tl), Heard(n, p, q, tl), result = "none", ReadRow,
         DOMAIN seen = {"rows", "affected", "columns"}
  PROVE  Goes(n, p, q, tl)
<1> DEFINE b == Len(Before)
           s == sql[1]
           j == p - b
<1>1. /\ op \in RowOps \cup {"query_portal"} /\ AtRows(p) /\ stage = "rows"
      /\ op \notin Simple /\ op \in Bound \cup Described \cup {"query_portal"}
  BY AtRow DEF Reading, ReadRow, Hears
<1>2. /\ b \in Nat /\ Rows \in Nat /\ s.rows \in Nat /\ Len(Whole) > b
      /\ s.kind \in {"select", "command", "empty", "copyIn", "copyOut"}
      /\ op # "query_portal" /\ s.kind = "select" => Rows = s.rows
      /\ op = "query_portal" => Rows <= PortalRows
      /\ s.kind # "select" => Rows = 0
      /\ s.kind = "select" =>
           /\ Len(Whole) = b + Rows + 1
           /\ \A k \in 1..Rows : Whole[b + k] = Msg("DataRow", 1, k)
           /\ Whole[b + Rows + 1].type \in {"CommandComplete", "PortalSuspended"}
      /\ s.kind = "command" =>
           Len(Whole) = b + 1 /\ Whole[b + 1] = Msg("CommandComplete", 1, s.rows)
      /\ s.kind = "empty" => Len(Whole) = b + 1 /\ Whole[b + 1].type = "EmptyQuery"
      /\ s.kind = "copyIn" => Whole[b + 1].type = "CopyInResponse"
      /\ s.kind = "copyOut" => Whole[b + 1].type = "CopyOutResponse"
  BY <1>1, ExecuteIs
<1>3. /\ p >= b /\ j \in Nat /\ p = b + j
      /\ s.kind \in {"copyIn", "copyOut"} => p = b
      /\ seen.rows = FirstRows(1, Least(j, Rows))
      /\ op \in One \cup Opt => Len(seen.rows) <= 1
  BY <1>1, <1>2 DEF AtRows
<1>4. ReadMessage /\ UNCHANGED <<op, sql, outcome>>
  BY DEF ReadRow, ReadMessage
<1>5. ASSUME M \in Message PROVE M # Err /\ M # Rdy /\ M = Whole[p + 1] /\ p + 1 \in 1..Len(Whole)
  BY <1>5, Ends DEF Message, Types, Heard
<1>6. CASE M \in Message /\ s.kind = "select" /\ j < Rows
  <2>1. j + 1 \in 1..Rows /\ b + (j + 1) = p + 1 /\ Least(j, Rows) = j /\ Least(j + 1, Rows) = j + 1
        /\ (p + 1) - b = j + 1
    BY <1>2, <1>3, <1>6 DEF Least
  <2>2. M = Msg("DataRow", 1, j + 1)
    BY <1>2, <1>5, <1>6, <2>1
  <2>3. M.type = "DataRow" /\ M.of = 1 /\ M.n = j + 1
    BY <2>2, Msgs
  <2>4. /\ seen' = [seen EXCEPT !.rows = Append(@, <<1, j + 1>>)]
        /\ IF op \in One \cup Opt /\ seen.rows # <<>> THEN Returns("rowcount") ELSE Stay
    BY <2>3 DEF ReadRow, Refused, RowStreamTypes
  <2>5. seen'.rows = FirstRows(1, j + 1)
    <3>1. seen'.rows = Append(FirstRows(1, j), <<1, j + 1>>)
      BY <1>3, <2>1, <2>4
    <3> HIDE DEF j
    <3> QED
      BY <1>3, <3>1, FirstRowsAre
  <2>6. CASE op \in One \cup Opt /\ seen.rows # <<>>
    <3>1. stage' = "done" /\ result' = "rowcount" /\ op # "copy_in"
      BY <2>4, <2>6 DEF Returns, One, Opt
    <3> QED
      BY <1>4, <3>1, ReadTooMany DEF Goes
  <2>7. CASE ~(op \in One \cup Opt /\ seen.rows # <<>>)
    <3>1. UNCHANGED <<stage, todo, result>>
      BY <2>4, <2>7 DEF Stay, Continue
    <3>2. op \in One \cup Opt => Len(seen'.rows) <= 1
      <4>1. SUFFICES ASSUME op \in One \cup Opt PROVE Len(seen'.rows) <= 1
        OBVIOUS
      <4>2. FirstRows(1, j) = <<>>
        BY <1>3, <2>1, <2>7, <4>1
      <4>3. j = 0
        <5> HIDE DEF j
        <5> QED
          BY <1>3, <4>2, FirstRowsAre
      <4>4. Len(FirstRows(1, 1)) = 1
        BY FirstRowsAre
      <4>5. FirstRows(1, j + 1) = FirstRows(1, 1)
        BY <4>3
      <4>6. Len(seen'.rows) = 1
        BY <2>5, <4>4, <4>5, Zenon
      <4> QED
        BY <4>6
    <3>3. seen'.rows = FirstRows(1, Least((p + 1) - b, Rows)) /\ p + 1 > b
      BY <1>2, <1>3, <2>1, <2>5
    <3>4. At(p + 1)'
      BY <1>1, <1>2, <1>4, <1>6, <3>1, <3>2, <3>3, RowStays
    <3> QED
      BY <1>4, <1>6, <3>1, <3>4, Continues
  <2> QED
    BY <2>6, <2>7
<1>7. CASE M \in Message /\ s.kind \in {"select", "command", "empty"} /\ j >= Rows
  <2>1. j = Rows /\ Least(j, Rows) = Rows /\ Least((p + 1) - b, Rows) = Rows /\ p + 1 > b
        /\ p + 1 = b + Rows + 1 /\ (s.kind # "select" => p + 1 = b + 1)
    <3>1. /\ b \in Nat /\ j \in Nat /\ Rows \in Nat /\ p = b + j /\ j >= Rows
          /\ p + 1 \in 1..Len(Whole) /\ Len(Whole) \in Nat
          /\ s.kind = "select" => Len(Whole) = b + Rows + 1
          /\ s.kind # "select" => Len(Whole) = b + 1 /\ Rows = 0
      BY <1>2, <1>3, <1>5, <1>7
    <3> HIDE DEF b, s, j
    <3>2. j = Rows /\ p + 1 > b /\ p + 1 = b + Rows + 1 /\ (s.kind # "select" => p + 1 = b + 1)
      BY <3>1
    <3>3. Least(j, Rows) = Rows
      BY <3>1, <3>2 DEF Least
    <3>4. Least((p + 1) - b, Rows) = Rows
      BY <3>1, <3>2 DEF Least
    <3> QED
      BY <3>2, <3>3, <3>4
  <2>2. M.type \in {"CommandComplete", "PortalSuspended", "EmptyQuery"}
    <3>1. M = Whole[p + 1]
      BY <1>5, <1>7
    <3>2. s.kind = "select" => Whole[b + Rows + 1].type \in {"CommandComplete", "PortalSuspended"}
      BY <1>2
    <3>3. s.kind \in {"command", "empty"} =>
            Whole[b + 1].type \in {"CommandComplete", "PortalSuspended", "EmptyQuery"}
      BY <1>2, Msgs
    <3> HIDE DEF s, b
    <3> QED
      BY <1>7, <2>1, <3>1, <3>2, <3>3
  <2>3. Stay /\ (UNCHANGED seen \/ seen' = [seen EXCEPT !.affected = M.n])
    BY <2>2 DEF ReadRow, Refused, RowStreamTypes
  <2>4. UNCHANGED <<stage, todo, result>> /\ seen'.rows = seen.rows
    BY <2>3 DEF Stay, Continue
  <2>5. seen'.rows = FirstRows(1, Least((p + 1) - b, Rows))
    BY <1>3, <2>1, <2>4
  <2>6. At(p + 1)'
    BY <1>1, <1>2, <1>3, <1>4, <1>7, <2>1, <2>4, <2>5, RowStays
  <2> QED
    BY <1>4, <1>7, <2>4, <2>6, Continues
<1>8. CASE M \in Message /\ s.kind \in {"copyIn", "copyOut"}
  <2>1. M.type \in {"CopyInResponse", "CopyOutResponse"}
    BY <1>2, <1>3, <1>5, <1>8
  <2>2. Refused(RowStreamTypes)
    BY <2>1 DEF ReadRow, RowStreamTypes
  <2>3. ~Fits
    <3>1. 1 \in DOMAIN sql
      BY Called1
    <3>2. op \notin {"copy_in", "copy_out", "prepare", "bind", "sync"}
      BY <1>1 DEF RowOps, One, Opt, Scalar, Typed
    <3> QED
      BY <1>8, <3>1, <3>2 DEF Fits
  <2> QED
    BY <1>4, <2>2, <2>3, Refusing DEF Goes
<1>9. CASE M = Err
  <2>1. Refused(RowStreamTypes)
    BY <1>9, Ends DEF ReadRow, RowStreamTypes
  <2> QED
    BY <1>4, <1>9, <2>1, Refusing DEF Goes
<1>10. CASE M = Rdy /\ p = Len(Whole) /\ outcome = "committed" /\ todo = <<>>
  <2>1. stage' = "done" /\ result' = Collected(seen.rows) /\ UNCHANGED <<todo, seen>>
    BY <1>10, Ends DEF ReadRow, Refused, RowStreamTypes, Returns
  <2>2. CASE result' # "ok"
    <3>1. result' \in {"rowcount", "columncount"} /\ op # "copy_in"
      BY <1>1, <2>1, <2>2 DEF Collected, RowOps, One, Opt, Scalar, Typed
    <3> QED
      BY <1>4, <2>1, <3>1, ReadTooMany DEF Goes
  <2>3. CASE result' = "ok"
    <3>1. s.kind \notin {"copyIn", "copyOut"} /\ j > Rows /\ Least(j, Rows) = Rows
      <4>1. s.kind \notin {"copyIn", "copyOut"}
        <5>1. p > b
          BY <1>2, <1>10
        <5> HIDE DEF b, s, j
        <5> QED
          BY <1>2, <1>3, <5>1
      <4>2. j > Rows
        <5>1. p = b + Rows + 1
          <6> HIDE DEF b, s, j
          <6> QED
            BY <1>2, <1>10, <4>1
        <5> HIDE DEF b, s
        <5> QED
          BY <1>2, <5>1
      <4> QED
        BY <1>2, <1>3, <4>1, <4>2 DEF Least
    <3>2. seen'.rows = FirstRows(1, Rows)
      BY <1>3, <2>1, <3>1
    <3>3. op # "query_portal" => seen'.rows = AllRows'
      <4>1. SUFFICES ASSUME op # "query_portal" PROVE FirstRows(1, Rows) = AllRows
        BY <1>4, <3>2, SameRows
      <4>2. AllRows = RowsIn(1)
        BY <1>1, AllOfOne
      <4>3. CASE s.kind = "select"
        BY <1>2, <4>1, <4>2, <4>3 DEF RowsIn, FirstRows
      <4>4. CASE s.kind # "select"
        <5>1. FirstRows(1, 0) = <<>>
          BY FirstRowsAre
        <5> QED
          BY <1>2, <3>1, <4>2, <4>4, <5>1 DEF RowsIn
      <4> QED
        BY <4>3, <4>4
    <3>4. ~(op \in One /\ seen.rows = <<>>)
          /\ ~(op \in Scalar /\ seen.rows # <<>> /\ s.columns # 1)
      BY <2>1, <2>3 DEF Collected
    <3>5. op \in One => Len(seen'.rows) = 1
      <4>1. Len(FirstRows(1, Rows)) = Rows /\ FirstRows(1, 0) = <<>>
        BY <1>2, FirstRowsAre
      <4>2. SUFFICES ASSUME op \in One PROVE Rows = 1
        BY <3>2, <4>1
      <4>3. Len(seen.rows) = Rows /\ Len(seen.rows) <= 1
        BY <1>3, <2>1, <3>2, <4>1, <4>2
      <4>4. Rows # 0
        BY <2>1, <3>2, <3>4, <4>1, <4>2
      <4> QED
        BY <1>2, <4>3, <4>4
    <3>6. op \in Opt => Len(seen'.rows) <= 1
      BY <1>3, <2>1
    <3>7. op = "query_portal" => Len(seen'.rows) <= PortalRows
      <4>1. Len(FirstRows(1, Rows)) = Rows
        BY <1>2, FirstRowsAre
      <4> QED
        BY <1>2, <3>2, <4>1
    <3>8. op \notin {"execute", "execute_typed", "simple_query", "copy_out"}
      BY <1>1 DEF RowOps, One, Opt, Scalar, Typed
    <3>9. op \in Scalar /\ seen'.rows # <<>> => s.columns = 1
      BY <2>1, <3>4
    <3>10. "query_portal" \notin RowOps
      BY DEF RowOps, One, Opt, Scalar, Typed
    <3>11. ResultExact'
      BY <1>4, <3>3, <3>5, <3>6, <3>7, <3>8, <3>9, <3>10 DEF ResultExact
    <3> QED
      BY <1>4, <1>10, <2>1, <2>3, <3>11, ReadToEnd DEF Goes
  <2> QED
    BY <2>2, <2>3
<1> QED
  <2>1. j < Rows \/ j >= Rows
    BY <1>2, <1>3
  <2> QED
    BY <1>2, <1>3, <1>6, <1>7, <1>8, <1>9, <1>10, <2>1 DEF Heard
\* What precedes the rows in the answer to a typed query.
LEMMA DescribedIs ==
  ASSUME Called, op \in Described
  PROVE  /\ Len(Before) = 4 /\ Len(Whole) >= 5
         /\ Whole[1].type = "ParseComplete" /\ Whole[2].type = "BindComplete"
         /\ Whole[3].type = "ParameterDescription"
         /\ Whole[4].type \in {"RowDescription", "NoData"}
<1>1. PICK d \in Message :
         /\ Before = <<Msg("ParseComplete", 0, 0), Msg("BindComplete", 0, 0),
                       Msg("ParameterDescription", 0, 0), d>>
         /\ d.type \in {"RowDescription", "NoData"}
  BY BeforeIs
<1>2. /\ Len(Before) = 4 /\ Before[1] = Msg("ParseComplete", 0, 0)
      /\ Before[2] = Msg("BindComplete", 0, 0) /\ Before[3] = Msg("ParameterDescription", 0, 0)
      /\ Before[4] = d
  BY <1>1
<1>3. Len(Body) \in Nat /\ Len(Body) >= 1
  BY BodyIs, WholeCopies
<1> QED
  BY <1>1, <1>2, <1>3, WholeIs, Msgs

LEMMA AtDescribe ==
  ASSUME Called, NEW p \in Nat, At(p), stage = "describe"
  PROVE  op \in Typed /\ p < 4 /\ seen.rows = <<>>
BY DEF At, AtRows, Simple

LEMMA DescribeReads ==
  ASSUME Called, NEW n \in Nat, NEW p \in Nat, NEW q \in Nat, NEW tl \in Tails,
         Reading(n, p, q, tl), Heard(n, p, q, tl), result = "none", ReadTypedColumns
  PROVE  Goes(n, p, q, tl)
<1>1. op \in Typed /\ p < 4 /\ seen.rows = <<>> /\ stage = "describe"
  BY AtDescribe DEF Reading, ReadTypedColumns, Hears
<1>2. op \in RowOps /\ op \in Described
  BY <1>1 DEF RowOps, Described
<1>3. /\ Len(Before) = 4 /\ Len(Whole) >= 5
      /\ Whole[1].type = "ParseComplete" /\ Whole[2].type = "BindComplete"
      /\ Whole[3].type = "ParameterDescription" /\ Whole[4].type \in {"RowDescription", "NoData"}
  BY <1>2, DescribedIs
<1>4. ReadMessage /\ UNCHANGED <<op, sql>>
  BY DEF ReadTypedColumns, ReadMessage
<1>5. CASE M \in Message
  <2>1. M # Err /\ M # Rdy
    BY <1>5, Ends DEF Message, Types
  <2>2. M = Whole[p + 1]
    BY <2>1 DEF Heard
  <2>3. CASE p < 3
    <3>1. M.type \in {"ParseComplete", "BindComplete", "ParameterDescription"}
      <4>1. p = 0 \/ p = 1 \/ p = 2
        BY <2>3
      <4> QED
        BY <1>3, <2>2, <4>1
    <3>2. UNCHANGED <<stage, todo, result, seen>>
      BY <3>1 DEF ReadTypedColumns, Refused, Stay, Continue
    <3>3. At(p + 1)'
      BY <1>1, <1>4, <2>3, <3>2 DEF At
    <3> QED
      BY <1>4, <1>5, <3>2, <3>3, Continues
  <2>4. CASE p = 3
    <3>1. M.type \in {"RowDescription", "NoData"}
      BY <1>3, <2>2, <2>4
    <3>2. stage' = "rows" /\ UNCHANGED <<todo, result, seen>>
      BY <3>1 DEF ReadTypedColumns, Refused, Continue
    <3>3. AtRows(p + 1)'
      <4>1. Least(0, Rows) = 0
        <5>1. Rows \in Nat
          BY <1>2, ExecuteIs
        <5> QED
          BY <5>1 DEF Least
      <4>2. (p + 1) - Len(Before) = 0 /\ p + 1 = Len(Before) /\ p + 1 >= Len(Before)
        BY <1>3, <2>4
      <4>3. seen' = seen /\ seen.rows = <<>> /\ FirstRows(1, 0) = <<>> /\ Len(<<>>) <= 1
        BY <1>1, <3>2, FirstRowsAre
      <4>4. Before' = Before /\ Rows' = Rows
        BY <1>4, SameAnswer
      <4> QED
        BY <1>4, <3>2, <4>1, <4>2, <4>3, <4>4 DEF AtRows
    <3>4. At(p + 1)'
      BY <1>2, <1>4, <3>3 DEF At
    <3> QED
      BY <1>4, <1>5, <3>2, <3>4, Continues
  <2> QED
    BY <1>1, <2>3, <2>4
<1>6. CASE M = Err
  <2>1. \E E : Refused(E)
    BY <1>6, Ends DEF ReadTypedColumns
  <2> QED
    BY <1>4, <1>6, <2>1, Refusing DEF Goes
<1> QED
  <2>1. p # Len(Whole)
    BY <1>1, <1>3
  <2> QED
    BY <1>5, <1>6, <2>1 DEF Heard

\* The number of rows affected.
LEMMA CountStays ==
  ASSUME Called, NEW p \in Nat, AtCount(p), UNCHANGED <<op, sql>>,
         sql[1].kind \notin {"copyIn", "copyOut"}, Len(Before) \in Nat,
         p + 1 = Len(Whole) =>
           seen'.affected = IF sql[1].kind = "empty" THEN 0 ELSE sql[1].rows
  PROVE  AtCount(p + 1)'
<1>1. Before' = Before /\ Whole' = Whole
  BY SameAnswer
<1>2. p + 1 >= Len(Before)
  BY DEF AtCount
<1> QED
  BY <1>1, <1>2 DEF AtCount

LEMMA CountHears ==
  ASSUME Called, NEW n \in Nat, NEW p \in Nat, NEW q \in Nat, NEW tl \in Tails,
         Heard(n, p, q, tl), AtCount(p), op \in {"execute", "execute_typed"}, M \in Message
  PROVE  LET s == sql[1]
         IN /\ Len(Before) \in Nat
            /\ \/ M.type = "DataRow" /\ p + 1 < Len(Whole) /\ s.kind = "select"
               \/ M.type = "CommandComplete" /\ M.n = s.rows /\ s.kind \in {"select", "command"}
               \/ M.type = "EmptyQuery" /\ s.kind = "empty"
               \/ M.type \in {"CopyInResponse", "CopyOutResponse"}
                    /\ s.kind \in {"copyIn", "copyOut"}
<1> DEFINE b == Len(Before)
           s == sql[1]
           j == p - b
<1>1. op \in Bound \cup Described \cup {"query_portal"} /\ op # "query_portal"
  BY DEF Bound, Described
<1>2. /\ b \in Nat /\ s.rows \in Nat /\ Len(Whole) > b
      /\ s.kind \in {"select", "command", "empty", "copyIn", "copyOut"}
      /\ s.kind = "select" =>
           /\ Len(Whole) = b + s.rows + 1
           /\ \A k \in 1..s.rows : Whole[b + k] = Msg("DataRow", 1, k)
           /\ Whole[b + s.rows + 1] = Msg("CommandComplete", 1, s.rows)
      /\ s.kind = "command" =>
           Len(Whole) = b + 1 /\ Whole[b + 1] = Msg("CommandComplete", 1, s.rows)
      /\ s.kind = "empty" => Len(Whole) = b + 1 /\ Whole[b + 1].type = "EmptyQuery"
      /\ s.kind = "copyIn" => Whole[b + 1].type = "CopyInResponse"
      /\ s.kind = "copyOut" => Whole[b + 1].type = "CopyOutResponse"
  <2>1. Rows = s.rows \/ s.kind # "select"
    BY <1>1, ExecuteIs
  <2> QED
    BY <1>1, <2>1, ExecuteIs
<1>3. p >= b /\ (s.kind \in {"copyIn", "copyOut"} => p = b)
  BY DEF AtCount
<1>4. M = Whole[p + 1] /\ p + 1 \in 1..Len(Whole)
  BY Ends DEF Message, Types, Heard
<1>5. CASE s.kind = "select" /\ p + 1 < Len(Whole)
  <2>1. (p + 1) - b \in 1..s.rows /\ b + ((p + 1) - b) = p + 1
    <3> HIDE DEF s, b
    <3> QED
      BY <1>2, <1>3, <1>5
  <2>2. M = Msg("DataRow", 1, (p + 1) - b)
    <3> HIDE DEF s, b
    <3> QED
      BY <1>2, <1>4, <1>5, <2>1
  <2> QED
    BY <1>2, <1>5, <2>2, Msgs
<1>6. CASE s.kind = "select" /\ p + 1 = Len(Whole)
  BY <1>2, <1>4, <1>6, Msgs
<1>7. CASE s.kind \in {"command", "empty"}
  <2>1. p + 1 = b + 1
    <3> HIDE DEF s, b
    <3> QED
      BY <1>2, <1>3, <1>4, <1>7
  <2> QED
    BY <1>2, <1>4, <1>7, <2>1, Msgs
<1>8. CASE s.kind \in {"copyIn", "copyOut"}
  BY <1>2, <1>3, <1>4, <1>8
<1> QED
  BY <1>2, <1>4, <1>5, <1>6, <1>7, <1>8
LEMMA CountEnds ==
  ASSUME Called, NEW p \in Nat, AtCount(p), op \in {"execute", "execute_typed"},
         p = Len(Whole), outcome = "committed", todo = <<>>,
         stage' = "done", result' = "ok", UNCHANGED <<todo, seen, op, sql, outcome>>
  PROVE  Settled'
<1>1. Len(Before) \in Nat /\ Len(Whole) > Len(Before)
  <2>1. op \in Bound \cup Described \cup {"query_portal"}
    BY DEF Bound, Described
  <2> QED
    BY <2>1, ExecuteIs
<1>2. seen.affected = IF sql[1].kind = "empty" THEN 0 ELSE sql[1].rows
  BY <1>1 DEF AtCount
<1>3. ResultExact'
  BY <1>2 DEF ResultExact, RowOps, One, Opt, Scalar, Typed
<1> QED
  BY <1>3, ReadToEnd

LEMMA CountReads ==
  ASSUME Called, NEW n \in Nat, NEW p \in Nat, NEW q \in Nat, NEW tl \in Tails,
         Reading(n, p, q, tl), Heard(n, p, q, tl), result = "none", ReadCount,
         DOMAIN seen = {"rows", "affected", "columns"}
  PROVE  Goes(n, p, q, tl)
<1> DEFINE s == sql[1]
<1>1. op = "execute" /\ AtCount(p) /\ stage = "count"
  BY DEF Reading, ReadCount, Hears, At, AtRows
<1>2. ReadMessage /\ UNCHANGED <<op, sql, outcome>>
  BY DEF ReadCount, ReadMessage
<1>3. CASE M \in Message
  <2>1. /\ Len(Before) \in Nat
        /\ \/ M.type = "DataRow" /\ p + 1 < Len(Whole) /\ s.kind = "select"
           \/ M.type = "CommandComplete" /\ M.n = s.rows /\ s.kind \in {"select", "command"}
           \/ M.type = "EmptyQuery" /\ s.kind = "empty"
           \/ M.type \in {"CopyInResponse", "CopyOutResponse"} /\ s.kind \in {"copyIn", "copyOut"}
    BY <1>1, <1>3, CountHears
  <2>2. CASE s.kind \in {"copyIn", "copyOut"}
    <3>1. \E E : Refused(E)
      BY <2>1, <2>2 DEF ReadCount
    <3>2. ~Fits
      <4>1. 1 \in DOMAIN sql
        BY Called1
      <4> QED
        BY <1>1, <2>2, <4>1 DEF Fits
    <3> QED
      BY <1>2, <3>1, <3>2, Refusing DEF Goes
  <2>3. CASE s.kind \notin {"copyIn", "copyOut"}
    <3>1. /\ Stay
          /\ \/ M.type = "DataRow" /\ p + 1 < Len(Whole) /\ UNCHANGED seen
             \/ s.kind \in {"select", "command"} /\ seen' = [seen EXCEPT !.affected = s.rows]
             \/ s.kind = "empty" /\ seen' = [seen EXCEPT !.affected = 0]
      BY <2>1, <2>3 DEF ReadCount, Refused
    <3>2. UNCHANGED <<stage, todo, result>>
      BY <3>1 DEF Stay, Continue
    <3>3. p + 1 = Len(Whole) => seen'.affected = IF s.kind = "empty" THEN 0 ELSE s.rows
      BY <3>1
    <3>4. AtCount(p + 1)'
      BY <1>1, <1>2, <2>1, <2>3, <3>3, CountStays
    <3>5. At(p + 1)'
      BY <1>1, <1>2, <3>2, <3>4 DEF At
    <3> QED
      BY <1>2, <1>3, <3>2, <3>5, Continues
  <2> QED
    BY <2>2, <2>3
<1>4. CASE M = Err
  <2>1. \E E : Refused(E)
    BY <1>4, Ends DEF ReadCount
  <2> QED
    BY <1>2, <1>4, <2>1, Refusing DEF Goes
<1>5. CASE M = Rdy /\ p = Len(Whole) /\ outcome = "committed" /\ todo = <<>>
  <2>1. stage' = "done" /\ result' = "ok" /\ UNCHANGED <<todo, seen>>
    BY <1>5, Ends DEF ReadCount, Refused, Returns
  <2> QED
    BY <1>1, <1>2, <1>5, <2>1, CountEnds DEF Goes
<1> QED
  BY <1>3, <1>4, <1>5 DEF Heard

LEMMA TypedCountReads ==
  ASSUME Called, NEW n \in Nat, NEW p \in Nat, NEW q \in Nat, NEW tl \in Tails,
         Reading(n, p, q, tl), Heard(n, p, q, tl), result = "none", ReadTypedCount,
         DOMAIN seen = {"rows", "affected", "columns"}
  PROVE  Goes(n, p, q, tl)
<1> DEFINE s == sql[1]
<1>1. op = "execute_typed" /\ (p < 4 \/ AtCount(p)) /\ stage = "typed_count"
  <2>1. stage = "typed_count" /\ At(p)
    BY DEF Reading, ReadTypedCount, Hears
  <2> QED
    BY <2>1 DEF At, AtRows
<1>2. ReadMessage /\ UNCHANGED <<op, sql, outcome>>
  BY DEF ReadTypedCount, ReadMessage
<1>3. /\ Len(Before) = 4 /\ Len(Whole) >= 5
      /\ Whole[1].type = "ParseComplete" /\ Whole[2].type = "BindComplete"
      /\ Whole[3].type = "ParameterDescription" /\ Whole[4].type \in {"RowDescription", "NoData"}
  BY <1>1, DescribedIs DEF Described
<1>4. CASE M \in Message /\ p < 4
  <2>1. M = Whole[p + 1]
    BY <1>4, Ends DEF Message, Types, Heard
  <2>2. M.type \in {"ParseComplete", "BindComplete", "ParameterDescription", "RowDescription",
                    "NoData"}
    <3>1. p = 0 \/ p = 1 \/ p = 2 \/ p = 3
      BY <1>4
    <3> QED
      BY <1>3, <2>1, <3>1
  <2>3. Stay
    BY <2>2 DEF ReadTypedCount, Refused, TypedCountPasses
  <2>4. UNCHANGED <<stage, todo, result>>
    BY <2>3 DEF Stay, Continue
  <2>5. p + 1 < 4 \/ AtCount(p + 1)'
    <3>1. SUFFICES ASSUME p + 1 = 4 PROVE AtCount(p + 1)'
      BY <1>4
    <3>2. Before' = Before /\ Len(Before) = 4
      BY <1>2, <1>3, SameAnswer
    <3>3. p + 1 = Len(Before') /\ p + 1 >= Len(Before') /\ ~(p + 1 > Len(Before'))
      BY <3>1, <3>2
    <3> QED
      BY <3>3, Zenon DEF AtCount
  <2>6. At(p + 1)'
    BY <1>1, <1>2, <2>4, <2>5 DEF At
  <2> QED
    BY <1>2, <1>4, <2>4, <2>6, Continues
<1>5. CASE M \in Message /\ AtCount(p)
  <2>1. /\ Len(Before) \in Nat
        /\ \/ M.type = "DataRow" /\ p + 1 < Len(Whole) /\ s.kind = "select"
           \/ M.type = "CommandComplete" /\ M.n = s.rows /\ s.kind \in {"select", "command"}
           \/ M.type = "EmptyQuery" /\ s.kind = "empty"
           \/ M.type \in {"CopyInResponse", "CopyOutResponse"} /\ s.kind \in {"copyIn", "copyOut"}
    BY <1>1, <1>5, CountHears
  <2>2. CASE s.kind \in {"copyIn", "copyOut"}
    <3>1. \E E : Refused(E)
      BY <2>1, <2>2 DEF ReadTypedCount, TypedCountPasses
    <3>2. ~Fits
      <4>1. 1 \in DOMAIN sql
        BY Called1
      <4> QED
        BY <1>1, <2>2, <4>1 DEF Fits
    <3> QED
      BY <1>2, <3>1, <3>2, Refusing DEF Goes
  <2>3. CASE s.kind \notin {"copyIn", "copyOut"}
    <3>1. /\ Stay
          /\ \/ M.type = "DataRow" /\ p + 1 < Len(Whole) /\ UNCHANGED seen
             \/ s.kind \in {"select", "command"} /\ seen' = [seen EXCEPT !.affected = s.rows]
             \/ s.kind = "empty" /\ seen' = [seen EXCEPT !.affected = 0]
      BY <2>1, <2>3 DEF ReadTypedCount, Refused, TypedCountPasses
    <3>2. UNCHANGED <<stage, todo, result>>
      BY <3>1 DEF Stay, Continue
    <3>3. p + 1 = Len(Whole) => seen'.affected = IF s.kind = "empty" THEN 0 ELSE s.rows
      BY <3>1
    <3>4. AtCount(p + 1)'
      BY <1>2, <1>5, <2>1, <2>3, <3>3, CountStays
    <3>5. At(p + 1)'
      BY <1>1, <1>2, <3>2, <3>4 DEF At
    <3> QED
      BY <1>2, <1>5, <3>2, <3>5, Continues
  <2> QED
    BY <2>2, <2>3
<1>6. CASE M = Err
  <2>1. \E E : Refused(E)
    BY <1>6, Ends DEF ReadTypedCount, TypedCountPasses
  <2> QED
    BY <1>2, <1>6, <2>1, Refusing DEF Goes
<1>7. CASE M = Rdy /\ p = Len(Whole) /\ outcome = "committed" /\ todo = <<>>
  <2>1. stage' = "done" /\ result' = "ok" /\ UNCHANGED <<todo, seen>>
    BY <1>7, Ends DEF ReadTypedCount, Refused, Returns, TypedCountPasses
  <2>2. AtCount(p)
    BY <1>1, <1>3, <1>7
  <2> QED
    BY <1>1, <1>2, <1>7, <2>1, <2>2, CountEnds DEF Goes
<1> QED
  BY <1>1, <1>4, <1>5, <1>6, <1>7 DEF Heard

\* The end of a copy.
LEMMA AtSink ==
  ASSUME Called, NEW p \in Nat, At(p), stage = "sink"
  PROVE  op = "copy_in" /\ p = 2 /\ sql[1].kind = "copyIn"
BY DEF At, AtRows, Simple

LEMMA CopyInIs ==
  ASSUME Called, op = "copy_in", sql[1].kind = "copyIn"
  PROVE  /\ Request(op) = <<"Bind", "Execute", "Sync">> /\ Copies(Whole) /\ Len(Whole) = 2
         /\ Upto(0) = 0 /\ Upto(1) = 1 /\ Upto(2) = 2 /\ op \notin Simple
<1>1. op \in Bound /\ op \notin Simple
  BY DEF Bound, Simple
<1>2. Request(op) = <<"Bind", "Execute", "Sync">> /\ Copies(Whole)
  BY <1>1, Asked, WholeCopies
<1>3. Before = <<Msg("BindComplete", 0, 0)>> /\ Body = <<Msg("CopyInResponse", 0, 0)>>
  <2>1. 1 \in DOMAIN sql
    BY Called1
  <2> QED
    BY <1>1, <2>1, BeforeIs, BodyIs, Otherwise
<1>4. Len(Before) = 1 /\ Len(Body) = 1
  BY <1>3
<1>5. Len(Whole) = 2
  BY <1>4, WholeIs
<1>6. Len(Request(op)) = 3
  BY <1>2
<1> QED
  BY <1>1, <1>2, <1>5, <1>6 DEF Upto

LEMMA CopyTodo ==
  LET r == <<"Bind", "Execute", "Sync">>
  IN /\ SubSeq(r, 0 + 1, 3) = r /\ SubSeq(r, 1 + 1, 3) = <<"Execute", "Sync">>
     /\ SubSeq(r, 2 + 1, 3) = <<"Sync">> /\ SubSeq(r, 3 + 1, 3) = <<>>
<1> DEFINE r == <<"Bind", "Execute", "Sync">>
<1>a. "Bind" \in Kinds /\ "Execute" \in Kinds /\ "Sync" \in Kinds
  BY DEF Kinds
<1>1. r \in Seq(Kinds) /\ Len(r) = 3 /\ r[1] = "Bind" /\ r[2] = "Execute" /\ r[3] = "Sync"
  BY <1>a
<1> HIDE DEF r
<1>2. SubSeq(r, 0 + 1, 3) = r
  BY <1>1, SubSeqFull
<1>3. SubSeq(r, 1 + 1, 3) = <<"Execute", "Sync">>
  <2> DEFINE t == <<"Execute", "Sync">>
  <2>1. t \in Seq(Kinds) /\ Len(t) = 2 /\ t[1] = "Execute" /\ t[2] = "Sync"
    BY <1>a
  <2> HIDE DEF t
  <2>2. \A j \in 1..Len(t) : r[1 + j] = t[j]
    BY <1>1, <2>1
  <2>3. t = SubSeq(r, 1 + 1, 3)
    BY <1>1, <2>1, <2>2, WindowIs
  <2> QED
    BY <2>3 DEF t
<1>4. SubSeq(r, 2 + 1, 3) = <<"Sync">>
  <2> DEFINE t == <<"Sync">>
  <2>1. t \in Seq(Kinds) /\ Len(t) = 1 /\ t[1] = "Sync"
    BY <1>a
  <2> HIDE DEF t
  <2>2. \A j \in 1..Len(t) : r[2 + j] = t[j]
    BY <1>1, <2>1
  <2>3. t = SubSeq(r, 2 + 1, 3)
    BY <1>1, <2>1, <2>2, WindowIs
  <2> QED
    BY <2>3 DEF t
<1>5. SubSeq(r, 3 + 1, 3) = <<>>
  BY <1>1, WindowEmpty
<1> QED
  BY <1>2, <1>3, <1>4, <1>5 DEF r
\* Where a copy that is not finished can be.
LEMMA CopyState ==
  ASSUME Called, op = "copy_in", sql[1].kind = "copyIn",
         NEW n \in Nat, NEW p \in Nat, NEW q \in Nat, NEW tl \in Tails, Reading(n, p, q, tl)
  PROVE  \/ Lost
         \/ /\ srv = "run" /\ outcome = "open"
            /\ todo \in {<<"Bind", "Execute", "Sync">>, <<"Execute", "Sync">>} /\ q < 2
         \/ srv = "copy" /\ outcome = "open" /\ todo \in {<<"Sync">>, <<>>} /\ q = 2 /\ tl = <<>>
<1>1. /\ Request(op) = <<"Bind", "Execute", "Sync">> /\ Copies(Whole) /\ Len(Whole) = 2
      /\ Upto(0) = 0 /\ Upto(1) = 1 /\ Upto(2) = 2 /\ op \notin Simple
  BY CopyInIs
<1>2. Len(Request(op)) = 3
  BY <1>1
<1>3. /\ n <= 3 /\ Served(n, q, tl) /\ todo = SubSeq(<<"Bind", "Execute", "Sync">>, n + 1, 3)
  BY <1>1, <1>2 DEF Reading
<1>4. /\ n = 0 => todo = <<"Bind", "Execute", "Sync">>
      /\ n = 1 => todo = <<"Execute", "Sync">>
      /\ n = 2 => todo = <<"Sync">>
      /\ n = 3 => todo = <<>>
  BY <1>3, CopyTodo, Zenon
<1>5. todo \in Seq(Kinds \ {"Query"})
  <2>1. Request(op) \in Seq(Kinds \ {"Query"})
    BY <1>1, RequestIs
  <2> QED
    BY <1>2, <1>3, <2>1, TodoIs DEF Reading
<1>6. CASE outcome = "aborted" \/ (srv = "skip" /\ outcome = "open")
  BY <1>5, <1>6 DEF Lost
<1>7. CASE n < 3 /\ srv = "run" /\ outcome = "open" /\ q = Upto(n) /\ n # 2
  <2>1. n = 0 \/ n = 1
    BY <1>7
  <2> QED
    BY <1>1, <1>4, <1>7, <2>1
<1>8. CASE n \in {2, 3} /\ srv = "copy" /\ outcome = "open" /\ q = 2 /\ tl = <<>>
  BY <1>4, <1>8
<1> QED
  <2>1. \/ outcome = "aborted" \/ (srv = "skip" /\ outcome = "open")
        \/ n < 3 /\ srv = "run" /\ outcome = "open" /\ q = Upto(n) /\ n # 2
        \/ n \in {2, 3} /\ srv = "copy" /\ outcome = "open" /\ q = 2 /\ tl = <<>>
    <3> DEFINE N == Len(Request(op))
               L == Len(Whole)
               u == Upto(n)
    <3>1. \/ /\ n < N /\ srv = "run" /\ outcome = "open" /\ q = u
             /\ n = N - 1 => ~Copies(Whole)
          \/ srv = "skip" /\ outcome = "open"
          \/ ~Copies(Whole)
          \/ outcome = "aborted"
          \/ n \in {N - 1, N} /\ srv = "copy" /\ outcome = "open" /\ q = L /\ tl = <<>>
      BY <1>1, <1>3, Zenon DEF Served
    <3>2. N = 3 /\ L = 2 /\ Copies(Whole)
      BY <1>1, <1>2
    <3> HIDE DEF N, L, u
    <3>3. \/ outcome = "aborted" \/ (srv = "skip" /\ outcome = "open")
          \/ n < 3 /\ srv = "run" /\ outcome = "open" /\ q = u /\ n # 2
          \/ n \in {2, 3} /\ srv = "copy" /\ outcome = "open" /\ q = 2 /\ tl = <<>>
      BY <3>1, <3>2
    <3> QED
      BY <3>3 DEF u
  <2> QED
    BY <1>6, <1>7, <1>8, <2>1

LEMMA CopyFinishes ==
  ASSUME Called, NEW n \in Nat, NEW p \in Nat, NEW q \in Nat, NEW tl \in Tails,
         Reading(n, p, q, tl), FinishCopy
  PROVE  Finishing'
<1>1. op = "copy_in" /\ p = 2 /\ sql[1].kind = "copyIn"
  BY AtSink DEF Reading, FinishCopy
<1>2. Len(Whole) = 2 /\ Copies(Whole) /\ Len(Request(op)) = 3
  BY <1>1, CopyInIs
<1>3. q = 2 /\ replies = SubSeq(Whole, p + 1, q) \o tl
  BY <1>1, <1>2 DEF Reading
<1>4. srv = "copy" /\ outcome = "open" /\ tl = <<>> /\ todo \in {<<"Sync">>, <<>>}
  <2>1. \/ Lost
        \/ srv = "copy" /\ outcome = "open" /\ todo \in {<<"Sync">>, <<>>} /\ q = 2 /\ tl = <<>>
    BY <1>1, <1>3, CopyState
  <2>2. ~Lost
    BY <1>2, <1>3 DEF Reading, Served, Lost
  <2> QED
    BY <2>1, <2>2
<1>5. replies = <<>>
  <2>1. SubSeq(Whole, p + 1, p) = <<>>
    BY WholeAny, WindowEmpty
  <2> QED
    BY <1>1, <1>3, <1>4, <2>1
<1>6. todo' \in {<<"Sync", "CopyDone", "Sync">>, <<"CopyDone", "Sync">>}
  <2>1. todo' = todo \o <<"CopyDone", "Sync">>
    BY DEF FinishCopy
  <2>2. <<"Sync">> \o <<"CopyDone", "Sync">> = <<"Sync", "CopyDone", "Sync">>
    BY JoinThree
  <2>3. <<>> \o <<"CopyDone", "Sync">> = <<"CopyDone", "Sync">>
    OBVIOUS
  <2> QED
    BY <1>4, <2>1, <2>2, <2>3
<1> QED
  BY <1>1, <1>4, <1>5, <1>6 DEF FinishCopy, Finishing

LEMMA FinishReads ==
  ASSUME Called, Finishing, ReadFinish
  PROVE  Settled'
<1>1. op = "copy_in" /\ stage = "finish" /\ replies # <<>>
  BY DEF Finishing, ReadFinish, Hears
<1>2. ReadMessage /\ UNCHANGED <<op, sql, srv, outcome>>
  BY DEF ReadFinish, ReadMessage
<1>3. M = Tag \/ (M = Err /\ Lost)
  <2>1. <<"Sync">> \in Seq(Kinds \ {"Query"}) /\ <<>> \in Seq(Kinds \ {"Query"})
    BY DEF Kinds
  <2>2. \/ replies = <<Tag>> \/ replies = <<Tag, Rdy>> \/ replies = <<Tag, Err, Rdy>>
        \/ replies = <<Err>> /\ Lost
        \/ replies = <<Err, Rdy>> /\ Lost
    BY <1>1, <2>1, Zenon DEF Finishing, Lost
  <2> QED
    BY <2>2 DEF M
<1>4. CASE M = Tag
  <2>1. M.type = "CommandComplete"
    BY <1>4, Msgs DEF Tag
  <2>2. stage' = "done" /\ result' = "ok" /\ UNCHANGED todo
    BY <2>1 DEF ReadFinish, Refused, Returns
  <2>3. ResultExact'
    BY <1>1, <1>2 DEF ResultExact, RowOps, One, Opt, Scalar, Typed
  <2>4. op \notin Deciding
    BY <1>1 DEF Deciding
  <2> QED
    BY <1>2, <2>2, <2>3, <2>4, ReadToEnd
<1>5. CASE M = Err /\ Lost
  <2>1. Refused({"CommandComplete"})
    BY <1>5, Ends DEF ReadFinish
  <2>2. /\ stage' = "done" /\ result' = "db" /\ todo' = todo \o Abort /\ UNCHANGED seen
    BY <1>5, <2>1, Ends DEF Refused, Stop
  <2> QED
    BY <1>2, <1>5, <2>2, ReadError
<1> QED
  BY <1>3, <1>4, <1>5

-----------------------------------------------------------------------------
(* Dropped.                                                                *)

LEMMA GivesUpCopy ==
  ASSUME Called, op = "copy_in", sql[1].kind = "copyIn", stage # "finish",
         NEW n \in Nat, NEW p \in Nat, NEW q \in Nat, NEW tl \in Tails, Reading(n, p, q, tl),
         todo' = todo \o Abort, UNCHANGED <<srv, outcome>>
  PROVE  Unfinished'
<1>1. Abort = <<"CopyFail", "Sync">>
  BY DEF Abort
<1>2. CASE Lost
  BY <1>2, LostGivenUp DEF Unfinished
<1>3. CASE /\ srv = "run" /\ outcome = "open"
           /\ todo \in {<<"Bind", "Execute", "Sync">>, <<"Execute", "Sync">>}
  <2> DEFINE a == <<"CopyFail", "Sync">>
             T == {"Bind", "Execute", "Sync", "CopyFail"}
  <2>1. <<"Execute", "Sync">> \o a = <<"Execute", "Sync", "CopyFail", "Sync">>
    BY JoinFour
  <2>2. <<"Bind", "Execute", "Sync">> \o a = <<"Bind", "Execute", "Sync", "CopyFail", "Sync">>
    <3> DEFINE u == <<"Bind", "Execute", "Sync">>
               v == <<"Bind", "Execute", "Sync", "CopyFail", "Sync">>
    <3>1. /\ u \in Seq(T) /\ Len(u) = 3 /\ u[1] = "Bind" /\ u[2] = "Execute" /\ u[3] = "Sync"
          /\ a \in Seq(T) /\ Len(a) = 2 /\ a[1] = "CopyFail" /\ a[2] = "Sync"
      OBVIOUS
    <3>2. /\ v \in Seq(T) /\ Len(v) = 5 /\ v[1] = "Bind" /\ v[2] = "Execute" /\ v[3] = "Sync"
          /\ v[4] = "CopyFail" /\ v[5] = "Sync"
      OBVIOUS
    <3> HIDE DEF T, a, u, v
    <3>3. /\ u \o a \in Seq(T) /\ Len(u \o a) = Len(u) + Len(a)
          /\ \A i \in 1..Len(u) + Len(a) :
               (u \o a)[i] = IF i <= Len(u) THEN u[i] ELSE a[i - Len(u)]
      BY <3>1, ConcatProperties
    <3>4. \A i \in 1..5 : (u \o a)[i] = v[i]
      <4> TAKE i \in 1..5
      <4>1. i \in 1..Len(u) + Len(a)
        BY <3>1
      <4>2. (u \o a)[i] = IF i <= 3 THEN u[i] ELSE a[i - 3]
        BY <3>1, <3>3, <4>1
      <4>3. i = 1 \/ i = 2 \/ i = 3 \/ i = 4 \/ i = 5
        OBVIOUS
      <4> QED
        BY <3>1, <3>2, <4>2, <4>3
    <3>5. u \o a = v
      <4>1. u \o a \in Seq(T) /\ v \in Seq(T) /\ Len(u \o a) = Len(v) /\ Len(u \o a) = 5
        BY <3>1, <3>2, <3>3
      <4> QED
        BY <3>4, <4>1, SeqEqual
    <3> QED
      BY <3>5 DEF u, v
  <2>3. todo' \in {<<"Bind", "Execute", "Sync", "CopyFail", "Sync">>,
                   <<"Execute", "Sync", "CopyFail", "Sync">>}
    BY <1>1, <1>3, <2>1, <2>2
  <2> QED
    BY <1>3, <2>3 DEF Unfinished
<1>4. CASE srv = "copy" /\ outcome = "open" /\ todo \in {<<"Sync">>, <<>>}
  <2> DEFINE S == Kinds \ {"Query", "CopyDone"}
  <2>1. "Sync" \in S /\ "CopyFail" \in S
    BY DEF Kinds
  <2> HIDE DEF S
  <2>2. todo \in Seq(S) /\ <<"CopyFail", "Sync">> \in Seq(S)
    <3>1. <<"Sync">> \in Seq(S) /\ <<>> \in Seq(S) /\ <<"CopyFail", "Sync">> \in Seq(S)
      BY <2>1
    <3> QED
      BY <1>4, <3>1, Zenon
  <2>3. todo' \in Seq(S)
    BY <1>1, <2>2, ConcatProperties
  <2> QED
    BY <1>4, <2>3 DEF Unfinished, S
<1> QED
  BY <1>2, <1>3, <1>4, CopyState

LEMMA Dropping ==
  ASSUME Called, Busy, Drop
  PROVE  Settled'
<1>1. /\ stage' = "done" /\ result' = (IF stage = "finish" THEN "left" ELSE "dropped")
      /\ todo' = todo \o Abort
      /\ UNCHANGED <<op, sql, srv, outcome, replies, seen>>
  BY DEF Drop, Stop
<1>2. op = "copy_in" /\ sql[1].kind = "copyIn" /\ stage # "finish" => Unfinished'
  <2>1. SUFFICES ASSUME op = "copy_in", sql[1].kind = "copyIn", stage # "finish"
                 PROVE  Unfinished'
    OBVIOUS
  <2>2. ~Finishing
    BY <2>1 DEF Finishing
  <2>3. PICK n, p, q \in Nat, tl \in Tails : Reading(n, p, q, tl)
    BY <2>2 DEF Busy
  <2> QED
    BY <1>1, <2>1, <2>3, GivesUpCopy
<1> QED
  BY <1>1, <1>2 DEF Settled, ResultExact, NoFalseAlarm
-----------------------------------------------------------------------------
(* The call itself.                                                        *)

Started ==
  /\ Called /\ stage = FirstStage(op) /\ todo = Request(op) /\ replies = <<>>
  /\ srv = "run" /\ outcome = "open" /\ seen.rows = <<>>

LEMMA StartsAt ==
  ASSUME Started
  PROVE  At(0)
<1>1. Called
  BY DEF Started
<1>2. CASE op \in Typed
  <2>1. stage = "describe"
    BY <1>2 DEF Started, FirstStage, Typed, Simple
  <2> QED
    BY <1>2, <2>1 DEF Started, At
<1>3. CASE op = "execute_typed"
  BY <1>3 DEF Started, FirstStage, At, Typed, Simple
<1>4. CASE op = "prepare"
  <2>1. stage = "parse" /\ <<"parse", "params", "columns">>[0 + 1] = "parse"
    BY <1>4 DEF Started, FirstStage, Typed, Simple
  <2> QED
    BY <1>4, <2>1 DEF At
<1>5. CASE op = "sync"
  BY <1>5 DEF Started, FirstStage, At, Typed
<1>6. CASE op = "batch_execute"
  BY <1>6 DEF Started, FirstStage, At, Typed, Simple
<1>7. CASE op = "query_portal"
  <2>1. stage = "rows"
    BY <1>7 DEF Started, FirstStage, Typed, Simple
  <2>2. Before = <<>> /\ Rows \in Nat
    BY <1>1, <1>7, BeforeIs, ExecuteIs
  <2>3. Len(Before) = 0 /\ Least(0 - Len(Before), Rows) = 0 /\ FirstRows(1, 0) = <<>>
    <3>1. Len(Before) = 0
      BY <2>2
    <3>2. Least(0, Rows) = 0
      BY <2>2 DEF Least
    <3>3. 0 - 0 = 0
      OBVIOUS
    <3> QED
      BY <3>1, <3>2, <3>3, FirstRowsAre, Zenon
  <2>4. AtRows(0)
    BY <1>7, <2>1, <2>3 DEF AtRows, Started, One, Opt
  <2> QED
    BY <1>7, <2>4 DEF At
<1>8. CASE op \in (RowOps \ Typed) \cup {"execute", "bind", "copy_out", "copy_in"}
  <2>1. /\ op \notin Typed \cup Simple
        /\ op \notin {"execute_typed", "query_portal", "prepare", "sync"}
    BY <1>8 DEF RowOps, One, Opt, Scalar, Typed, Simple
  <2>2. stage = "bind"
    BY <2>1 DEF Started, FirstStage
  <2> QED
    BY <1>8, <2>2 DEF Started, At
<1>9. CASE op = "simple_query"
  <2>1. stage = "simple_query"
    BY <1>9 DEF Started, FirstStage, Typed, Simple
  <2>2. Statements \in DOMAIN sql /\ Statements \in Nat /\ Statements >= 1
    BY <1>1, RanIs, Called1
  <2>3. Results(0) = <<>>
    BY <1>1, ResultsAre, Called1, EmptySeq
  <2>4. Start(1 - 1) = 0 /\ Start(1 - 1) + 0 = 0
    BY <2>3, FlattenEmpty DEF Start
  <2>5. RowsUpto(1 - 1) = <<>>
    <3> DEFINE f == [j \in 1..1 - 1 |-> RowsIn(j)]
    <3>1. f \in [1..0 -> Seq(Nat)]
      OBVIOUS
    <3>2. f \in Seq(Seq(Nat)) /\ Len(f) = 0
      BY <3>1, FunctionSeq
    <3>3. f = RowLists(1 - 1)
      BY DEF RowLists
    <3> HIDE DEF f
    <3>4. f = <<>>
      BY <3>2, EmptySeq
    <3> QED
      BY <3>3, <3>4, FlattenEmpty DEF RowsUpto
  <2>6. <<>> \o <<>> = <<>>
    OBVIOUS
  <2>7. AtSimple(0, 1, 0)
    BY <2>4, <2>5, <2>6 DEF AtSimple, ReadOf, Started
  <2>8. 1 \in 1..Statements /\ 0 \in 0..Len(Result(1))
    <3>1. 1 \in DOMAIN sql
      BY <1>1, Called1
    <3> QED
      BY <1>1, <2>2, <3>1, ResultIs
  <2>9. PlacedSimple(0)
    BY <2>7, <2>8 DEF PlacedSimple
  <2> QED
    BY <1>9, <2>1, <2>9 DEF At
<1> QED
  BY <1>1, <1>2, <1>3, <1>4, <1>5, <1>6, <1>7, <1>8, <1>9 DEF Called, Ops, Simple

LEMMA StartsReading == Started => Reading(0, 0, 0, <<>>)
<1> SUFFICES ASSUME Started PROVE Reading(0, 0, 0, <<>>)
  OBVIOUS
<1> DEFINE R == Request(op)
           N == Len(R)
<1>1. Called
  BY DEF Started
<1>2. /\ R \in Seq(Kinds) /\ N \in Nat /\ N >= 1 /\ Upto(0) = 0
      /\ Whole \in Seq(AnyMessage) /\ Len(Whole) \in Nat
  <2>1. R \in Seq(Kinds) /\ N \in Nat /\ N >= 1
    BY <1>1, RequestIs
  <2>2. Upto(0) = 0
    <3>1. CASE op \in Simple
      BY <1>1, <3>1, RequestIs
    <3>2. CASE op \notin Simple /\ N - 1 # 0
      BY <3>2 DEF Upto
    <3>3. CASE op \notin Simple /\ N - 1 = 0
      <4>1. op = "sync"
        BY <1>1, <3>3, Asked, OpIs
      <4>2. Before = <<>> /\ Body = <<>>
        BY <1>1, <4>1, BeforeIs, BodyIs
      <4>3. Len(Whole) = 0
        BY <1>1, <4>2, WholeIs
      <4> QED
        BY <3>3, <4>3 DEF Upto
    <3> QED
      BY <3>1, <3>2, <3>3
  <2> QED
    BY <1>1, <2>1, <2>2, WholeAny
<1>3. todo = SubSeq(R, 0 + 1, N)
  <2>1. SubSeq(R, 1, N) = R
    BY <1>2, SubSeqFull
  <2> QED
    BY <2>1 DEF Started
<1>4. replies = SubSeq(Whole, 0 + 1, 0) \o <<>>
  <2>1. SubSeq(Whole, 0 + 1, 0) = <<>>
    BY <1>2, WindowEmpty
  <2>2. <<>> \o <<>> = <<>>
    OBVIOUS
  <2> QED
    BY <2>1, <2>2 DEF Started
<1>5. 0 = N - 1 /\ op \notin Simple => ~Copies(Whole)
  <2>1. SUFFICES ASSUME N = 1, op \notin Simple PROVE ~Copies(Whole)
    BY <1>2
  <2>2. op = "sync"
    BY <1>1, <2>1, Asked, OpIs
  <2> QED
    BY <1>1, <2>2, WholeCopies
<1>6. Served(0, 0, <<>>)
  BY <1>2, <1>5 DEF Served, Started
<1>7. At(0)
  BY StartsAt
<1> QED
  BY <1>2, <1>3, <1>4, <1>6, <1>7 DEF Reading

LEMMA StartsReadingNext == Started' => Reading(0, 0, 0, <<>>)'
BY StartsReading, PTL

LEMMA Calling ==
  ASSUME MaxRows \in Nat, MaxTexts \in Nat \ {0}, Idle,
         NEW o \in Ops, NEW text \in Texts(o), Call(o, text)
  PROVE  Called' /\ Busy' /\ DOMAIN seen' = {"rows", "affected", "columns"}
<1>1. op' = o /\ sql' = text /\ Texts(op)' = Texts(o)
  BY DEF Call, Texts
<1>2. Called'
  BY <1>1 DEF Called
<1>3. Started'
  BY <1>1, <1>2 DEF Started, Call, Idle
<1>4. Reading(0, 0, 0, <<>>)'
  BY <1>3, StartsReadingNext
<1>5. 0 \in Nat /\ <<>> \in Tails' /\ Nat' = Nat
  BY DEF Tails
<1>6. Busy'
  BY <1>4, <1>5 DEF Busy, Call, Idle
<1> QED
  BY <1>2, <1>6 DEF Call, Idle
-----------------------------------------------------------------------------
(* A text of the simple protocol.                                          *)

LEMMA ResultAt ==
  ASSUME Called, NEW i \in DOMAIN sql, NEW k \in 1..Len(Result(i))
  PROVE  LET s == sql[i]
             m == Result(i)[k]
         IN \/ s.kind = "select" /\ k = 1 /\ m = Msg("RowDescription", i, 0)
            \/ s.kind = "select" /\ k - 1 \in 1..s.rows /\ m = Msg("DataRow", i, k - 1)
            \/ s.kind = "select" /\ k = s.rows + 2 /\ m.type = "CommandComplete"
            \/ s.kind \in {"command", "empty"} /\ k = 1 /\ Len(Result(i)) = 1
                 /\ m.type \in {"CommandComplete", "EmptyQuery"}
            \/ s.kind \in {"copyIn", "copyOut"}
                 /\ (k = 1 => m.type \in {"CopyInResponse", "CopyOutResponse"})
<1> DEFINE s == sql[i]
           r == Result(i)
<1>1. s.kind \in {"select", "command", "empty", "copyIn", "copyOut"} /\ s.rows \in Nat
  <2>1. s \in Statement
    BY Called1
  <2> QED
    BY <2>1, StatementIs DEF Called
<1>2. /\ s.kind = "copyIn" => r[1].type = "CopyInResponse"
      /\ s.kind = "copyOut" => r[1].type = "CopyOutResponse"
      /\ s.kind # "select" => r = Executed(i, 0)
      /\ s.kind = "select" =>
           /\ Len(r) = s.rows + 2
           /\ r[1] = Msg("RowDescription", i, 0)
           /\ \A j \in 1..s.rows : r[j + 1] = Msg("DataRow", i, j)
           /\ r[s.rows + 2] = Msg("CommandComplete", i, s.rows)
  BY ResultIs
<1>3. CASE s.kind = "select"
  <2>1. k = 1 \/ k = s.rows + 2 \/ (k - 1 \in 1..s.rows /\ (k - 1) + 1 = k)
    <3> HIDE DEF s, r
    <3>1. k \in 1..s.rows + 2
      BY <1>2, <1>3 DEF r
    <3> QED
      BY <1>1, <3>1
  <2> HIDE DEF s
  <2>2. CASE k = 1
    BY <1>2, <1>3, <2>2 DEF s
  <2>3. CASE k = s.rows + 2
    BY <1>2, <1>3, <2>3, Msgs DEF s
  <2>4. CASE k - 1 \in 1..s.rows /\ (k - 1) + 1 = k
    <3>1. r[(k - 1) + 1] = Msg("DataRow", i, k - 1)
      BY <1>2, <1>3, <2>4
    <3> QED
      BY <1>3, <2>4, <3>1 DEF s
  <2> QED
    BY <2>1, <2>2, <2>3, <2>4
<1>4. CASE s.kind \in {"command", "empty"}
  <2>1. /\ s.kind = "command" => r = <<Msg("CommandComplete", i, s.rows)>>
        /\ s.kind = "empty" => r = <<Msg("EmptyQuery", 0, 0)>>
    BY <1>2, <1>4, Otherwise
  <2>2. Len(r) = 1 /\ r[1].type \in {"CommandComplete", "EmptyQuery"}
    <3> HIDE DEF r
    <3> QED
      BY <1>4, <2>1, Msgs
  <2>3. k = 1
    BY <2>2
  <2> QED
    BY <1>4, <2>2, <2>3
<1>5. CASE s.kind \in {"copyIn", "copyOut"}
  BY <1>2, <1>5
<1> QED
  BY <1>1, <1>3, <1>4, <1>5

LEMMA CopyingAlarms ==
  ASSUME Called, op \in Simple, NEW i \in DOMAIN sql, sql[i].kind \in {"copyIn", "copyOut"}
  PROVE  ~Fits
BY DEF Fits, Simple

LEMMA BatchReads ==
  ASSUME Called, NEW n \in Nat, NEW p \in Nat, NEW q \in Nat, NEW tl \in Tails,
         Reading(n, p, q, tl), Heard(n, p, q, tl), result = "none", ReadBatch
  PROVE  Goes(n, p, q, tl)
<1>1. op = "batch_execute" /\ stage = "batch_execute" /\ op \in Simple
  BY DEF Reading, ReadBatch, Hears, At, AtRows, Simple
<1>2. ReadMessage /\ UNCHANGED <<op, sql, outcome>>
  BY DEF ReadBatch, ReadMessage
<1>3. CASE M \in Message
  <2>1. M = Whole[p + 1] /\ p + 1 \in 1..Len(Whole)
    BY <1>3, Ends DEF Message, Types, Heard
  <2>2. Whole = Ran
    BY <1>1, WholeCopies
  <2>3. PICK i \in 1..Statements : \E k \in 1..Len(Result(i)) : p + 1 = Start(i - 1) + k
    BY <2>1, <2>2, RanFrom
  <2>4. PICK k \in 1..Len(Result(i)) : p + 1 = Start(i - 1) + k
    BY <2>3
  <2>5. M = Result(i)[k]
    BY <2>1, <2>2, <2>4, RanAt
  <2>6. i \in DOMAIN sql
    BY RanIs, Called1
  <2>7. \/ M.type \in {"CommandComplete", "EmptyQuery", "RowDescription", "DataRow"}
        \/ sql[i].kind \in {"copyIn", "copyOut"}
    BY <2>5, <2>6, ResultAt, Msgs
  <2>8. CASE M.type \in {"CommandComplete", "EmptyQuery", "RowDescription", "DataRow"}
    <3>1. Stay
      BY <2>8 DEF ReadBatch, Refused
    <3>2. UNCHANGED <<stage, todo, result>>
      BY <3>1 DEF Stay, Continue
    <3>3. At(p + 1)'
      BY <1>1, <1>2, <3>2 DEF At
    <3> QED
      BY <1>2, <1>3, <3>2, <3>3, Continues
  <2>9. CASE /\ M.type \notin {"CommandComplete", "EmptyQuery", "RowDescription", "DataRow"}
             /\ sql[i].kind \in {"copyIn", "copyOut"}
    <3>1. M.type # "Ready"
      BY <1>3 DEF Message, Types
    <3>2. \E E : Refused(E)
      BY <2>9, <3>1 DEF ReadBatch
    <3>3. ~Fits
      BY <1>1, <2>6, <2>9, CopyingAlarms
    <3> QED
      BY <1>2, <3>2, <3>3, Refusing DEF Goes
  <2> QED
    BY <2>7, <2>8, <2>9
<1>4. CASE M = Err
  <2>1. \E E : Refused(E)
    BY <1>4, Ends DEF ReadBatch
  <2> QED
    BY <1>2, <1>4, <2>1, Refusing DEF Goes
<1>5. CASE M = Rdy /\ p = Len(Whole) /\ outcome = "committed" /\ todo = <<>>
  <2>1. stage' = "done" /\ result' = "ok" /\ UNCHANGED <<todo, seen>>
    BY <1>5, Ends DEF ReadBatch, Refused, Returns
  <2>2. ResultExact'
    BY <1>1, <1>2 DEF ResultExact, RowOps, One, Opt, Scalar, Typed
  <2> QED
    BY <1>2, <1>5, <2>1, <2>2, ReadToEnd DEF Goes
<1> QED
  BY <1>3, <1>4, <1>5 DEF Heard

LEMMA RowsInIs ==
  ASSUME Called, NEW i \in DOMAIN sql
  PROVE  /\ RowsIn(i) \in Seq(Nat \X Nat)
         /\ sql[i].kind \in {"select", "copyOut"} => RowsIn(i) = FirstRows(i, sql[i].rows)
         /\ sql[i].kind \notin {"select", "copyOut"} => RowsIn(i) = <<>>
<1>1. sql[i].rows \in Nat /\ i \in Nat
  <2>1. sql[i] \in Statement /\ i \in Nat
    BY Called1
  <2> QED
    BY <2>1, StatementIs DEF Called
<1>2. FirstRows(i, sql[i].rows) \in Seq(Nat \X Nat) /\ <<>> \in Seq(Nat \X Nat)
  BY <1>1, FirstRowsAre
<1> QED
  BY <1>2 DEF RowsIn, FirstRows

LEMMA RowsGrow ==
  ASSUME Called, NEW i \in DOMAIN sql
  PROVE  /\ RowsUpto(i - 1) \in Seq(Nat \X Nat)
         /\ RowsUpto(i) = RowsUpto(i - 1) \o RowsIn(i)
<1> DEFINE S == Nat \X Nat
           a == RowLists(i - 1)
           b == RowLists(i)
           e == RowsIn(i)
<1>1. i - 1 \in Nat /\ i \in Nat /\ i - 1 <= Len(sql) /\ i <= Len(sql) /\ i = (i - 1) + 1
      /\ DOMAIN sql = 1..Len(sql)
  BY Called1
<1>2. \A j \in 1..i : RowsIn(j) \in Seq(S)
  <2> TAKE j \in 1..i
  <2>1. j \in DOMAIN sql
    BY <1>1
  <2> QED
    BY <2>1, RowsInIs
<1>3. /\ a \in [1..i - 1 -> Seq(S)] /\ b \in [1..i -> Seq(S)] /\ e \in Seq(S)
      /\ \A j \in 1..i - 1 : a[j] = RowsIn(j)
      /\ \A j \in 1..i : b[j] = RowsIn(j)
  <2> HIDE DEF S
  <2>1. \A j \in 1..i - 1 : RowsIn(j) \in Seq(S)
    BY <1>1, <1>2
  <2> QED
    BY <1>1, <1>2, <2>1 DEF RowLists
<1> HIDE DEF S, a, b
<1>4. a \in Seq(Seq(S)) /\ Len(a) = i - 1 /\ b \in Seq(Seq(S)) /\ Len(b) = i
  BY <1>1, <1>3, FunctionSeq
<1>5. b = Append(a, e)
  <2> DEFINE c == Append(a, e)
  <2>1. /\ c \in Seq(Seq(S)) /\ Len(c) = Len(a) + 1
        /\ \A j \in 1..Len(a) : c[j] = a[j]
        /\ c[Len(a) + 1] = e
    <3> HIDE DEF e
    <3> QED
      BY <1>3, <1>4, AppendProperties
  <2> HIDE DEF c
  <2>2. Len(c) = i
    BY <1>1, <1>4, <2>1
  <2>3. ASSUME NEW j \in 1..i PROVE c[j] = b[j]
    <3>1. j \in 1..i - 1 \/ j = i
      BY <1>1
    <3> QED
      BY <1>1, <1>3, <1>4, <2>1, <3>1
  <2>4. c = b
    BY <1>1, <1>4, <2>1, <2>2, <2>3, SeqEqual
  <2> QED
    BY <2>4 DEF c
<1>6. FlattenSeq(a) \in Seq(S)
  BY <1>4, FlattenType
<1>7. FlattenSeq(b) = FlattenSeq(a) \o e
  <2> HIDE DEF e
  <2> QED
    BY <1>3, <1>4, <1>5, FlattenAppend
<1> QED
  BY <1>6, <1>7 DEF RowsUpto, S, a, b
\* The end of one statement is the start of the next.
LEMMA StatementRead ==
  ASSUME Called, NEW i \in DOMAIN sql, sql[i].kind \notin {"copyIn", "copyOut"}
  PROVE  ReadOf(i, Len(Result(i))) = RowsUpto(i)
<1> DEFINE s == sql[i]
           L == Len(Result(i))
<1>1. s.rows \in Nat /\ L >= 1 /\ L \in Nat
  <2>1. s \in Statement
    BY Called1
  <2>2. Result(i) \in Seq(Message) /\ L >= 1
    BY ResultIs
  <2> QED
    BY <2>1, <2>2, StatementIs DEF Called
<1>2. RowsUpto(i) = RowsUpto(i - 1) \o RowsIn(i)
  BY RowsGrow
<1>3. RowsIn(i) = IF s.kind = "select" /\ L > 0 THEN FirstRows(i, Least(L - 1, s.rows)) ELSE <<>>
  <2>1. CASE s.kind = "select"
    <3>1. L = s.rows + 2
      BY <2>1, ResultIs
    <3>2. Least(L - 1, s.rows) = s.rows /\ L > 0
      BY <1>1, <3>1 DEF Least
    <3> QED
      BY <2>1, <3>2, RowsInIs
  <2>2. CASE s.kind # "select"
    BY <2>2, RowsInIs
  <2> QED
    BY <2>1, <2>2
<1> QED
  BY <1>2, <1>3 DEF ReadOf

LEMMA NextStatement ==
  ASSUME Called, NEW p \in Nat, NEW i \in 1..Statements, i < Statements,
         AtSimple(p, i, Len(Result(i)))
  PROVE  AtSimple(p, i + 1, 0) /\ i + 1 \in 1..Statements
<1>1. Statements \in Nat /\ i \in DOMAIN sql /\ i + 1 \in 1..Statements /\ (i + 1) - 1 = i
  BY RanIs, Called1
<1>2. Start(i) = Start(i - 1) + Len(Result(i)) /\ Start(i) \in Nat /\ Len(Result(i)) >= 1
  BY <1>1, StartGrows, ResultIs
<1>3. p = Start((i + 1) - 1) + 0
  BY <1>1, <1>2 DEF AtSimple
<1>4. sql[i].kind \notin {"copyIn", "copyOut"}
  BY <1>2 DEF AtSimple
<1>5. seen.rows = RowsUpto(i)
  <2>1. seen.rows = ReadOf(i, Len(Result(i)))
    BY DEF AtSimple
  <2> QED
    BY <1>1, <1>4, <2>1, StatementRead
<1>6. RowsUpto(i) \o <<>> = RowsUpto(i)
  <2>1. i + 1 \in DOMAIN sql
    BY <1>1, RanIs, Called1
  <2>2. RowsUpto((i + 1) - 1) \in Seq(Nat \X Nat)
    BY <2>1, RowsGrow
  <2> QED
    BY <1>1, <2>2, ConcatEmptySeq
<1> QED
  <2>1. ReadOf(i + 1, 0) = RowsUpto((i + 1) - 1) \o <<>>
    BY DEF ReadOf
  <2>2. seen.rows = ReadOf(i + 1, 0)
    BY <1>1, <1>5, <1>6, <2>1
  <2> QED
    BY <1>1, <1>3, <2>2 DEF AtSimple

\* Where the call is: before a message of some statement, or at the end of the last.
LEMMA SimplePlace ==
  ASSUME Called, op \in Simple, NEW p \in Nat, PlacedSimple(p)
  PROVE  \/ \E i \in 1..Statements : \E k \in 0..Len(Result(i)) - 1 : AtSimple(p, i, k)
         \/ AtSimple(p, Statements, Len(Result(Statements))) /\ p = Len(Whole)
<1>1. PICK i \in 1..Statements : \E k \in 0..Len(Result(i)) : AtSimple(p, i, k)
  BY DEF PlacedSimple
<1>2. PICK k \in 0..Len(Result(i)) : AtSimple(p, i, k)
  BY <1>1
<1>3. /\ Statements \in Nat /\ Statements \in DOMAIN sql /\ i \in DOMAIN sql
      /\ \A j \in 1..Statements : j \in DOMAIN sql
      /\ Len(Whole) = Start(Statements)
  <2>1. Whole = Ran
    BY WholeCopies
  <2> QED
    BY <2>1, RanIs, Called1
<1>4. \A j \in DOMAIN sql : Len(Result(j)) \in Nat /\ Len(Result(j)) >= 1
  <2> TAKE j \in DOMAIN sql
  <2>1. Result(j) \in Seq(Message) /\ Len(Result(j)) >= 1
    BY ResultIs
  <2> QED
    BY <2>1
<1>5. CASE k < Len(Result(i))
  <2>1. k \in 0..Len(Result(i)) - 1
    BY <1>3, <1>4, <1>5
  <2> QED
    BY <1>2, <2>1
<1>6. CASE k = Len(Result(i)) /\ i < Statements
  <2>1. AtSimple(p, i + 1, 0) /\ i + 1 \in 1..Statements
    BY <1>2, <1>6, NextStatement
  <2>2. i + 1 \in DOMAIN sql
    BY <1>3, <2>1
  <2>3. 0 \in 0..Len(Result(i + 1)) - 1
    BY <1>4, <2>2
  <2> QED
    BY <2>1, <2>3
<1>7. CASE k = Len(Result(i)) /\ i = Statements
  <2>1. p = Start(Statements - 1) + Len(Result(Statements))
    BY <1>2, <1>7 DEF AtSimple
  <2>2. Start(Statements) = Start(Statements - 1) + Len(Result(Statements))
    BY <1>3, StartGrows
  <2> QED
    BY <1>2, <1>3, <1>7, <2>1, <2>2
<1> QED
  <2>1. k < Len(Result(i)) \/ k = Len(Result(i))
    BY <1>3, <1>4
  <2>2. i < Statements \/ i = Statements
    BY <1>3
  <2> QED
    BY <1>5, <1>6, <1>7, <2>1, <2>2

\* Within a statement the call is not at the end of the answer.
LEMMA NotTheEnd ==
  ASSUME Called, op \in Simple, NEW i \in 1..Statements, NEW k \in 0..Len(Result(i)) - 1
  PROVE  /\ Start(i - 1) + k < Len(Whole) /\ k + 1 \in 1..Len(Result(i))
         /\ Whole[Start(i - 1) + k + 1] = Result(i)[k + 1]
<1>1. /\ Statements \in Nat /\ i \in DOMAIN sql /\ Whole = Ran /\ Ran \in Seq(Message)
  BY RanIs, Called1, WholeCopies
<1>2. Len(Result(i)) \in Nat /\ Start(i - 1) \in Nat
  <2>1. Result(i) \in Seq(Message)
    BY <1>1, ResultIs
  <2> QED
    BY <1>1, <2>1, StartGrows
<1>3. k + 1 \in 1..Len(Result(i)) /\ Start(i - 1) + (k + 1) = Start(i - 1) + k + 1
  BY <1>2
<1>4. Start(i - 1) + (k + 1) \in 1..Len(Ran) /\ Ran[Start(i - 1) + (k + 1)] = Result(i)[k + 1]
  BY <1>3, RanAt
<1>5. Len(Ran) \in Nat
  BY <1>1
<1> QED
  BY <1>1, <1>2, <1>3, <1>4, <1>5
LEMMA SimpleStays ==
  ASSUME Called, op = "simple_query", UNCHANGED <<op, sql>>,
         stage' = "simple_query", NEW p \in Nat, NEW i \in 1..Statements,
         NEW k \in 0..Len(Result(i)) - 1, AtSimple(p, i, k),
         sql[i].kind \notin {"copyIn", "copyOut"},
         sql[i].kind = "select" => seen'.columns = i,
         seen'.rows = ReadOf(i, k + 1)
  PROVE  At(p + 1)'
<1>1. /\ \A j : Result(j)' = Result(j) /\ Start(j)' = Start(j)
      /\ Statements' = Statements
  BY SameAnswer
<1>2. Start(i - 1) \in Nat /\ k + 1 \in 0..Len(Result(i)) /\ Len(Result(i)) \in Nat
  <2>1. i \in DOMAIN sql
    BY RanIs, Called1
  <2>2. Result(i) \in Seq(Message)
    BY <2>1, ResultIs
  <2> QED
    BY <2>1, <2>2, StartGrows
<1>3. p + 1 = Start(i - 1) + (k + 1)
  BY <1>2 DEF AtSimple
<1>4. ReadOf(i, k + 1)' = ReadOf(i, k + 1)
  BY DEF ReadOf, RowsUpto, RowLists, RowsIn
<1>5. AtSimple(p + 1, i, k + 1)'
  BY <1>1, <1>3, <1>4 DEF AtSimple
<1>6. PlacedSimple(p + 1)'
  BY <1>1, <1>2, <1>5 DEF PlacedSimple
<1> QED
  BY <1>6 DEF At

\* One message more of a statement's answer.
LEMMA ReadMore ==
  ASSUME Called, NEW i \in DOMAIN sql, NEW k \in Nat
  PROVE  /\ sql[i].kind # "select" => ReadOf(i, k + 1) = ReadOf(i, k)
         /\ sql[i].kind = "select" /\ k = 0 => ReadOf(i, k + 1) = ReadOf(i, k)
         /\ sql[i].kind = "select" /\ k > sql[i].rows => ReadOf(i, k + 1) = ReadOf(i, k)
         /\ sql[i].kind = "select" /\ k \in 1..sql[i].rows =>
              ReadOf(i, k + 1) = Append(ReadOf(i, k), <<i, k>>)
<1> DEFINE s == sql[i]
           a == RowsUpto(i - 1)
           S == Nat \X Nat
<1>1. s.rows \in Nat /\ i \in Nat /\ a \in Seq(S)
  <2>1. s \in Statement /\ i \in Nat
    BY Called1
  <2> QED
    BY <2>1, StatementIs, RowsGrow DEF Called
<1>2. s.kind # "select" => ReadOf(i, k + 1) = ReadOf(i, k)
  BY DEF ReadOf
<1>3. s.kind = "select" /\ k = 0 => ReadOf(i, k + 1) = ReadOf(i, k)
  <2>1. SUFFICES ASSUME s.kind = "select", k = 0 PROVE ReadOf(i, k + 1) = ReadOf(i, k)
    OBVIOUS
  <2>2. Least((k + 1) - 1, s.rows) = 0 /\ k + 1 > 0 /\ ~(k > 0)
    BY <1>1, <2>1 DEF Least
  <2>3. FirstRows(i, 0) = <<>>
    BY <1>1, FirstRowsAre
  <2> QED
    BY <2>1, <2>2, <2>3 DEF ReadOf
<1>4. s.kind = "select" /\ k > s.rows => ReadOf(i, k + 1) = ReadOf(i, k)
  <2>1. SUFFICES ASSUME s.kind = "select", k > s.rows PROVE ReadOf(i, k + 1) = ReadOf(i, k)
    OBVIOUS
  <2>2. /\ Least((k + 1) - 1, s.rows) = s.rows /\ Least(k - 1, s.rows) = s.rows
        /\ k + 1 > 0 /\ k > 0
    <3> HIDE DEF s
    <3> QED
      BY <1>1, <2>1 DEF Least
  <2> QED
    BY <2>1, <2>2 DEF ReadOf
<1>5. s.kind = "select" /\ k \in 1..s.rows => ReadOf(i, k + 1) = Append(ReadOf(i, k), <<i, k>>)
  <2>1. SUFFICES ASSUME s.kind = "select", k \in 1..s.rows
                 PROVE  ReadOf(i, k + 1) = Append(ReadOf(i, k), <<i, k>>)
    OBVIOUS
  <2>2. /\ Least((k + 1) - 1, s.rows) = k /\ Least(k - 1, s.rows) = k - 1
        /\ k + 1 > 0 /\ k > 0 /\ k - 1 \in Nat /\ (k - 1) + 1 = k
    <3> HIDE DEF s
    <3> QED
      BY <1>1, <2>1 DEF Least
  <2> DEFINE f == FirstRows(i, k - 1)
             e == <<i, k>>
  <2>3. ReadOf(i, k + 1) = a \o FirstRows(i, k) /\ ReadOf(i, k) = a \o f
    BY <2>1, <2>2 DEF ReadOf
  <2>4. f \in Seq(S) /\ Append(f, <<i, (k - 1) + 1>>) = FirstRows(i, (k - 1) + 1) /\ e \in S
    BY <1>1, <2>2, FirstRowsAre
  <2>5. Append(f, e) = FirstRows(i, k)
    BY <2>2, <2>4
  <2> HIDE DEF a, f, e, S
  <2>6. a \in Seq(S) /\ f \in Seq(S) /\ e \in S
    BY <1>1, <2>4
  <2>7. a \o Append(f, e) = Append(a \o f, e)
    <3>1. <<e>> \in Seq(S) /\ a \o f \in Seq(S)
      BY <2>6, ConcatProperties
    <3>2. Append(f, e) = f \o <<e>> /\ Append(a \o f, e) = (a \o f) \o <<e>>
      BY <2>6, <3>1, AppendIsConcat
    <3>3. (a \o f) \o <<e>> = a \o (f \o <<e>>)
      BY <2>6, <3>1, ConcatAssociative
    <3> QED
      BY <3>2, <3>3
  <2> QED
    BY <2>3, <2>5, <2>7 DEF e
<1> QED
  BY <1>2, <1>3, <1>4, <1>5

LEMMA AllRead ==
  ASSUME Called, AtSimple(Len(Whole), Statements, Len(Result(Statements))),
         op \in Simple, ~Copies(Whole)
  PROVE  seen.rows = AllRows
<1>1. /\ Statements \in DOMAIN sql /\ RunsLast(Statements)
      /\ ~(sql[Statements].kind = "copyIn") /\ Result(Statements) \in Seq(Message)
      /\ Len(Result(Statements)) >= 1
  BY LastIs, RanIs, WholeCopies, ResultIs
<1>2. Statements = Len(sql)
  BY <1>1 DEF RunsLast
<1>3. sql[Statements].kind \notin {"copyIn", "copyOut"}
  BY <1>1 DEF AtSimple
<1>4. seen.rows = RowsUpto(Len(sql))
  BY <1>1, <1>2, <1>3, StatementRead DEF AtSimple
<1> QED
  BY <1>4 DEF AllRows, RowsUpto, RowLists

LEMMA SimpleReads ==
  ASSUME Called, NEW n \in Nat, NEW p \in Nat, NEW q \in Nat, NEW tl \in Tails,
         Reading(n, p, q, tl), Heard(n, p, q, tl), result = "none", ReadSimple,
         DOMAIN seen = {"rows", "affected", "columns"}
  PROVE  Goes(n, p, q, tl)
<1>1. op = "simple_query" /\ stage = "simple_query" /\ op \in Simple /\ PlacedSimple(p)
  <2>1. stage = "simple_query" /\ At(p)
    BY DEF Reading, ReadSimple, Hears
  <2> QED
    BY <2>1 DEF At, AtRows, Simple
<1>2. ReadMessage /\ UNCHANGED <<op, sql, outcome>>
  BY DEF ReadSimple, ReadMessage
<1>3. ASSUME M \in Message, NEW i \in 1..Statements, NEW k \in 0..Len(Result(i)) - 1,
             AtSimple(p, i, k)
      PROVE  Goes(n, p, q, tl)
  <2> DEFINE s == sql[i]
  <2>1. M = Whole[p + 1]
    BY <1>3, Ends DEF Message, Types, Heard
  <2>2. i \in DOMAIN sql /\ i \in Nat /\ i # 0 /\ s.rows \in Nat /\ k \in Nat
    <3>1. i \in DOMAIN sql
      BY RanIs, Called1
    <3>2. s \in Statement /\ i \in Nat /\ i # 0 /\ Result(i) \in Seq(Message)
      BY <3>1, Called1, ResultIs
    <3> QED
      BY <3>1, <3>2, StatementIs DEF Called
  <2>3. M = Result(i)[k + 1] /\ k + 1 \in 1..Len(Result(i))
    BY <1>1, <2>1, NotTheEnd, <1>3 DEF AtSimple
  <2>4. \/ s.kind = "select" /\ k + 1 = 1 /\ M = Msg("RowDescription", i, 0)
        \/ s.kind = "select" /\ (k + 1) - 1 \in 1..s.rows /\ M = Msg("DataRow", i, (k + 1) - 1)
        \/ s.kind = "select" /\ k + 1 = s.rows + 2 /\ M.type = "CommandComplete"
        \/ s.kind \in {"command", "empty"} /\ k + 1 = 1
             /\ M.type \in {"CommandComplete", "EmptyQuery"}
        \/ s.kind \in {"copyIn", "copyOut"}
             /\ (k + 1 = 1 => M.type \in {"CopyInResponse", "CopyOutResponse"})
    BY <2>2, <2>3, ResultAt
  <2>5. CASE s.kind = "select" /\ k = 0 /\ M = Msg("RowDescription", i, 0)
    <3>1. M.type = "RowDescription" /\ M.of = i
      BY <2>5, Msgs
    <3>2. Stay /\ seen' = [seen EXCEPT !.columns = i]
      BY <3>1 DEF ReadSimple, Refused, NextColumns
    <3>3. UNCHANGED <<stage, todo, result>> /\ seen'.columns = i /\ seen'.rows = seen.rows
      BY <3>2 DEF Stay, Continue
    <3>4. seen'.rows = ReadOf(i, k + 1)
      BY <1>3, <2>2, <2>5, <3>3, ReadMore DEF AtSimple
    <3>5. At(p + 1)'
      BY <1>1, <1>2, <1>3, <2>5, <3>3, <3>4, SimpleStays
    <3> QED
      BY <1>2, <1>3, <3>3, <3>5, Continues
  <2>6. CASE s.kind = "select" /\ k \in 1..s.rows /\ M = Msg("DataRow", i, k)
    <3>1. M.type = "DataRow" /\ M.n = k
      BY <2>6, Msgs
    <3>2. seen.columns = i /\ seen.columns # 0
      BY <1>3, <2>2, <2>6 DEF AtSimple
    <3>3. Stay /\ seen' = [seen EXCEPT !.rows = Append(@, <<i, k>>)]
      BY <3>1, <3>2 DEF ReadSimple, Refused
    <3>4. /\ UNCHANGED <<stage, todo, result>> /\ seen'.columns = i
          /\ seen'.rows = Append(seen.rows, <<i, k>>)
      BY <3>2, <3>3 DEF Stay, Continue
    <3>5. seen'.rows = ReadOf(i, k + 1)
      <4>1. seen.rows = ReadOf(i, k)
        BY <1>3 DEF AtSimple
      <4>2. ReadOf(i, k + 1) = Append(ReadOf(i, k), <<i, k>>)
        BY <2>2, <2>6, ReadMore
      <4> QED
        BY <3>4, <4>1, <4>2, Zenon
    <3>6. At(p + 1)'
      BY <1>1, <1>2, <1>3, <2>6, <3>4, <3>5, SimpleStays
    <3> QED
      BY <1>2, <1>3, <3>4, <3>6, Continues
  <2>7. CASE s.kind = "select" /\ k = s.rows + 1 /\ M.type = "CommandComplete"
    <3>1. Stay /\ seen' = [seen EXCEPT !.affected = M.n]
      BY <2>7 DEF ReadSimple, Refused
    <3>2. /\ UNCHANGED <<stage, todo, result>>
          /\ seen'.columns = seen.columns /\ seen'.rows = seen.rows
      BY <3>1 DEF Stay, Continue
    <3>3. seen.columns = i
      BY <1>3, <2>2, <2>7 DEF AtSimple
    <3>4. seen'.rows = ReadOf(i, k + 1)
      <4>1. k > s.rows
        BY <2>2, <2>7
      <4> QED
        BY <1>3, <2>2, <2>7, <3>2, <4>1, ReadMore DEF AtSimple
    <3>5. At(p + 1)'
      BY <1>1, <1>2, <1>3, <2>7, <3>2, <3>3, <3>4, SimpleStays
    <3> QED
      BY <1>2, <1>3, <3>2, <3>5, Continues
  <2>8. CASE s.kind \in {"command", "empty"} /\ M.type \in {"CommandComplete", "EmptyQuery"}
    <3>1. Stay /\ seen' = [seen EXCEPT !.affected = M.n]
      BY <2>8 DEF ReadSimple, Refused
    <3>2. UNCHANGED <<stage, todo, result>> /\ seen'.rows = seen.rows
      BY <3>1 DEF Stay, Continue
    <3>3. seen'.rows = ReadOf(i, k + 1)
      BY <1>3, <2>2, <2>8, <3>2, ReadMore DEF AtSimple
    <3>4. At(p + 1)'
      BY <1>1, <1>2, <1>3, <2>8, <3>2, <3>3, SimpleStays
    <3> QED
      BY <1>2, <1>3, <3>2, <3>4, Continues
  <2>9. CASE s.kind \in {"copyIn", "copyOut"}
    <3>1. k = 0
      BY <1>3, <2>2, <2>9 DEF AtSimple
    <3>2. M.type \in {"CopyInResponse", "CopyOutResponse"}
      BY <2>4, <2>9, <3>1
    <3>3. \E E : Refused(E)
      BY <3>2 DEF ReadSimple
    <3>4. ~Fits
      BY <1>1, <2>2, <2>9, CopyingAlarms
    <3> QED
      BY <1>2, <3>3, <3>4, Refusing DEF Goes
  <2>10. /\ k + 1 = 1 => k = 0
         /\ (k + 1) - 1 = k
         /\ k + 1 = s.rows + 2 => k = s.rows + 1
    <3> HIDE DEF s
    <3> QED
      BY <2>2
  <2> HIDE DEF s
  <2> QED
    BY <2>4, <2>5, <2>6, <2>7, <2>8, <2>9, <2>10, Zenon
<1>4. CASE M = Err
  <2>1. \E E : Refused(E)
    BY <1>4, Ends DEF ReadSimple
  <2> QED
    BY <1>2, <1>4, <2>1, Refusing DEF Goes
<1>5. \/ \E i \in 1..Statements : \E k \in 0..Len(Result(i)) - 1 : AtSimple(p, i, k)
      \/ AtSimple(p, Statements, Len(Result(Statements))) /\ p = Len(Whole)
  BY <1>1, SimplePlace
<1>6. CASE /\ M = Rdy /\ p = Len(Whole) /\ outcome = "committed" /\ todo = <<>>
           /\ ~Copies(Whole) /\ AtSimple(p, Statements, Len(Result(Statements)))
  <2>1. stage' = "done" /\ result' = "ok" /\ UNCHANGED <<todo, seen>>
    BY <1>6, Ends DEF ReadSimple, Refused, Returns
  <2>2. seen'.rows = AllRows'
    BY <1>1, <1>2, <1>6, <2>1, AllRead, SameRows
  <2>3. ResultExact'
    BY <1>1, <1>2, <2>2 DEF ResultExact, One, Opt, Scalar
  <2> QED
    BY <1>2, <1>6, <2>1, <2>3, ReadToEnd DEF Goes
<1>7. ASSUME NEW i \in 1..Statements, NEW k \in 0..Len(Result(i)) - 1, AtSimple(p, i, k)
      PROVE  p < Len(Whole)
  BY <1>1, <1>7, NotTheEnd DEF AtSimple
<1>8. Len(Whole) \in Nat
  BY WholeAny
<1>9. CASE M \in Message
  <2>1. p # Len(Whole)
    BY <1>8, <1>9, Ends DEF Message, Types, Heard
  <2> QED
    BY <1>3, <1>5, <1>9, <2>1
<1> QED
  <2>1. ~(p < Len(Whole) /\ p = Len(Whole))
    BY <1>8
  <2>2. M \in Message \/ M = Err
        \/ (M = Rdy /\ p = Len(Whole) /\ ~Copies(Whole) /\ outcome = "committed" /\ todo = <<>>)
    BY DEF Heard
  <2> QED
    BY <1>4, <1>5, <1>6, <1>7, <1>9, <2>1, <2>2, Zenon
-----------------------------------------------------------------------------
(* The invariant is kept.                                                  *)

LEMMA SeenKeeps ==
  ASSUME Read, DOMAIN seen = {"rows", "affected", "columns"}
  PROVE  DOMAIN seen' = {"rows", "affected", "columns"} /\ UNCHANGED <<op, sql>>
<1>1. CASE ReadBindComplete
  BY <1>1 DEF ReadBindComplete, Refused, ReadMessage
<1>2. CASE ReadTypedColumns
  BY <1>2 DEF ReadTypedColumns, Refused, ReadMessage
<1>3. CASE ReadRow
  BY <1>3 DEF ReadRow, Refused, ReadMessage
<1>4. CASE ReadCount
  BY <1>4 DEF ReadCount, Refused, ReadMessage
<1>5. CASE ReadTypedCount
  BY <1>5 DEF ReadTypedCount, Refused, ReadMessage
<1>6. CASE ReadPrepared
  BY <1>6 DEF ReadPrepared, Refused, ReadMessage
<1>7. CASE ReadSync
  BY <1>7 DEF ReadSync, Refused, ReadMessage
<1>8. CASE ReadSimple
  BY <1>8 DEF ReadSimple, Refused, ReadMessage
<1>9. CASE ReadBatch
  BY <1>9 DEF ReadBatch, Refused, ReadMessage
<1>10. CASE ReadCopyOut
  BY <1>10 DEF ReadCopyOut, Refused, ReadMessage
<1>11. CASE ReadData
  BY <1>11 DEF ReadData, Refused, ReadMessage
<1>12. CASE ReadCopyIn
  BY <1>12 DEF ReadCopyIn, Refused, ReadMessage
<1>13. CASE ReadFinish
  BY <1>13 DEF ReadFinish, Refused, ReadMessage
<1> QED
  BY <1>1, <1>2, <1>3, <1>4, <1>5, <1>6, <1>7, <1>8, <1>9, <1>10, <1>11, <1>12, <1>13 DEF Read

LEMMA ReadHears ==
  ASSUME Read
  PROVE  /\ replies # <<>>
         /\ ReadFinish <=> stage = "finish"
         /\ stage \notin {"idle", "done", "sink"}
BY DEF Read, ReadBindComplete, ReadTypedColumns, ReadRow, ReadCount, ReadTypedCount, ReadPrepared,
       ReadSync, ReadSimple, ReadBatch, ReadCopyOut, ReadData, ReadCopyIn, ReadFinish, Hears

LEMMA AtStage ==
  ASSUME NEW p \in Nat, At(p)
  PROVE  stage \notin {"finish", "idle", "done"}
BY DEF At, AtRows

LEMMA CallReads ==
  ASSUME Called, NEW n \in Nat, NEW p \in Nat, NEW q \in Nat, NEW tl \in Tails,
         Reading(n, p, q, tl), result = "none", DOMAIN seen = {"rows", "affected", "columns"},
         Read
  PROVE  Goes(n, p, q, tl)
<1>1. Heard(n, p, q, tl)
  BY ReadHears, Hearing
<1>2. ~ReadFinish
  BY AtStage, ReadHears DEF Reading
<1>3. CASE ReadBindComplete
  BY <1>1, <1>3, BindReads
<1>4. CASE ReadTypedColumns
  BY <1>1, <1>4, DescribeReads
<1>5. CASE ReadRow
  BY <1>1, <1>5, RowReads
<1>6. CASE ReadCount
  BY <1>1, <1>6, CountReads
<1>7. CASE ReadTypedCount
  BY <1>1, <1>7, TypedCountReads
<1>8. CASE ReadPrepared
  BY <1>1, <1>8, PreparedReads
<1>9. CASE ReadSync
  BY <1>1, <1>9, SyncReads
<1>10. CASE ReadSimple
  BY <1>1, <1>10, SimpleReads
<1>11. CASE ReadBatch
  BY <1>1, <1>11, BatchReads
<1>12. CASE ReadCopyOut
  BY <1>1, <1>12, CopyOutReads
<1>13. CASE ReadData
  BY <1>1, <1>13, DataReads
<1>14. CASE ReadCopyIn
  BY <1>1, <1>14, CopyInReads
<1> QED
  BY <1>2, <1>3, <1>4, <1>5, <1>6, <1>7, <1>8, <1>9, <1>10, <1>11, <1>12, <1>13, <1>14 DEF Read

LEMMA BusyReads ==
  ASSUME Called, Busy, DOMAIN seen = {"rows", "affected", "columns"}, Read
  PROVE  Busy' \/ Settled'
<1>1. CASE Finishing
  <2>1. ReadFinish
    BY <1>1, ReadHears DEF Finishing
  <2> QED
    BY <1>1, <2>1, FinishReads
<1>2. CASE ~Finishing
  <2>1. PICK n, p, q \in Nat, tl \in Tails : Reading(n, p, q, tl)
    BY <1>2 DEF Busy
  <2>2. (Reading(n, p + 1, q, tl)' /\ result' = "none") \/ Settled'
    BY <2>1, CallReads DEF Busy, Goes
  <2>3. p + 1 \in Nat /\ tl \in Tails'
    BY DEF Tails
  <2>4. Reading(n, p + 1, q, tl)' /\ result' = "none" => Busy'
    BY <2>3 DEF Busy
  <2> QED
    BY <2>2, <2>4
<1> QED
  BY <1>1, <1>2

LEMMA BusyServed ==
  ASSUME Called, Busy, Server
  PROVE  Busy'
<1>1. result' = "none"
  BY ServerSteps DEF Busy
<1>2. CASE Finishing
  BY <1>1, <1>2, ServerFinishes DEF Busy
<1>3. CASE ~Finishing
  <2>1. PICK n, p, q \in Nat, tl \in Tails : Reading(n, p, q, tl)
    BY <1>3 DEF Busy
  <2>2. \E n1, p1, q1 \in Nat, tl1 \in Tails : Reading(n1, p1, q1, tl1)'
    BY <2>1, ServerReads
  <2> QED
    BY <1>1, <2>2 DEF Busy, Tails
<1> QED
  BY <1>2, <1>3

LEMMA BusyFinishes ==
  ASSUME Called, Busy, FinishCopy
  PROVE  Busy'
<1>1. ~Finishing
  BY DEF FinishCopy, Finishing
<1>2. PICK n, p, q \in Nat, tl \in Tails : Reading(n, p, q, tl)
  BY <1>1 DEF Busy
<1>3. Finishing'
  BY <1>2, CopyFinishes
<1> QED
  BY <1>3 DEF Busy, FinishCopy

LEMMA Stutters ==
  ASSUME Called, Busy \/ Settled, UNCHANGED vars
  PROVE  Busy' \/ Settled'
<1>1. UNCHANGED <<op, sql, todo, srv, outcome, replies, stage, seen, result>>
  BY DEF vars
<1>2. CASE Settled
  <2>1. Lost' <=> Lost
    BY <1>1 DEF Lost
  <2>2. Unfinished' <=> Unfinished
    BY <1>1, <2>1 DEF Unfinished
  <2>3. ResultExact' /\ NoFalseAlarm'
    BY <1>1, <1>2, SamePromise DEF Settled
  <2> QED
    BY <1>1, <1>2, <2>1, <2>2, <2>3 DEF Settled
<1>3. CASE result = "none" /\ Finishing
  BY <1>1, <1>3 DEF Busy, Finishing, Tag, Err, Rdy
<1>4. CASE /\ result = "none"
           /\ \E n, p, q \in Nat, tl \in Tails : Reading(n, p, q, tl)
  <2>1. PICK n, p, q \in Nat, tl \in Tails : Reading(n, p, q, tl)
    BY <1>4
  <2>2. Whole' = Whole /\ Upto(n)' = Upto(n)
    BY <1>1, SameAnswer
  <2>3. At(p)'
    BY <1>1, <2>1, SamePlace DEF Reading
  <2>4. Served(n, q, tl)'
    BY <1>1, <2>1, <2>2 DEF Reading, Served, Copies
  <2>5. Reading(n, p, q, tl)'
    BY <1>1, <2>1, <2>2, <2>3, <2>4 DEF Reading
  <2>6. tl \in Tails'
    BY DEF Tails
  <2> QED
    BY <1>1, <1>4, <2>5, <2>6 DEF Busy
<1> QED
  BY <1>2, <1>3, <1>4 DEF Busy

LEMMA BusyStage ==
  ASSUME Busy \/ Settled
  PROVE  stage # "idle" /\ (Settled => stage = "done") /\ (Busy => stage # "done")
BY AtStage DEF Busy, Settled, Finishing, Reading

LEMMA AnswersInit == Init => AnswersInv
BY DEF Init, AnswersInv, Idle

LEMMA AnswersNext ==
  ASSUME MaxRows \in Nat, MaxTexts \in Nat \ {0}, AnswersInv, [Next]_vars
  PROVE  AnswersInv'
<1>1. CASE Idle
  <2>1. CASE \E o \in Ops : \E text \in Texts(o) : Call(o, text)
    <3>0. PICK o \in Ops : \E text \in Texts(o) : Call(o, text)
      BY <2>1
    <3>1. PICK text \in Texts(o) : Call(o, text)
      BY <3>0
    <3>2. Called' /\ Busy' /\ DOMAIN seen' = {"rows", "affected", "columns"}
      BY <1>1, <3>1, Calling
    <3> QED
      BY <3>2 DEF AnswersInv, Called
  <2>2. ~Server /\ ~Read /\ ~FinishCopy /\ ~Drop
    BY <1>1, ReadHears DEF Idle, Server, FinishCopy, Drop
  <2>3. CASE UNCHANGED vars
    BY <1>1, <2>3 DEF vars, Idle, AnswersInv
  <2> QED
    BY <2>1, <2>2, <2>3 DEF Next
<1>2. CASE ~Idle
  <2>1. /\ Called /\ DOMAIN seen = {"rows", "affected", "columns"}
        /\ Busy \/ Settled
    BY <1>2 DEF AnswersInv, Called
  <2>2. stage # "idle" /\ (Settled => stage = "done") /\ (Busy => stage # "done")
    BY <2>1, BusyStage
  <2> DEFINE Kept == /\ UNCHANGED <<op, sql>> /\ DOMAIN seen' = {"rows", "affected", "columns"}
                     /\ Busy' \/ Settled'
  <2>3. ASSUME Kept PROVE AnswersInv'
    <3>1. op' \in Ops /\ sql' \in Texts(op)'
      BY <2>1, <2>3 DEF Called, Texts
    <3> QED
      BY <2>3, <3>1 DEF AnswersInv
  <2>4. CASE Server
    <3>1. CASE Settled
      BY <2>1, <2>4, <3>1, ServerSettles, ServerSteps, <2>3
    <3>2. CASE Busy
      BY <2>1, <2>4, <3>2, BusyServed, ServerSteps, <2>3
    <3> QED
      BY <2>1, <3>1, <3>2
  <2>5. CASE Read
    <3>1. Busy
      BY <2>1, <2>2, <2>5, ReadHears
    <3> QED
      BY <2>1, <2>5, <3>1, BusyReads, SeenKeeps, <2>3
  <2>6. CASE FinishCopy
    <3>1. Busy
      BY <2>1, <2>2, <2>6 DEF FinishCopy
    <3>2. UNCHANGED <<op, sql, seen>>
      BY <2>6 DEF FinishCopy
    <3> QED
      BY <2>1, <2>6, <3>1, <3>2, BusyFinishes, <2>3
  <2>7. CASE Drop
    <3>1. Busy
      BY <2>1, <2>2, <2>7 DEF Drop
    <3>2. UNCHANGED <<op, sql, seen>>
      BY <2>7 DEF Drop
    <3> QED
      BY <2>1, <2>7, <3>1, <3>2, Dropping, <2>3
  <2>8. CASE UNCHANGED vars
    <3>1. Busy' \/ Settled'
      BY <2>1, <2>8, Stutters
    <3>2. UNCHANGED <<op, sql, seen>>
      BY <2>8 DEF vars
    <3> QED
      BY <2>1, <3>1, <3>2, <2>3
  <2>9. ~(\E o \in Ops : \E text \in Texts(o) : Call(o, text))
    BY <2>2 DEF Call
  <2> QED
    BY <2>4, <2>5, <2>6, <2>7, <2>8, <2>9 DEF Next
<1> QED
  BY <1>1, <1>2

-----------------------------------------------------------------------------
(* What it says.                                                           *)

\* A copy that is being read for is not committed before it is finished.
LEMMA CopyUncommitted ==
  ASSUME Called, op = "copy_in", sql[1].kind = "copyIn",
         NEW n \in Nat, NEW p \in Nat, NEW q \in Nat, NEW tl \in Tails, Reading(n, p, q, tl)
  PROVE  outcome # "committed"
BY CopyState DEF Lost

LEMMA AnswersHolds ==
  ASSUME MaxRows \in Nat, MaxTexts \in Nat \ {0}, AnswersInv
  PROVE  OkMeansCommitted /\ ResultExact /\ NoFalseAlarm
<1>1. CASE Idle
  BY <1>1 DEF Idle, OkMeansCommitted, ResultExact, NoFalseAlarm
<1>2. CASE Called /\ Busy
  <2>1. result = "none"
    BY <1>2 DEF Busy
  <2>2. op = "copy_in" /\ sql[1].kind = "copyIn" /\ outcome = "committed" => stage = "finish"
    <3>1. SUFFICES ASSUME op = "copy_in", sql[1].kind = "copyIn", ~Finishing
                   PROVE  outcome # "committed"
      BY DEF Finishing
    <3>2. PICK n, p, q \in Nat, tl \in Tails : Reading(n, p, q, tl)
      BY <1>2, <3>1 DEF Busy
    <3> QED
      BY <1>2, <3>1, <3>2, CopyUncommitted
  <2> QED
    BY <2>1, <2>2 DEF OkMeansCommitted, ResultExact, NoFalseAlarm
<1>3. CASE Called /\ Settled
  <2>1. Unfinished => outcome # "committed"
    BY DEF Unfinished, Lost
  <2>2. result = "db" => outcome # "committed"
    BY <1>3 DEF Settled, Lost
  <2>3. OkMeansCommitted
    BY <1>3, <2>1, <2>2 DEF Settled, OkMeansCommitted
  <2> QED
    BY <1>3, <2>3 DEF Settled
<1> QED
  BY <1>1, <1>2, <1>3 DEF AnswersInv, Called
=============================================================================
