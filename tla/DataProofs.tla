------------------------------ MODULE DataProofs ------------------------------
(***************************************************************************)
(* The bytes of the client data: what holds of the batches the codec cuts  *)
(* out of what has arrived, of a COPY that is read as bytes or as rows,    *)
(* and of a COPY that is written, through its three buffers.  A is the     *)
(* answers, of which it needs the lemmas about sets of naturals and about  *)
(* sequences of sequences.                                                 *)
(***************************************************************************)
EXTENDS DataParts, SequenceTheorems, TLAPS

A == INSTANCE AnswersProofs

-----------------------------------------------------------------------------
(* Batches.                                                                *)

\* A byte is a number, or the tag of a message.
Tags ==
  Decoder!Bare \cup Decoder!Asynchronous
    \cup {"CommandComplete", "CopyData", "DataRow", "ErrorResponse", "CopyInResponse",
          "CopyOutResponse", "BackendKeyData", "Authentication", "ParameterDescription",
          "RowDescription", "ReadyForQuery", "Unknown"}
Octets == Int \cup Tags

\* P has the places of b where a message starts, and the one after the last; the length of
\* a message is a number, and says where the next one starts.
Aligned(b, P) ==
  /\ P \subseteq 1..Len(b) + 1 /\ 1 \in P
  /\ \A i \in P :
       i + 1 <= Len(b) =>
         /\ b[i + 1] \in Nat
         /\ b[i + 1] >= 1 /\ i + b[i + 1] <= Len(b) => i + b[i + 1] + 1 \in P

LEMMA WholeIs ==
  ASSUME NEW b \in Seq(Octets), NEW P, Aligned(b, P), NEW i \in P
  PROVE  LET n == Decoder!Whole(b, i)
         IN /\ n \in Int /\ i \in 1..Len(b) + 1
            /\ n > 0 => /\ n >= 2 /\ i + n \in P /\ i + n - 1 <= Len(b)
                        /\ n = b[i + 1] + 1 /\ b[i + 1] >= 1
<1>1. Len(b) \in Nat /\ i \in 1..Len(b) + 1
  BY DEF Aligned
<1>2. CASE i + 1 > Len(b)
  BY <1>1, <1>2 DEF Decoder!Whole, Decoder!HeaderLen
<1>3. CASE i + 1 <= Len(b)
  <2>1. /\ b[i + 1] \in Nat
        /\ b[i + 1] >= 1 /\ i + b[i + 1] <= Len(b) => i + b[i + 1] + 1 \in P
    BY <1>3 DEF Aligned
  <2>2. Decoder!Whole(b, i) = IF b[i + 1] < 1 THEN -1 ELSE IF Len(b) < i + b[i + 1] THEN 0 ELSE b[i + 1] + 1
    BY <1>1, <1>3 DEF Decoder!Whole, Decoder!HeaderLen, Decoder!MinLen
  <2> DEFINE n == b[i + 1]
  <2> HIDE DEF n
  <2> QED
    BY <1>1, <2>1, <2>2 DEF n
<1> QED
  BY <1>1, <1>2, <1>3

\* From a place on to the next.
Following(b, i) == IF Decoder!Whole(b, i) > 0 THEN i + Decoder!Whole(b, i) ELSE i

LEMMA StartsExist ==
  ASSUME NEW b \in Seq(Octets), NEW P, Aligned(b, P)
  PROVE  \E f \in [0..Len(b) -> P] :
           f = [k \in 0..Len(b) |-> IF k = 0 THEN 1 ELSE Following(b, f[k - 1])]
<1> DEFINE So(m, f) == f[0] = 1 /\ \A k \in 1..m : f[k] = Following(b, f[k - 1])
           T == {m \in Nat : \E f \in [0..m -> P] : So(m, f)}
<1>1. \A i \in P : Following(b, i) \in P
  BY WholeIs DEF Following
<1>2. 0 \in T
  <2>1. [k \in 0..0 |-> 1] \in [0..0 -> P] /\ So(0, [k \in 0..0 |-> 1])
    BY DEF Aligned
  <2> HIDE DEF So
  <2> QED
    BY <2>1
<1>3. ASSUME NEW m \in Nat, m \in T PROVE m + 1 \in T
  <2>1. PICK f \in [0..m -> P] : So(m, f)
    <3> HIDE DEF So
    <3> QED
      BY <1>3
  <2> DEFINE next == Following(b, f[m])
             g == [k \in 0..m + 1 |-> IF k <= m THEN f[k] ELSE next]
  <2>2. next \in P
    BY <1>1
  <2>3. g \in [0..m + 1 -> P]
    <3> HIDE DEF next
    <3> QED
      BY <2>2
  <2>4. /\ \A k \in 0..m : g[k] = f[k]
        /\ g[m + 1] = next
    <3> HIDE DEF next
    <3> QED
      OBVIOUS
  <2>5. ASSUME NEW k \in 1..m + 1 PROVE g[k] = Following(b, g[k - 1])
    <3>1. CASE k \in 1..m
      <4>1. k - 1 \in 0..m /\ k \in 0..m
        BY <3>1
      <4> HIDE DEF g
      <4> QED
        BY <2>1, <2>4, <3>1, <4>1
    <3>2. CASE k = m + 1
      <4>1. k - 1 = m /\ m \in 0..m
        BY <3>2
      <4> HIDE DEF g
      <4> QED
        BY <2>4, <3>2, <4>1
    <3> QED
      BY <3>1, <3>2
  <2>6. g[0] = 1
    <3>1. 0 \in 0..m
      OBVIOUS
    <3> HIDE DEF g
    <3> QED
      BY <2>1, <2>4, <3>1
  <2>7. So(m + 1, g)
    <3> HIDE DEF g
    <3> QED
      BY <2>5, <2>6
  <2> HIDE DEF So, g
  <2> QED
    BY <2>3, <2>7
<1>4. Len(b) \in T
  <2> HIDE DEF T
  <2> QED
    BY <1>2, <1>3, A!NatSetInduction
<1>5. PICK f \in [0..Len(b) -> P] : So(Len(b), f)
  <2> HIDE DEF So
  <2> QED
    BY <1>4
<1>6. f = [k \in 0..Len(b) |-> IF k = 0 THEN 1 ELSE Following(b, f[k - 1])]
  <2>1. f = [k \in 0..Len(b) |-> f[k]]
    OBVIOUS
  <2>2. [k \in 0..Len(b) |-> f[k]]
          = [k \in 0..Len(b) |-> IF k = 0 THEN 1 ELSE Following(b, f[k - 1])]
    <3>1. \A k \in 0..Len(b) : k # 0 => k \in 1..Len(b)
      OBVIOUS
    <3> QED
      BY <1>5, <3>1
  <2> QED
    BY <2>1, <2>2
<1> QED
  BY <1>6

LEMMA StartsAre ==
  ASSUME NEW b \in Seq(Octets), NEW P, Aligned(b, P)
  PROVE  LET S == Decoder!Starts(b)
         IN /\ S \in [0..Len(b) -> P] /\ S[0] = 1
            /\ \A k \in 1..Len(b) : S[k] = Following(b, S[k - 1])
<1> DEFINE h == CHOOSE f : f = [k \in 0..Len(b) |-> IF k = 0 THEN 1 ELSE Following(b, f[k - 1])]
<1>1. PICK f \in [0..Len(b) -> P] :
        f = [k \in 0..Len(b) |-> IF k = 0 THEN 1 ELSE Following(b, f[k - 1])]
  BY StartsExist
<1>2. h = [k \in 0..Len(b) |-> IF k = 0 THEN 1 ELSE Following(b, h[k - 1])]
  BY <1>1, Zenon
<1>3. Decoder!Starts(b) = h
  BY DEF Decoder!Starts, Following
<1> HIDE DEF h
<1>4. h[0] = 1 /\ \A k \in 1..Len(b) : h[k] = Following(b, h[k - 1])
  <2>1. 0 \in 0..Len(b) /\ \A k \in 1..Len(b) : k \in 0..Len(b) /\ k # 0
    OBVIOUS
  <2> QED
    BY <1>2, <2>1, Zenon
<1>5. \A i \in P : Following(b, i) \in P
  BY WholeIs DEF Following
<1>6. \A k \in 0..Len(b) : h[k] \in P
  <2> DEFINE T == {k \in Nat : k <= Len(b) => h[k] \in P}
  <2>1. 0 \in T
    BY <1>4 DEF Aligned
  <2>2. ASSUME NEW k \in Nat, k \in T PROVE k + 1 \in T
    <3> SUFFICES ASSUME k + 1 <= Len(b) PROVE h[k + 1] \in P
      OBVIOUS
    <3>1. k <= Len(b) /\ k + 1 \in 1..Len(b) /\ (k + 1) - 1 = k
      OBVIOUS
    <3>2. h[k] \in P
      BY <2>2, <3>1
    <3>3. h[k + 1] = Following(b, h[k])
      BY <1>4, <3>1
    <3> QED
      BY <1>5, <3>2, <3>3
  <2>3. \A k \in Nat : k \in T
    <3> HIDE DEF T
    <3> QED
      BY <2>1, <2>2, A!NatSetInduction
  <2> QED
    BY <2>3
<1>7. h \in [0..Len(b) -> P]
  <2> QED
    BY <1>2, <1>6
<1> QED
  BY <1>3, <1>4, <1>7

-----------------------------------------------------------------------------
\* The messages before k are whole, and start where Starts says, each of at least two bytes.
Whole(b, k) == \A j \in 0..k - 1 : Decoder!Whole(b, Decoder!Starts(b)[j]) > 0

LEMMA StartsStep ==
  ASSUME NEW b \in Seq(Octets), NEW P, Aligned(b, P), NEW k \in Nat, k + 1 <= Len(b),
         Decoder!Whole(b, Decoder!Starts(b)[k]) > 0
  PROVE  LET S == Decoder!Starts(b)
         IN /\ S[k] \in P /\ S[k + 1] \in P /\ S[k] \in Nat /\ S[k + 1] \in Nat
            /\ S[k + 1] = S[k] + Decoder!Whole(b, S[k])
            /\ S[k + 1] >= S[k] + 2
            /\ Decoder!Whole(b, S[k]) = b[S[k] + 1] + 1 /\ b[S[k] + 1] >= 1
<1> DEFINE S == Decoder!Starts(b)
<1>1. k \in 0..Len(b) /\ k + 1 \in 1..Len(b) /\ k + 1 \in 0..Len(b) /\ (k + 1) - 1 = k
  OBVIOUS
<1>2. S[k] \in P /\ S[k + 1] \in P /\ S[k + 1] = Following(b, S[k])
  BY <1>1, StartsAre
<1>3. P \subseteq Nat
  BY DEF Aligned
<1>4. LET n == Decoder!Whole(b, S[k])
      IN n > 0 => n >= 2 /\ n = b[S[k] + 1] + 1 /\ b[S[k] + 1] >= 1 /\ n \in Int
  <2> HIDE DEF S
  <2> QED
    BY <1>2, WholeIs
<1>5. S[k + 1] = S[k] + Decoder!Whole(b, S[k])
  BY <1>2 DEF Following
<1> DEFINE n == Decoder!Whole(b, S[k])
<1>6. /\ n >= 2 /\ n \in Int /\ S[k] \in Nat /\ S[k + 1] = S[k] + n
      /\ n = b[S[k] + 1] + 1 /\ b[S[k] + 1] >= 1
  BY <1>2, <1>3, <1>4, <1>5
<1> HIDE DEF n, S
<1>7. S[k + 1] >= S[k] + 2 /\ S[k + 1] \in Nat
  BY <1>6
<1> QED
  BY <1>2, <1>6, <1>7 DEF n, S

LEMMA StartsGrow ==
  ASSUME NEW b \in Seq(Octets), NEW P, Aligned(b, P)
  PROVE  \A k \in Nat : k <= Len(b) /\ Whole(b, k) =>
           Decoder!Starts(b)[k] \in Nat /\ Decoder!Starts(b)[k] >= 1 + 2 * k
<1> DEFINE S == Decoder!Starts(b)
           T == {k \in Nat : k <= Len(b) /\ Whole(b, k) => S[k] \in Nat /\ S[k] >= 1 + 2 * k}
<1>1. 0 \in T
  <2>1. S[0] = 1
    BY StartsAre
  <2> HIDE DEF S
  <2> QED
    BY <2>1
<1>2. ASSUME NEW k \in Nat, k \in T PROVE k + 1 \in T
  <2> SUFFICES ASSUME k + 1 <= Len(b), Whole(b, k + 1)
               PROVE  S[k + 1] \in Nat /\ S[k + 1] >= 1 + 2 * (k + 1)
    OBVIOUS
  <2>1. Whole(b, k) /\ Decoder!Whole(b, S[k]) > 0
    BY DEF Whole
  <2>2. S[k] \in Nat /\ S[k] >= 1 + 2 * k
    BY <1>2, <2>1
  <2>3. S[k + 1] >= S[k] + 2 /\ S[k + 1] \in Nat
    BY <2>1, StartsStep
  <2> HIDE DEF S
  <2> QED
    BY <2>2, <2>3
<1> QED
  <2> HIDE DEF T
  <2>1. \A k \in Nat : k \in T
    BY <1>1, <1>2, A!NatSetInduction
  <2> QED
    BY <2>1 DEF T

LEMMA FirstOne ==
  ASSUME NEW n \in Nat, NEW Q, n \in Q
  PROVE  \E k \in 0..n : k \in Q /\ \A j \in 0..k - 1 : j \notin Q
<1> DEFINE T == {m \in Nat : m <= n /\ (\A j \in 0..m : j \notin Q)}
<1>1. SUFFICES ASSUME ~\E k \in 0..n : k \in Q /\ \A j \in 0..k - 1 : j \notin Q
               PROVE  FALSE
  OBVIOUS
<1> DEFINE U == {m \in Nat : m <= n => \A j \in 0..m : j \notin Q}
<1>2. 0 \in U
  <2>1. 0 \in 0..n /\ \A j \in 0..0 - 1 : j \notin Q
    OBVIOUS
  <2>2. 0 \notin Q
    BY <1>1, <2>1
  <2> QED
    BY <2>2
<1>3. ASSUME NEW m \in Nat, m \in U PROVE m + 1 \in U
  <2> SUFFICES ASSUME m + 1 <= n PROVE \A j \in 0..m + 1 : j \notin Q
    OBVIOUS
  <2>1. \A j \in 0..m : j \notin Q
    BY <1>3
  <2>2. m + 1 \in 0..n /\ (m + 1) - 1 = m
    OBVIOUS
  <2>3. m + 1 \notin Q
    BY <1>1, <2>1, <2>2
  <2> QED
    BY <2>1, <2>3
<1>4. n \in U
  <2> HIDE DEF U
  <2> QED
    BY <1>2, <1>3, A!NatSetInduction
<1> QED
  BY <1>4

LEMMA UntilIs ==
  ASSUME NEW b \in Seq(Octets), NEW P, Aligned(b, P), NEW tags
  PROVE  LET k == Decoder!Until(b, tags)
         IN /\ k \in 0..Len(b) /\ Decoder!Stops(b, tags, k)
            /\ \A j \in 0..k - 1 : ~Decoder!Stops(b, tags, j)
<1> DEFINE S == Decoder!Starts(b)
           Q == {j \in 0..Len(b) : Decoder!Stops(b, tags, j)}
<1>1. \E j \in 0..Len(b) : j \in Q
  <2>1. SUFFICES ASSUME \A j \in 0..Len(b) : ~Decoder!Stops(b, tags, j) PROVE FALSE
    OBVIOUS
  <2>2. \A j \in 0..Len(b) : S[j] \in P
    BY StartsAre
  <2>3. \A j \in 0..Len(b) : Decoder!Whole(b, S[j]) > 0
    <3> TAKE j \in 0..Len(b)
    <3>1. ~(Decoder!Whole(b, S[j]) <= 0)
      BY <2>1 DEF Decoder!Stops
    <3>2. Decoder!Whole(b, S[j]) \in Int
      <4>1. S[j] \in P
        BY <2>2
      <4> HIDE DEF S
      <4> QED
        BY <4>1, WholeIs
    <3> QED
      BY <3>1, <3>2
  <2>4. Whole(b, Len(b))
    BY <2>3 DEF Whole
  <2>5. Len(b) \in Nat /\ S[Len(b)] \in Nat /\ S[Len(b)] >= 1 + 2 * Len(b)
    BY <2>4, StartsGrow
  <2>6. S[Len(b)] \in P /\ S[Len(b)] \in 1..Len(b) + 1 /\ Decoder!Whole(b, S[Len(b)]) > 0
    BY <2>2, <2>3, <2>5 DEF Aligned
  <2>7. LET n == Decoder!Whole(b, S[Len(b)])
        IN n \in Int /\ n >= 2 /\ S[Len(b)] + n - 1 <= Len(b)
    <3> HIDE DEF S
    <3> QED
      BY <2>6, WholeIs
  <2> HIDE DEF S
  <2> QED
    BY <2>5, <2>6, <2>7
<1>2. \E k \in 0..Len(b) : Decoder!Stops(b, tags, k) /\ \A j \in 0..k - 1 : ~Decoder!Stops(b, tags, j)
  <2>1. PICK n \in 0..Len(b) : n \in Q
    BY <1>1
  <2>2. PICK k \in 0..n : k \in Q /\ \A j \in 0..k - 1 : j \notin Q
    <3> HIDE DEF Q
    <3> QED
      BY <2>1, FirstOne
  <2>3. k \in 0..Len(b) /\ \A j \in 0..k - 1 : j \in 0..Len(b)
    OBVIOUS
  <2> QED
    BY <2>2, <2>3
<1> QED
  BY <1>2, Zenon DEF Decoder!Until

\* The beginning of b up to the m-th message has the messages of b.
HasFirst(b, e, m) ==
  LET c == SubSeq(b, 1, e)
      R == Decoder!Starts(c)
      S == Decoder!Starts(b)
  IN /\ e \in 0..Len(b) /\ (m > 0 => e > 0) /\ (m = 0 => e = 0)
     /\ Decoder!Until(c, {}) = m
     /\ \A j \in 0..m - 1 : R[j] = S[j] /\ c[R[j]] = b[S[j]]

LEMMA PrefixSame ==
  ASSUME NEW b \in Seq(Octets), NEW P, Aligned(b, P),
         NEW m \in 0..Len(b), Whole(b, m), NEW e, e = Decoder!Starts(b)[m] - 1
  PROVE  HasFirst(b, e, m)
<1> DEFINE c == SubSeq(b, 1, e)
           R == Decoder!Starts(c)
           S == Decoder!Starts(b)
<1>1. S[m] \in P /\ S[m] \in Nat /\ S[m] >= 1 + 2 * m /\ S[m] <= Len(b) + 1 /\ m \in Nat
  <2>1. S[m] \in P
    BY StartsAre
  <2>2. S[m] \in Nat /\ S[m] >= 1 + 2 * m /\ m \in Nat
    BY StartsGrow
  <2> HIDE DEF S
  <2> QED
    BY <2>1, <2>2 DEF Aligned
<1>2. e \in 0..Len(b) /\ e >= 2 * m /\ S[m] = e + 1 /\ (m > 0 => e > 0)
  <2>1. e = S[m] - 1
    OBVIOUS
  <2> HIDE DEF S
  <2> QED
    BY <1>1, <2>1
<1>3. c \in Seq(Octets) /\ Len(c) = e /\ \A i \in 1..e : c[i] = b[i]
  <2>1. 1 \in 1..Len(b) + 1 /\ e \in 1 - 1..Len(b)
    BY <1>2
  <2> QED
    BY <1>2, <2>1, SubSeqProperties
<1>4. m = 0 => e = 0
  <2>1. S[0] = 1
    BY StartsAre
  <2>2. m = 0 => S[m] = 1
    BY <2>1
  <2> DEFINE x == S[m]
  <2>3. x = e + 1 /\ e \in Nat /\ (m = 0 => x = 1)
    BY <1>2, <2>2
  <2>4. \A a \in Nat : a + 1 = 1 => a = 0
    OBVIOUS
  <2> HIDE DEF x
  <2> QED
    BY <2>3, <2>4, Zenon
<1> DEFINE Q == P \cap 1..e + 1
<1>5. Aligned(c, Q)
  <2>1. Q \subseteq 1..e + 1 /\ 1 \in Q
    BY <1>2 DEF Aligned
  <2>2. ASSUME NEW i \in Q, i + 1 <= e
        PROVE  c[i + 1] \in Nat /\ (c[i + 1] >= 1 /\ i + c[i + 1] <= e => i + c[i + 1] + 1 \in Q)
    <3>1. i \in P /\ i + 1 <= Len(b) /\ c[i + 1] = b[i + 1] /\ i \in Nat /\ i >= 1
      BY <1>2, <1>3, <2>1, <2>2
    <3>2. b[i + 1] \in Nat /\ (b[i + 1] >= 1 /\ i + b[i + 1] <= Len(b) => i + b[i + 1] + 1 \in P)
      BY <3>1 DEF Aligned
    <3> DEFINE n == b[i + 1]
    <3>3. n \in Nat /\ (n >= 1 /\ i + n <= Len(b) => i + n + 1 \in P) /\ c[i + 1] = n
      BY <3>1, <3>2
    <3> HIDE DEF n, c
    <3> QED
      BY <1>2, <2>2, <3>1, <3>3
  <2> HIDE DEF Q, c
  <2> QED
    BY <1>3, <2>1, <2>2 DEF Aligned
<1>6. \A j \in 0..m - 1 : S[j + 1] <= e + 1
  <2> DEFINE T == {d \in Nat : d < m => S[m - d] <= e + 1}
  <2>1. 0 \in T
    <3>1. m - 0 = m
      BY <1>1
    <3> HIDE DEF S
    <3> QED
      BY <1>1, <1>2, <3>1
  <2>2. ASSUME NEW d \in Nat, d \in T PROVE d + 1 \in T
    <3> SUFFICES ASSUME d + 1 < m PROVE S[m - (d + 1)] <= e + 1
      OBVIOUS
    <3> DEFINE k == m - (d + 1)
    <3>1. k \in Nat /\ k + 1 = m - d /\ k + 1 <= Len(b) /\ k \in 0..m - 1 /\ d < m
      BY <1>1
    <3>2. Decoder!Whole(b, S[k]) > 0
      <4> HIDE DEF k
      <4> QED
        BY <3>1 DEF Whole
    <3>3. S[k + 1] >= S[k] + 2 /\ S[k] \in Nat /\ S[k + 1] \in Nat
      <4> HIDE DEF k
      <4> QED
        BY <3>1, <3>2, StartsStep
    <3>4. S[k + 1] <= e + 1
      BY <2>2, <3>1
    <3> HIDE DEF S, k
    <3>5. S[k] <= e + 1
      BY <1>2, <3>3, <3>4
    <3> QED
      BY <3>5 DEF k
  <2>3. \A d \in Nat : d \in T
    <3> HIDE DEF T
    <3> QED
      BY <2>1, <2>2, A!NatSetInduction
  <2> TAKE j \in 0..m - 1
  <2>4. m - (j + 1) \in Nat /\ m - (j + 1) < m /\ m - (m - (j + 1)) = j + 1
    BY <1>1
  <2> HIDE DEF S
  <2> QED
    BY <2>3, <2>4
\* The same messages are whole, one by one.
<1>7. ASSUME NEW j \in 0..m - 1
      PROVE  /\ S[j] \in Q /\ S[j] \in 1..e /\ Decoder!Whole(b, S[j]) > 0
             /\ Decoder!Whole(c, S[j]) = Decoder!Whole(b, S[j])
             /\ Following(c, S[j]) = S[j + 1]
  <2>1. j \in Nat /\ j + 1 <= Len(b) /\ Decoder!Whole(b, S[j]) > 0
    BY <1>1 DEF Whole
  <2>2. /\ S[j] \in P /\ S[j] \in Nat /\ S[j + 1] \in Nat
        /\ S[j + 1] = S[j] + Decoder!Whole(b, S[j])
        /\ S[j + 1] >= S[j] + 2
        /\ Decoder!Whole(b, S[j]) = b[S[j] + 1] + 1 /\ b[S[j] + 1] >= 1
    BY <2>1, StartsStep
  <2>3. S[j] >= 1
    <3> HIDE DEF S
    <3> QED
      BY <2>2 DEF Aligned
  <2> DEFINE i == S[j]
             n == b[i + 1]
  <2>4. n \in Nat
    <3>1. i + 1 <= Len(b)
      <4> HIDE DEF S
      <4> QED
        BY <1>2, <1>6, <2>2
    <3> HIDE DEF S, i
    <3> QED
      BY <2>2, <3>1 DEF Aligned, i
  <2>5. /\ i \in P /\ i \in Nat /\ i >= 1 /\ n >= 1 /\ i + n <= e
        /\ Decoder!Whole(b, i) = n + 1 /\ S[j + 1] = i + (n + 1)
    <3>1. S[j + 1] <= e + 1
      BY <1>6
    <3>2. Decoder!Whole(b, i) = n + 1 /\ S[j + 1] = i + (n + 1) /\ n >= 1
      BY <2>2
    <3> HIDE DEF n, S, i
    <3>3. i + n <= e
      BY <1>2, <2>2, <2>4, <3>1, <3>2 DEF i
    <3> QED
      BY <2>2, <2>3, <3>2, <3>3 DEF i
  <2>6. c[i + 1] = n
    <3> HIDE DEF S, i, c
    <3> QED
      BY <1>2, <1>3, <2>4, <2>5 DEF n
  <2>7. Decoder!Whole(c, i) = n + 1
    <3> HIDE DEF S, i, c, n
    <3> QED
      BY <1>2, <1>3, <2>4, <2>5, <2>6 DEF Decoder!Whole, Decoder!HeaderLen, Decoder!MinLen
  <2>8. Following(c, i) = S[j + 1]
    <3> HIDE DEF S, i, c, n
    <3> QED
      BY <2>4, <2>5, <2>7 DEF Following
  <2>9. i \in Q /\ i \in 1..e
    <3> HIDE DEF S, i, c, n
    <3> QED
      BY <1>2, <2>4, <2>5
  <2> QED
    BY <2>1, <2>5, <2>7, <2>8, <2>9
<1>8. \A j \in Nat : j <= m => R[j] = S[j]
  <2> DEFINE T == {j \in Nat : j <= m => R[j] = S[j]}
  <2>1. R[0] = 1 /\ \A k \in 1..Len(c) : R[k] = Following(c, R[k - 1])
    <3> HIDE DEF Q, c
    <3> QED
      BY <1>3, <1>5, StartsAre
  <2>2. 0 \in T
    BY <2>1, StartsAre
  <2>3. ASSUME NEW j \in Nat, j \in T PROVE j + 1 \in T
    <3> SUFFICES ASSUME j + 1 <= m PROVE R[j + 1] = S[j + 1]
      OBVIOUS
    <3>1. j \in 0..m - 1 /\ j + 1 \in 1..e /\ (j + 1) - 1 = j
      BY <1>1, <1>2
    <3>2. R[j] = S[j]
      BY <1>1, <2>3
    <3>3. R[j + 1] = Following(c, R[j])
      <4> HIDE DEF c, R
      <4> QED
        BY <1>3, <2>1, <3>1
    <3> QED
      BY <1>7, <3>1, <3>2, <3>3
  <2>4. \A j \in Nat : j \in T
    <3> HIDE DEF T
    <3> QED
      BY <2>2, <2>3, A!NatSetInduction
  <2> QED
    BY <2>4
<1>9. Decoder!Until(c, {}) = m
  <2>1. LET k == Decoder!Until(c, {})
        IN /\ k \in 0..Len(c) /\ Decoder!Stops(c, {}, k)
           /\ \A j \in 0..k - 1 : ~Decoder!Stops(c, {}, j)
    <3> HIDE DEF Q, c
    <3> QED
      BY <1>3, <1>5, UntilIs
  <2>2. \A j \in 0..m - 1 : ~Decoder!Stops(c, {}, j)
    <3> TAKE j \in 0..m - 1
    <3>1. R[j] = S[j] /\ Decoder!Whole(c, S[j]) > 0 /\ Decoder!Whole(c, S[j]) \in Int
      <4>1. S[j] \in Q /\ Decoder!Whole(c, S[j]) > 0
        BY <1>7
      <4>2. Decoder!Whole(c, S[j]) \in Int
        <5> HIDE DEF S, Q, c
        <5> QED
          BY <1>3, <1>5, <4>1, WholeIs
      <4>3. j \in Nat /\ j <= m
        BY <1>1
      <4> QED
        BY <1>8, <4>1, <4>2, <4>3
    <3> DEFINE w == Decoder!Whole(c, S[j])
    <3>2. ~(w <= 0)
      <4>1. w > 0 /\ w \in Int
        BY <3>1
      <4> HIDE DEF w
      <4> QED
        BY <4>1
    <3> QED
      BY <3>1, <3>2 DEF Decoder!Stops
  <2>3. Decoder!Stops(c, {}, m)
    <3>1. R[m] = e + 1
      <4>1. m \in Nat /\ m <= m
        BY <1>1
      <4>2. R[m] = S[m]
        BY <1>8, <4>1
      <4> QED
        BY <1>2, <4>2
    <3>2. Decoder!Whole(c, e + 1) = 0
      <4>1. Len(c) < (e + 1) - 1 + 2
        BY <1>2, <1>3
      <4> QED
        BY <4>1, Zenon DEF Decoder!Whole, Decoder!HeaderLen
    <3> QED
      BY <3>1, <3>2 DEF Decoder!Stops
  <2> DEFINE k == Decoder!Until(c, {})
  <2>4. k \in Nat /\ m \in Nat
    BY <1>1, <1>2, <1>3, <2>1
  <2>5. ~(m \in 0..k - 1) /\ ~(k \in 0..m - 1)
    BY <2>1, <2>2, <2>3
  <2> HIDE DEF k
  <2>6. k = m
    BY <2>4, <2>5
  <2> QED
    BY <2>6 DEF k
<1>10. \A j \in 0..m - 1 : R[j] = S[j] /\ c[R[j]] = b[S[j]]
  <2> TAKE j \in 0..m - 1
  <2>1. j \in Nat /\ j <= m /\ S[j] \in 1..e
    BY <1>1, <1>7
  <2> QED
    BY <1>3, <1>8, <2>1
<1> QED
  BY <1>2, <1>4, <1>9, <1>10 DEF HasFirst

-----------------------------------------------------------------------------
(* What decode cuts off.                                                   *)

Cuts == Decoder!Asynchronous \cup {"ReadyForQuery"}

\* A batch is the whole messages before the m-th; none of them but perhaps the last is one
\* that ends a batch.
LEMMA BatchIs ==
  ASSUME src \in Seq(Octets), NEW P, Aligned(src, P),
         ~Decoder!BatchEnd.error, Decoder!BatchEnd.end > 0
  PROVE  LET d == Decoder!BatchEnd
             S == Decoder!Starts(src)
         IN \E m \in 1..Len(src) :
              /\ Whole(src, m) /\ d.end = S[m] - 1
              /\ \A j \in 0..m - 2 : src[S[j]] \notin Cuts
              /\ d.complete <=> src[S[m - 1]] = "ReadyForQuery"
              /\ src[S[m - 1]] \in Decoder!Asynchronous => m = 1
<1> DEFINE d == Decoder!BatchEnd
           S == Decoder!Starts(src)
           k == Decoder!Until(src, Cuts)
           i == S[k]
           n == Decoder!Whole(src, i)
<1>1. /\ k \in 0..Len(src) /\ Decoder!Stops(src, Cuts, k)
      /\ \A j \in 0..k - 1 : ~Decoder!Stops(src, Cuts, j)
  BY UntilIs
<1>2. \A j \in 0..Len(src) : S[j] \in P
  BY StartsAre
<1>3. /\ i \in P /\ n \in Int /\ i \in 1..Len(src) + 1
      /\ n > 0 => n >= 2 /\ i + n \in P /\ i + n - 1 <= Len(src)
  <2>1. i \in P
    BY <1>1, <1>2
  <2> HIDE DEF i
  <2> QED
    BY <2>1, WholeIs
<1>4. \A j \in 0..k - 1 : Decoder!Whole(src, S[j]) > 0 /\ src[S[j]] \notin Cuts
  <2> TAKE j \in 0..k - 1
  <2>1. ~(Decoder!Whole(src, S[j]) <= 0) /\ src[S[j]] \notin Cuts
    BY <1>1 DEF Decoder!Stops
  <2>2. S[j] \in P
    <3>1. j \in 0..Len(src)
      BY <1>1
    <3> QED
      BY <1>2, <3>1
  <2>3. Decoder!Whole(src, S[j]) \in Int
    <3> HIDE DEF S
    <3> QED
      BY <2>2, WholeIs
  <2> QED
    BY <2>1, <2>3
<1>5. Whole(src, k)
  BY <1>4 DEF Whole
<1>6. i \in Nat /\ i >= 1 + 2 * k /\ k \in Nat /\ i <= Len(src) + 1
  <2>1. S[k] \in Nat /\ S[k] >= 1 + 2 * k
    BY <1>1, <1>5, StartsGrow
  <2> HIDE DEF S, k
  <2> QED
    BY <1>1, <1>3, <2>1
<1>7. d = IF n <= 0 THEN Decoder!Batch(i - 1, FALSE, n = -1)
          ELSE IF src[i] \in Decoder!Asynchronous /\ i > 1 THEN Decoder!Batch(i - 1, FALSE, FALSE)
          ELSE Decoder!Batch(i + n - 1, src[i] = "ReadyForQuery", FALSE)
  BY DEF Decoder!BatchEnd, Cuts
<1>8. ~d.error /\ d.end > 0
  OBVIOUS
<1>9. \A x, y, z : /\ Decoder!Batch(x, y, z).end = x
                   /\ Decoder!Batch(x, y, z).complete = y
  BY DEF Decoder!Batch
\* The batch ends before message k.
<1>10. ASSUME d = Decoder!Batch(i - 1, FALSE, n = -1) \/ d = Decoder!Batch(i - 1, FALSE, FALSE)
       PROVE  /\ k \in 1..Len(src) /\ Whole(src, k) /\ d.end = S[k] - 1
              /\ \A j \in 0..k - 2 : src[S[j]] \notin Cuts
              /\ ~d.complete /\ src[S[k - 1]] \notin Cuts
  <2>1. d.end = i - 1 /\ ~d.complete
    <3> HIDE DEF d, i, n
    <3>1. d.end = i - 1
      BY <1>10 DEF Decoder!Batch
    <3>2. ~d.complete
      BY <1>10 DEF Decoder!Batch
    <3> QED
      BY <3>1, <3>2
  <2>2. k # 0
    <3>1. S[0] = 1
      BY StartsAre
    <3>2. ASSUME k = 0 PROVE FALSE
      <4>1. i = 1
        BY <3>1, <3>2
      <4> HIDE DEF d, i
      <4> QED
        BY <1>8, <2>1, <4>1
    <3> QED
      BY <3>2
  <2> HIDE DEF d, S, k
  <2>3. k \in 1..Len(src)
    BY <1>1, <2>2
  <2>4. k - 1 \in 0..k - 1 /\ \A j \in 0..k - 2 : j \in 0..k - 1
    BY <2>3
  <2> QED
    BY <1>4, <1>5, <2>1, <2>3, <2>4
\* The batch ends after message k.
<1>11. ASSUME n > 0, ~(src[i] \in Decoder!Asynchronous /\ i > 1),
              d = Decoder!Batch(i + n - 1, src[i] = "ReadyForQuery", FALSE)
       PROVE  /\ k + 1 \in 1..Len(src) /\ Whole(src, k + 1) /\ d.end = S[k + 1] - 1
              /\ \A j \in 0..(k + 1) - 2 : src[S[j]] \notin Cuts
              /\ d.complete <=> src[S[(k + 1) - 1]] = "ReadyForQuery"
              /\ src[S[(k + 1) - 1]] \in Decoder!Asynchronous => k + 1 = 1
  <2>1. d.end = i + n - 1 /\ (d.complete <=> src[i] = "ReadyForQuery")
    <3> HIDE DEF d, i, n
    <3>1. d.end = i + n - 1
      BY <1>11 DEF Decoder!Batch
    <3>2. d.complete <=> src[i] = "ReadyForQuery"
      BY <1>11 DEF Decoder!Batch
    <3> QED
      BY <3>1, <3>2, Zenon
  <2>2. k + 1 \in 1..Len(src) /\ k + 1 \in Nat /\ (k + 1) - 1 = k
    <3> HIDE DEF i, n, k
    <3> QED
      BY <1>3, <1>6, <1>11
  <2>3. Whole(src, k + 1)
    <3>1. \A j \in 0..(k + 1) - 1 : j = k \/ j \in 0..k - 1
      <4> HIDE DEF k
      <4> QED
        BY <1>6
    <3> QED
      BY <1>4, <1>11, <3>1 DEF Whole
  <2>4. S[k + 1] = i + n
    <3>1. S[k + 1] = Following(src, S[k])
      <4>1. k + 1 \in 1..Len(src)
        BY <2>2
      <4> HIDE DEF k
      <4> QED
        BY <2>2, <4>1, StartsAre
    <3> QED
      BY <1>11, <3>1 DEF Following
  <2>5. \A j \in 0..(k + 1) - 2 : j \in 0..k - 1
    <3> HIDE DEF k
    <3> QED
      BY <1>6
  <2>6. src[i] \in Decoder!Asynchronous => k + 1 = 1
    <3> HIDE DEF k, i
    <3> QED
      BY <1>6, <1>11
  <2>7. S[(k + 1) - 1] = i
    BY <2>2
  <2>8. d.end = S[k + 1] - 1
    <3>1. d.end = (i + n) - 1
      BY <1>3, <2>1
    <3> HIDE DEF d, S, k, i, n
    <3> QED
      BY <2>4, <3>1
  <2>9. \A j \in 0..(k + 1) - 2 : src[S[j]] \notin Cuts
    <3> HIDE DEF S, k
    <3> QED
      BY <1>4, <2>5
  <2> HIDE DEF d, S, k, i, n
  <2> QED
    BY <2>1, <2>2, <2>3, <2>6, <2>7, <2>8, <2>9
<1>12. \A x : x \notin Cuts => x # "ReadyForQuery" /\ x \notin Decoder!Asynchronous
  BY DEF Cuts
<1> DEFINE Good(m) ==
              /\ Whole(src, m) /\ d.end = S[m] - 1
              /\ \A j \in 0..m - 2 : src[S[j]] \notin Cuts
              /\ d.complete <=> src[S[m - 1]] = "ReadyForQuery"
              /\ src[S[m - 1]] \in Decoder!Asynchronous => m = 1
<1>13. SUFFICES \E m \in 1..Len(src) : Good(m)
  OBVIOUS
<1>14. CASE n <= 0 \/ (src[i] \in Decoder!Asynchronous /\ i > 1)
  <2>1. d = Decoder!Batch(i - 1, FALSE, n = -1) \/ d = Decoder!Batch(i - 1, FALSE, FALSE)
    <3> HIDE DEF d, n, i
    <3> QED
      BY <1>7, <1>14
  <2>2. k \in 1..Len(src) /\ Good(k)
    <3> HIDE DEF d, S, k
    <3> QED
      BY <1>10, <1>12, <2>1
  <2> HIDE DEF Good, k
  <2> QED
    BY <2>2
<1>15. CASE ~(n <= 0) /\ ~(src[i] \in Decoder!Asynchronous /\ i > 1)
  <2>1. n > 0 /\ d = Decoder!Batch(i + n - 1, src[i] = "ReadyForQuery", FALSE)
    <3> HIDE DEF d, n, i
    <3>1. n > 0
      BY <1>3, <1>15
    <3>2. d = Decoder!Batch(i + n - 1, src[i] = "ReadyForQuery", FALSE)
      BY <1>7, <1>15, Zenon
    <3> QED
      BY <3>1, <3>2
  <2>2. k + 1 \in 1..Len(src) /\ Good(k + 1)
    <3> HIDE DEF d, S, k
    <3> QED
      BY <1>11, <1>15, <2>1
  <2> HIDE DEF Good, k
  <2> QED
    BY <2>2
<1> QED
  BY <1>14, <1>15

\* It is the messages of one request.
LEMMA OneRequestOnly ==
  ASSUME src \in Seq(Octets), NEW P, Aligned(src, P),
         ~Decoder!BatchEnd.error, Decoder!BatchEnd.end > 0
  PROVE  LET d == Decoder!BatchEnd
             bytes == SubSeq(src, 1, d.end)
             batch == [async |-> d.end > 0 /\ src[1] \in Decoder!Asynchronous,
                       complete |-> d.complete, bytes |-> bytes]
         IN Decoder!OneRequest(batch, Decoder!Messages(batch.bytes))
<1> DEFINE d == Decoder!BatchEnd
           S == Decoder!Starts(src)
           bytes == SubSeq(src, 1, d.end)
           async == d.end > 0 /\ src[1] \in Decoder!Asynchronous
           batch == [async |-> async, complete |-> d.complete, bytes |-> bytes]
           ms == Decoder!Messages(bytes)
<1>1. PICK m \in 1..Len(src) :
        /\ Whole(src, m) /\ d.end = S[m] - 1
        /\ \A j \in 0..m - 2 : src[S[j]] \notin Cuts
        /\ d.complete <=> src[S[m - 1]] = "ReadyForQuery"
        /\ src[S[m - 1]] \in Decoder!Asynchronous => m = 1
  <2> HIDE DEF d, S
  <2> QED
    BY BatchIs DEF d, S
<1>2. m \in Nat /\ m >= 1 /\ m \in 0..Len(src)
  OBVIOUS
<1>3. /\ Decoder!Until(bytes, {}) = m
      /\ \A j \in 0..m - 1 : bytes[Decoder!Starts(bytes)[j]] = src[S[j]]
  <2>1. d.end = Decoder!Starts(src)[m] - 1
    BY <1>1
  <2>2. HasFirst(src, d.end, m)
    <3> HIDE DEF d
    <3> QED
      BY <1>1, <1>2, <2>1, PrefixSame
  <2>3. /\ Decoder!Until(bytes, {}) = m
        /\ \A j \in 0..m - 1 : bytes[Decoder!Starts(bytes)[j]] = src[S[j]]
    <3> HIDE DEF d
    <3> QED
      BY <2>2, Zenon DEF HasFirst
  <2> QED
    BY <2>3
<1>4. ms = [j \in 1..m |-> Decoder!MessageAt(bytes, Decoder!Starts(bytes)[j - 1])]
  BY <1>3 DEF Decoder!Messages
<1>5. \A j \in 1..m : ms[j].tag = src[S[j - 1]]
  <2> TAKE j \in 1..m
  <2>1. j - 1 \in 0..m - 1
    BY <1>2
  <2>2. ms[j].tag = bytes[Decoder!Starts(bytes)[j - 1]]
    <3>1. ms[j] = Decoder!MessageAt(bytes, Decoder!Starts(bytes)[j - 1])
      <4> HIDE DEF ms, bytes
      <4> QED
        BY <1>4
    <3>2. \A b, i : Decoder!MessageAt(b, i).tag = b[i]
      BY DEF Decoder!MessageAt
    <3> HIDE DEF ms, bytes
    <3> QED
      BY <3>1, <3>2
  <2> HIDE DEF ms, bytes, S
  <2> QED
    BY <1>3, <2>1, <2>2
<1>6. Len(ms) = m /\ DOMAIN ms = 1..m /\ ms # <<>>
  <2> HIDE DEF bytes, ms
  <2> QED
    BY <1>2, <1>4
<1>7. \A j \in 1..m : j = m \/ (src[S[j - 1]] \notin Cuts)
  <2> TAKE j \in 1..m
  <2>1. j = m \/ j - 1 \in 0..m - 2
    BY <1>2
  <2> QED
    BY <1>1, <2>1
<1>8. async <=> src[S[m - 1]] \in Decoder!Asynchronous
  <2>1. S[0] = 1
    BY StartsAre
  <2>2. CASE m = 1
    BY <2>1, <2>2
  <2>3. CASE m # 1
    <3>1. 1 \in 1..m /\ 1 # m /\ 1 - 1 = 0
      BY <1>2, <2>3
    <3>2. src[1] \notin Cuts
      BY <1>7, <2>1, <3>1
    <3> QED
      BY <1>1, <2>3, <3>2 DEF Cuts
  <2> QED
    BY <2>2, <2>3
<1>9. batch.async = async /\ batch.complete = d.complete /\ batch.bytes = bytes
  OBVIOUS
<1>10. \A x : x \notin Cuts => x # "ReadyForQuery" /\ x \notin Decoder!Asynchronous
  BY DEF Cuts
<1>11. m \in 1..m
  BY <1>2
<1> HIDE DEF d, S, bytes, async, batch, ms
<1>12. \A j \in 1..m : ms[j].tag = "ReadyForQuery" <=> j = m /\ batch.complete
  BY <1>1, <1>5, <1>7, <1>9, <1>10, <1>11
<1>13. batch.async <=> \E j \in 1..m : ms[j].tag \in Decoder!Asynchronous
  BY <1>5, <1>7, <1>8, <1>9, <1>10, <1>11
<1>14. batch.async => m = 1
  BY <1>1, <1>8, <1>9
<1>15. Decoder!OneRequest(batch, ms)
  BY <1>6, <1>12, <1>13, <1>14 DEF Decoder!OneRequest
<1> QED
  BY <1>9, <1>15 DEF batch, bytes, ms, async, d

-----------------------------------------------------------------------------
(* Every batch is one request's.                                           *)

\* What has arrived, and then what has not, are messages, one after the other.
Framed ==
  /\ src \in Seq(Octets) /\ network \in Seq(Octets)
  /\ \E P : Aligned(src \o network, P)
BackendInv ==
  /\ Framed
  /\ \E S : batches \in Seq(S)
  /\ Decoder!BatchesOfOneRequest

LEMMA AlignedPrefix ==
  ASSUME NEW b \in Seq(Octets), NEW c \in Seq(Octets), NEW P, Aligned(b \o c, P)
  PROVE  Aligned(b, P \cap 1..Len(b) + 1)
<1> DEFINE s == b \o c
           Q == P \cap 1..Len(b) + 1
<1>1. Len(s) = Len(b) + Len(c) /\ Len(b) \in Nat /\ Len(c) \in Nat
  OBVIOUS
<1>2. \A i \in 1..Len(b) : s[i] = b[i]
  BY ConcatProperties
<1>3. Q \subseteq 1..Len(b) + 1 /\ 1 \in Q
  BY <1>1 DEF Aligned
<1>4. ASSUME NEW i \in Q, i + 1 <= Len(b)
      PROVE  b[i + 1] \in Nat /\ (b[i + 1] >= 1 /\ i + b[i + 1] <= Len(b) => i + b[i + 1] + 1 \in Q)
  <2>1. i \in P /\ i + 1 <= Len(s) /\ s[i + 1] = b[i + 1] /\ i \in Nat /\ i >= 1
    <3> HIDE DEF s
    <3> QED
      BY <1>1, <1>2, <1>3, <1>4
  <2>2. s[i + 1] \in Nat /\ (s[i + 1] >= 1 /\ i + s[i + 1] <= Len(s) => i + s[i + 1] + 1 \in P)
    BY <2>1 DEF Aligned
  <2> DEFINE n == b[i + 1]
  <2>3. n \in Nat /\ (n >= 1 /\ i + n <= Len(s) => i + n + 1 \in P)
    BY <2>1, <2>2
  <2> HIDE DEF n, s
  <2> QED
    BY <1>1, <1>4, <2>1, <2>3 DEF n
<1> HIDE DEF Q
<1> QED
  BY <1>3, <1>4 DEF Aligned, Q

LEMMA AlignedRest ==
  ASSUME NEW s \in Seq(Octets), NEW t \in Seq(Octets), NEW P, Aligned(s, P),
         NEW e \in Nat, e + 1 \in P, Len(t) = Len(s) - e,
         \A i \in 1..Len(t) : t[i] = s[i + e]
  PROVE  \E Q : Aligned(t, Q)
<1> DEFINE Q == {i \in 1..Len(t) + 1 : i + e \in P}
<1>1. Len(s) \in Nat /\ Len(t) \in Nat /\ P \subseteq 1..Len(s) + 1
  BY DEF Aligned
<1>2. 1 \in Q
  BY <1>1
<1>3. ASSUME NEW i \in Q, i + 1 <= Len(t)
      PROVE  t[i + 1] \in Nat /\ (t[i + 1] >= 1 /\ i + t[i + 1] <= Len(t) => i + t[i + 1] + 1 \in Q)
  <2>1. i \in Nat /\ i >= 1 /\ i + e \in P /\ i + 1 \in 1..Len(t)
    BY <1>1, <1>3
  <2>2. t[i + 1] = s[(i + e) + 1] /\ (i + e) + 1 <= Len(s)
    <3>1. (i + 1) + e = (i + e) + 1 /\ (i + e) + 1 <= Len(s)
      BY <1>1, <1>3, <2>1
    <3> QED
      BY <2>1, <3>1
  <2> DEFINE n == t[i + 1]
             j == i + e
  <2>3. n \in Nat /\ (n >= 1 /\ j + n <= Len(s) => j + n + 1 \in P) /\ j = i + e
    <3>1. j \in P /\ j + 1 <= Len(s) /\ s[j + 1] = n
      BY <2>1, <2>2
    <3> HIDE DEF n, j
    <3>2. s[j + 1] \in Nat /\ (s[j + 1] >= 1 /\ j + s[j + 1] <= Len(s) => j + s[j + 1] + 1 \in P)
      BY <3>1 DEF Aligned
    <3> QED
      BY <3>1, <3>2 DEF j
  <2> HIDE DEF n, j
  <2>4. n >= 1 /\ i + n <= Len(t) => i + n + 1 \in Q
    <3> SUFFICES ASSUME n >= 1, i + n <= Len(t) PROVE i + n + 1 \in Q
      OBVIOUS
    <3>1. j + n + 1 \in P /\ j + n + 1 = (i + n + 1) + e
      BY <1>1, <2>1, <2>3
    <3>2. i + n + 1 \in 1..Len(t) + 1
      BY <1>1, <2>1, <2>3
    <3> QED
      BY <3>1, <3>2
  <2> QED
    BY <2>3, <2>4 DEF n
<1> HIDE DEF Q
<1>4. Aligned(t, Q)
  BY <1>2, <1>3 DEF Aligned, Q
<1> QED
  BY <1>4

LEMMA DecodeKeeps ==
  ASSUME BackendInv, Decoder!Decode
  PROVE  BackendInv'
<1> DEFINE d == Decoder!BatchEnd
           bytes == SubSeq(src, 1, d.end)
           async == d.end > 0 /\ src[1] \in Decoder!Asynchronous
           batch == [async |-> async, complete |-> d.complete, bytes |-> bytes]
<1>1. UNCHANGED <<sent, damage, network>>
  BY DEF Decoder!Decode
<1>2. CASE UNCHANGED <<src, batches>>
  BY <1>1, <1>2 DEF BackendInv, Framed, Decoder!BatchesOfOneRequest
<1>3. CASE /\ ~d.error /\ d.end > 0
           /\ src' = SubSeq(src, d.end + 1, Len(src))
           /\ batches' = Append(batches, batch)
  <2>1. PICK P : Aligned(src \o network, P)
    BY DEF BackendInv, Framed
  <2> DEFINE Q == P \cap 1..Len(src) + 1
  <2>2. src \in Seq(Octets) /\ network \in Seq(Octets) /\ network' = network
    BY <1>1 DEF BackendInv, Framed
  <2>3. Aligned(src, Q)
    BY <2>1, <2>2, AlignedPrefix
  <2>4. Decoder!OneRequest(batch, Decoder!Messages(batch.bytes))
    <3> HIDE DEF Q
    <3> QED
      BY <1>3, <2>2, <2>3, OneRequestOnly
  <2>5. PICK m \in 1..Len(src) : d.end = Decoder!Starts(src)[m] - 1
    <3> HIDE DEF Q
    <3> QED
      BY <1>3, <2>2, <2>3, BatchIs
  <2> DEFINE e == d.end
  <2>6. e \in Nat /\ e + 1 \in P /\ e <= Len(src)
    <3>1. Decoder!Starts(src)[m] \in Q
      <4>1. m \in 0..Len(src)
        OBVIOUS
      <4> HIDE DEF Q
      <4> QED
        BY <2>2, <2>3, <4>1, StartsAre
    <3> DEFINE x == Decoder!Starts(src)[m]
    <3>2. e = x - 1 /\ x \in P /\ x \in 1..Len(src) + 1
      BY <2>5, <3>1
    <3> HIDE DEF x, e
    <3> QED
      BY <3>2
  <2>7. Decoder!BatchesOfOneRequest' /\ \E S : batches' \in Seq(S)
    <3>1. PICK S : batches \in Seq(S)
      BY DEF BackendInv
    <3>2. /\ batches' \in Seq(S \cup {batch})
          /\ \A k \in DOMAIN batches' :
               batches'[k] = batch \/ (k \in DOMAIN batches /\ batches'[k] = batches[k])
      <4>1. batches \in Seq(S \cup {batch})
        BY <3>1
      <4> HIDE DEF batch
      <4> QED
        BY <1>3, <4>1, AppendProperties
    <3>3. ASSUME NEW k \in DOMAIN batches'
          PROVE  Decoder!OneRequest(batches'[k], Decoder!Messages(batches'[k].bytes))
      <4> HIDE DEF batch
      <4> QED
        BY <2>4, <3>2 DEF BackendInv, Decoder!BatchesOfOneRequest
    <3> QED
      BY <3>2, <3>3 DEF Decoder!BatchesOfOneRequest
  <2>8. Framed'
    <3> DEFINE s == src \o network
               r == SubSeq(src, e + 1, Len(src))
               t == r \o network
    <3>1. src' = r
      BY <1>3
    <3>2. r \in Seq(Octets) /\ Len(r) = Len(src) - e /\ \A i \in 1..Len(r) : r[i] = src[i + e]
      <4>1. e + 1 \in 1..Len(src) + 1 /\ Len(src) \in (e + 1) - 1..Len(src)
        BY <2>2, <2>6
      <4>2. r \in Seq(Octets) /\ Len(r) = Len(src) - (e + 1) + 1
            /\ \A i \in 1..Len(src) - (e + 1) + 1 : r[i] = src[(e + 1) + i - 1]
        <5> HIDE DEF e
        <5> QED
          BY <2>2, <4>1, SubSeqProperties
      <4>3. Len(src) - (e + 1) + 1 = Len(src) - e /\ \A i \in Nat : (e + 1) + i - 1 = i + e
        <5>1. Len(src) \in Nat
          BY <2>2
        <5> HIDE DEF e
        <5> QED
          BY <2>6, <5>1
      <4> HIDE DEF e, r
      <4> QED
        BY <4>2, <4>3
    <3>3. s \in Seq(Octets) /\ t \in Seq(Octets) /\ Len(s) = Len(src) + Len(network)
          /\ Len(t) = Len(r) + Len(network)
      <4>1. r \in Seq(Octets)
        BY <3>2
      <4> HIDE DEF r
      <4>2. s \in Seq(Octets) /\ Len(s) = Len(src) + Len(network)
        BY <2>2
      <4>3. t \in Seq(Octets) /\ Len(t) = Len(r) + Len(network)
        BY <2>2, <4>1
      <4> QED
        BY <4>2, <4>3
    <3>4. Len(t) = Len(s) - e
      <4> HIDE DEF r, e, s, t
      <4> QED
        BY <2>2, <2>6, <3>2, <3>3
    <3>5. \A i \in 1..Len(t) : t[i] = s[i + e]
      <4> TAKE i \in 1..Len(t)
      <4>1. CASE i <= Len(r)
        <5>1. i \in 1..Len(r) /\ i + e \in 1..Len(src)
          <6> HIDE DEF r, e, s, t
          <6> QED
            BY <2>2, <2>6, <3>2, <3>3, <4>1
        <5>2. t[i] = r[i] /\ s[i + e] = src[i + e]
          <6> HIDE DEF r, e
          <6> QED
            BY <2>2, <3>2, <5>1, ConcatProperties
        <5> QED
          BY <3>2, <5>1, <5>2
      <4>2. CASE i > Len(r)
        <5>1. /\ i - Len(r) \in 1..Len(network) /\ i \in Len(r) + 1..Len(r) + Len(network)
              /\ i + e \in Len(src) + 1..Len(src) + Len(network)
              /\ (i + e) - Len(src) = i - Len(r)
          <6> HIDE DEF r, e, s, t
          <6> QED
            BY <2>2, <2>6, <3>2, <3>3, <4>2
        <5>2. t[i] = network[i - Len(r)] /\ s[i + e] = network[(i + e) - Len(src)]
          <6> HIDE DEF r, e
          <6> QED
            BY <2>2, <3>2, <5>1, ConcatProperties
        <5> QED
          BY <5>1, <5>2
      <4>3. i <= Len(r) \/ i > Len(r)
        <5> HIDE DEF r
        <5> QED
          BY <3>2, <3>3
      <4> QED
        BY <4>1, <4>2, <4>3
    <3>6. \E R : Aligned(t, R)
      <4> HIDE DEF s, t, e, Q
      <4>1. Aligned(s, P)
        BY <2>1 DEF s
      <4> QED
        BY <2>6, <3>3, <3>4, <3>5, <4>1, AlignedRest
    <3>7. src' \o network' = t
      BY <2>2, <3>1
    <3> HIDE DEF t, r
    <3> QED
      BY <2>2, <3>1, <3>2, <3>6, <3>7 DEF Framed
  <2> QED
    BY <2>7, <2>8 DEF BackendInv
<1> HIDE DEF batch, d
<1> QED
  BY <1>2, <1>3 DEF Decoder!Decode, d, batch, async, bytes

LEMMA SplitAt ==
  ASSUME NEW S, NEW s \in Seq(S), NEW k \in Nat, k <= Len(s)
  PROVE  SubSeq(s, 1, k) \o SubSeq(s, k + 1, Len(s)) = s
<1> DEFINE p == SubSeq(s, 1, k)
           q == SubSeq(s, k + 1, Len(s))
<1>1. Len(s) \in Nat
  OBVIOUS
<1>2. p \in Seq(S) /\ q \in Seq(S)
  OBVIOUS
<1>3. Len(p) = k /\ \A i \in 1..k : p[i] = s[i]
  <2>1. 1 \in 1..Len(s) + 1 /\ k \in 1 - 1..Len(s)
    BY <1>1
  <2> QED
    BY <2>1, SubSeqProperties
<1>4. Len(q) = Len(s) - k /\ \A i \in 1..Len(s) - k : q[i] = s[k + i]
  <2>1. k + 1 \in 1..Len(s) + 1 /\ Len(s) \in (k + 1) - 1..Len(s)
    BY <1>1
  <2>2. Len(q) = Len(s) - (k + 1) + 1
        /\ \A i \in 1..Len(s) - (k + 1) + 1 : q[i] = s[(k + 1) + i - 1]
    BY <2>1, SubSeqProperties
  <2>3. Len(s) - (k + 1) + 1 = Len(s) - k /\ \A i \in Nat : (k + 1) + i - 1 = k + i
    BY <1>1
  <2> HIDE DEF q
  <2> QED
    BY <2>2, <2>3
<1> HIDE DEF p, q
<1>5. p \o q \in Seq(S) /\ Len(p \o q) = Len(s)
  BY <1>1, <1>2, <1>3, <1>4
<1>6. \A i \in 1..Len(s) : (p \o q)[i] = s[i]
  <2> TAKE i \in 1..Len(s)
  <2>1. CASE i <= k
    <3>1. i \in 1..Len(p) /\ i \in 1..k
      BY <1>3, <2>1
    <3>2. (p \o q)[i] = p[i]
      BY <1>2, <3>1, ConcatProperties
    <3> QED
      BY <1>3, <3>1, <3>2
  <2>2. CASE i > k
    <3>1. i \in Len(p) + 1..Len(p) + Len(q) /\ i - Len(p) \in 1..Len(s) - k
          /\ k + (i - Len(p)) = i
      BY <1>1, <1>3, <1>4, <2>2
    <3>2. (p \o q)[i] = q[i - Len(p)]
      BY <1>2, <3>1, ConcatProperties
    <3>3. q[i - Len(p)] = s[k + (i - Len(p))]
      BY <1>4, <3>1
    <3> QED
      BY <3>1, <3>2, <3>3
  <2>3. i <= k \/ i > k
    BY <1>1
  <2> QED
    BY <2>1, <2>2, <2>3
<1>7. p \o q = s
  BY <1>5, <1>6, SeqEqual
<1> QED
  BY <1>7 DEF p, q

LEMMA ArriveKeeps ==
  ASSUME BackendInv, NEW k \in Nat, k <= Len(network), Decoder!Arrive(k)
  PROVE  BackendInv'
<1> DEFINE p == SubSeq(network, 1, k)
           q == SubSeq(network, k + 1, Len(network))
<1>1. src \in Seq(Octets) /\ network \in Seq(Octets) /\ batches' = batches
      /\ src' = src \o p /\ network' = q
  BY DEF BackendInv, Framed, Decoder!Arrive
<1>2. p \in Seq(Octets) /\ q \in Seq(Octets) /\ p \o q = network
  <2>1. Len(network) \in Nat
    BY <1>1
  <2>2. p \in Seq(Octets) /\ q \in Seq(Octets)
    BY <1>1
  <2>3. p \o q = network
    BY <1>1, SplitAt
  <2> QED
    BY <2>2, <2>3
<1>3. src' \o network' = src \o network
  <2> HIDE DEF p, q
  <2>1. \A a, b, c \in Seq(Octets) : (a \o b) \o c = a \o (b \o c)
    BY ConcatAssociative
  <2> QED
    BY <1>1, <1>2, <2>1
<1>4. Framed'
  <2> HIDE DEF p, q
  <2>1. src' \in Seq(Octets) /\ network' \in Seq(Octets)
    BY <1>1, <1>2
  <2> QED
    BY <1>3, <2>1 DEF BackendInv, Framed
<1>5. Decoder!BatchesOfOneRequest' /\ \E S : batches' \in Seq(S)
  BY <1>1 DEF BackendInv, Decoder!BatchesOfOneRequest
<1> QED
  BY <1>4, <1>5 DEF BackendInv

-----------------------------------------------------------------------------
(* The first state.                                                        *)

\* A message as the server sends it, whole: its length is right or too small to be one.
IsFrame(s) ==
  /\ s \in Seq(Octets) /\ Len(s) >= 2
  /\ s[2] \in Nat /\ (s[2] >= 1 => Len(s) = s[2] + 1)

\* P has the places where the messages of b start, and b has nothing after the last.
Exactly(b, P) ==
  /\ b \in Seq(Octets)
  /\ P \subseteq 1..Len(b) + 1 /\ 1 \in P /\ Len(b) + 1 \in P
  /\ \A i \in P :
       i <= Len(b) =>
         /\ i + 1 <= Len(b) /\ b[i + 1] \in Nat
         /\ b[i + 1] >= 1 => i + b[i + 1] + 1 \in P

LEMMA ExactlyAligned ==
  ASSUME NEW b, NEW P, Exactly(b, P)
  PROVE  Aligned(b, P)
<1>1. Len(b) \in Nat /\ P \subseteq 1..Len(b) + 1
  BY DEF Exactly
<1>2. \A i \in P : i + 1 <= Len(b) => i <= Len(b)
  BY <1>1
<1> QED
  BY <1>2 DEF Exactly, Aligned

LEMMA ExactlyOneMore ==
  ASSUME NEW b, NEW P, Exactly(b, P), NEW s, IsFrame(s)
  PROVE  Exactly(b \o s, P \cup {Len(b) + Len(s) + 1})
<1> DEFINE c == b \o s
           Q == P \cup {Len(b) + Len(s) + 1}
<1>1. b \in Seq(Octets) /\ s \in Seq(Octets) /\ Len(b) \in Nat /\ Len(s) \in Nat /\ Len(s) >= 2
  BY DEF Exactly, IsFrame
<1>2. c \in Seq(Octets) /\ Len(c) = Len(b) + Len(s)
  BY <1>1
<1>3. \A i \in 1..Len(b) : c[i] = b[i]
  BY <1>1, ConcatProperties
<1>4. c[Len(b) + 2] = s[2]
  <2>1. Len(b) + 2 \in Len(b) + 1..Len(b) + Len(s) /\ (Len(b) + 2) - Len(b) = 2
    BY <1>1
  <2> QED
    BY <1>1, <2>1, ConcatProperties
<1>5. P \subseteq 1..Len(b) + 1 /\ 1 \in P /\ Len(b) + 1 \in P
  BY DEF Exactly
<1> HIDE DEF c
<1>6. ASSUME NEW i \in Q, i <= Len(c)
      PROVE  /\ i + 1 <= Len(c) /\ c[i + 1] \in Nat
             /\ c[i + 1] >= 1 => i + c[i + 1] + 1 \in Q
  <2>1. i \in P /\ i \in 1..Len(b) + 1
    BY <1>1, <1>2, <1>5, <1>6
  <2>2. CASE i <= Len(b)
    <3>1. i + 1 <= Len(b) /\ b[i + 1] \in Nat /\ (b[i + 1] >= 1 => i + b[i + 1] + 1 \in P)
      BY <2>1, <2>2 DEF Exactly
    <3>2. i + 1 \in 1..Len(b)
      BY <1>1, <2>1, <3>1
    <3>3. c[i + 1] = b[i + 1]
      BY <1>3, <3>2
    <3>4. i + 1 <= Len(c)
      BY <1>1, <1>2, <2>1, <3>1
    <3> QED
      BY <3>1, <3>3, <3>4
  <2>3. CASE i > Len(b)
    <3>1. i = Len(b) + 1 /\ i + 1 = Len(b) + 2
      BY <1>1, <2>1, <2>3
    <3>2. c[i + 1] = s[2] /\ s[2] \in Nat /\ (s[2] >= 1 => Len(s) = s[2] + 1)
      BY <1>4, <3>1 DEF IsFrame
    <3> DEFINE n == s[2]
    <3>3. c[i + 1] = n /\ n \in Nat /\ (n >= 1 => Len(s) = n + 1)
      BY <3>2
    <3> HIDE DEF n
    <3>4. n >= 1 => i + n + 1 = Len(b) + Len(s) + 1
      BY <1>1, <3>1, <3>3
    <3>5. i + 1 <= Len(c)
      BY <1>1, <1>2, <3>1
    <3> QED
      BY <3>3, <3>4, <3>5
  <2>4. i <= Len(b) \/ i > Len(b)
    BY <1>1, <2>1
  <2> QED
    BY <2>2, <2>3, <2>4
<1>7. Q \subseteq 1..Len(c) + 1 /\ 1 \in Q /\ Len(c) + 1 \in Q
  <2>1. Len(b) + Len(s) + 1 \in 1..Len(c) + 1 /\ Len(b) + Len(s) + 1 = Len(c) + 1
    BY <1>1, <1>2
  <2>2. 1..Len(b) + 1 \subseteq 1..Len(c) + 1
    BY <1>1, <1>2
  <2> QED
    BY <1>5, <2>1, <2>2
<1> HIDE DEF Q
<1>8. Exactly(c, Q)
  BY <1>2, <1>6, <1>7 DEF Exactly
<1> QED
  BY <1>8 DEF c, Q

LEMMA SameFlat == \A ss : Decoder!Flat(ss) = A!FlattenSeq(ss)
BY DEF Decoder!Flat, Decoder!FlattenSeq, A!FlattenSeq

\* Messages end to end.
LEMMA FramesAligned ==
  ASSUME NEW ss \in Seq(Seq(Octets)), \A k \in 1..Len(ss) : IsFrame(ss[k])
  PROVE  Decoder!Flat(ss) \in Seq(Octets) /\ \E P : Aligned(Decoder!Flat(ss), P)
<1> DEFINE T == {k \in Nat : k <= Len(ss) => \E P : Exactly(A!FlattenSeq(SubSeq(ss, 1, k)), P)}
<1>1. Len(ss) \in Nat
  OBVIOUS
<1>2. 0 \in T
  <2>1. SubSeq(ss, 1, 0) = <<>>
    BY <1>1
  <2>2. A!FlattenSeq(SubSeq(ss, 1, 0)) = <<>>
    BY <2>1, A!FlattenEmpty
  <2>3. Exactly(<<>>, {1})
    BY DEF Exactly
  <2> QED
    BY <2>2, <2>3
<1>3. \A k \in Nat : k \in T => k + 1 \in T
  <2> SUFFICES ASSUME NEW k \in Nat, k \in T, k + 1 <= Len(ss)
               PROVE  \E P : Exactly(A!FlattenSeq(SubSeq(ss, 1, k + 1)), P)
    OBVIOUS
  <2> DEFINE tt == SubSeq(ss, 1, k)
             s == ss[k + 1]
             b == A!FlattenSeq(tt)
  <2>1. k <= Len(ss) /\ k + 1 \in 1..Len(ss)
    BY <1>1
  <2>2. PICK P : Exactly(b, P)
    BY <2>1
  <2>3. tt \in Seq(Seq(Octets)) /\ s \in Seq(Octets) /\ IsFrame(s)
    BY <2>1
  <2>4. SubSeq(ss, 1, k + 1) = Append(tt, s)
    BY <1>1, <2>1
  <2> HIDE DEF tt, s
  <2>5. A!FlattenSeq(SubSeq(ss, 1, k + 1)) = b \o s
    BY <2>3, <2>4, A!FlattenAppend
  <2> HIDE DEF b
  <2>6. Exactly(b \o s, P \cup {Len(b) + Len(s) + 1})
    BY <2>2, <2>3, ExactlyOneMore
  <2> QED
    BY <2>5, <2>6, Zenon
<1> HIDE DEF T
<1>4. Len(ss) \in T
  BY <1>1, <1>2, <1>3, A!NatSetInduction
<1>5. SubSeq(ss, 1, Len(ss)) = ss /\ Len(ss) <= Len(ss)
  BY <1>1
<1>6. \E P : Exactly(A!FlattenSeq(SubSeq(ss, 1, Len(ss))), P)
  BY <1>4, <1>5, Zenon DEF T
<1>7. \E P : Exactly(A!FlattenSeq(ss), P)
  BY <1>5, <1>6, Zenon
<1> QED
  BY <1>7, SameFlat, ExactlyAligned DEF Exactly

-----------------------------------------------------------------------------
(* The messages the server sends.                                          *)

Numbers == Seq(Int)
\* The messages that have something before what they list.
Headed == {"Notification", "CopyInResponse", "CopyOutResponse", "Authentication"}
Typed(m) ==
  /\ m.tag \in Tags /\ m.v \in Seq(Numbers)
  /\ m.tag \in Headed => m.v # <<>>

LEMMA ListsTyped ==
  ASSUME NEW S, S \subseteq Numbers, NEW l \in Decoder!Lists(S)
  PROVE  l \in Seq(Numbers)
<1>1. PICK n \in 0..MaxItems : l \in [1..n -> S]
  BY DEF Decoder!Lists
<1>2. n \in Nat
  OBVIOUS
<1> QED
  BY <1>1, <1>2, SeqDef

LEMMA StringsTyped == Decoder!Strings \subseteq Numbers
BY DEF Decoder!Strings, Numbers

LEMMA OneBefore ==
  ASSUME NEW x \in Numbers, NEW l \in Seq(Numbers)
  PROVE  <<x>> \o l \in Seq(Numbers) /\ <<x>> \o l # <<>>
<1>1. <<x>> \in Seq(Numbers) /\ Len(<<x>>) = 1
  OBVIOUS
<1> DEFINE p == <<x>>
<1> HIDE DEF p
<1>2. p \in Seq(Numbers) /\ Len(p) = 1 /\ p = <<x>>
  BY <1>1 DEF p
<1>3. p \o l \in Seq(Numbers) /\ Len(p \o l) = 1 + Len(l) /\ Len(l) \in Nat
  BY <1>2
<1>4. p \o l # <<>>
  BY <1>3
<1> QED
  BY <1>2, <1>3, <1>4

LEMMA SamplesTyped ==
  ASSUME NEW m \in Decoder!Samples
  PROVE  Typed(m)
<1> DEFINE Of(t, S) == Decoder!Of(t, S)
<1>a. \A t, S : m \in Of(t, S) => m.tag = t /\ m.v \in S
  BY DEF Decoder!Of
<1>b. /\ {<<Decoder!Null>>, <<>>, <<0, 1>>} \subseteq Numbers
      /\ {<<1>>, <<2, 1>>} \subseteq Numbers /\ {<<0>>, <<1>>} \subseteq Numbers
      /\ {<<1>>, <<1, 2>>} \subseteq Numbers
  BY DEF Numbers, Decoder!Null
<1>c. {s \o <<0, 0, 1, 0, 1, 2, 0>> : s \in Decoder!Strings} \subseteq Numbers
  <2> DEFINE u == <<0, 0, 1, 0, 1, 2, 0>>
  <2>1. u \in Numbers
    BY DEF Numbers
  <2> HIDE DEF u
  <2>2. \A s \in Numbers : s \o u \in Numbers
    BY <2>1 DEF Numbers
  <2>3. {s \o u : s \in Decoder!Strings} \subseteq Numbers
    BY <2>2, StringsTyped
  <2> QED
    BY <2>3 DEF u
<1>1. CASE m \in UNION {Of(t, {<<>>}) : t \in Decoder!Bare}
  <2>1. m.tag \in Decoder!Bare /\ m.v = <<>>
    BY <1>1, <1>a
  <2>2. m.tag \in Tags /\ m.tag \notin Headed
    BY <2>1 DEF Decoder!Bare, Tags, Headed
  <2> QED
    BY <2>1, <2>2 DEF Typed
<1>2. CASE m \in Of("CommandComplete", {<<s>> : s \in Decoder!Strings})
  <2>1. m.tag = "CommandComplete" /\ \E s \in Numbers : m.v = <<s>>
    BY <1>2, <1>a, StringsTyped
  <2> QED
    BY <2>1 DEF Typed, Headed, Tags, Decoder!Asynchronous
<1>3. CASE m \in Of("CopyData", {<<s>> : s \in {<<>>, <<0>>, <<1, 0>>}})
  <2>1. {<<>>, <<0>>, <<1, 0>>} \subseteq Numbers
    BY DEF Numbers
  <2>2. m.tag = "CopyData" /\ \E s \in Numbers : m.v = <<s>>
    BY <1>3, <1>a, <2>1
  <2> QED
    BY <2>2 DEF Typed, Headed, Tags, Decoder!Asynchronous
<1>4. CASE m \in Of("DataRow", Decoder!Lists({<<Decoder!Null>>, <<>>, <<0, 1>>}))
  <2>1. m.tag = "DataRow" /\ m.v \in Seq(Numbers)
    BY <1>4, <1>a, <1>b, ListsTyped
  <2> QED
    BY <2>1 DEF Typed, Headed, Tags, Decoder!Asynchronous
<1>5. CASE m \in Of("ErrorResponse", Decoder!Lists({<<1>>, <<2, 1>>}))
  <2>1. m.tag = "ErrorResponse" /\ m.v \in Seq(Numbers)
    BY <1>5, <1>a, <1>b, ListsTyped
  <2> QED
    BY <2>1 DEF Typed, Headed, Tags, Decoder!Asynchronous
<1>6. CASE m \in Of("Notice", {<<>>, <<<<1, 2>>>>})
  <2>1. m.tag = "Notice" /\ m.v \in {<<>>, <<<<1, 2>>>>}
    BY <1>6, <1>a
  <2>2. {<<>>, <<<<1, 2>>>>} \subseteq Seq(Numbers)
    BY DEF Numbers
  <2> QED
    BY <2>1, <2>2 DEF Typed, Headed, Tags, Decoder!Asynchronous
<1>7. CASE m \in Of("CopyInResponse", Decoder!CopyFormats) \cup Of("CopyOutResponse", Decoder!CopyFormats)
  <2>1. m.tag \in {"CopyInResponse", "CopyOutResponse"} /\ m.v \in Decoder!CopyFormats
    BY <1>7, <1>a
  <2>2. PICK f \in 0..1, l \in Decoder!Lists({<<0>>, <<1>>}) : m.v = <<<<f>>>> \o l
    <3> DEFINE L == Decoder!Lists({<<0>>, <<1>>})
    <3>1. m.v \in {<<<<0>>>> \o l : l \in L} \/ m.v \in {<<<<1>>>> \o l : l \in L}
      BY <2>1 DEF Decoder!CopyFormats
    <3>2. 0 \in 0..1 /\ 1 \in 0..1
      OBVIOUS
    <3> HIDE DEF L
    <3>3. \E f \in 0..1, l \in L : m.v = <<<<f>>>> \o l
      BY <3>1, <3>2
    <3> QED
      BY <3>3 DEF L
  <2>3. l \in Seq(Numbers)
    BY <1>b, ListsTyped
  <2>4. <<f>> \in Numbers
    BY DEF Numbers
  <2>5. m.v \in Seq(Numbers) /\ m.v # <<>>
    BY <2>2, <2>3, <2>4, OneBefore
  <2> QED
    BY <2>1, <2>5 DEF Typed, Tags, Decoder!Asynchronous
<1>8. CASE m \in Of("BackendKeyData", {<<<<0>>, <<1>>>>})
  <2>1. m.tag = "BackendKeyData" /\ m.v = <<<<0>>, <<1>>>>
    BY <1>8, <1>a
  <2> QED
    BY <2>1 DEF Typed, Headed, Tags, Numbers
<1>9. CASE m \in Of("Authentication", Decoder!Authentications)
  <2> DEFINE c1 == {<<<<c>>>> : c \in {0, 2, 3, 6, 7, 9}}
             c2 == {<<<<5>>, <<0>>>>}
             c3 == {<<<<c>>, s>> : c \in {8, 11, 12}, s \in Decoder!Strings}
             c4 == {<<<<10>>>> \o l : l \in Decoder!Lists({<<1>>, <<1, 2>>})}
  <2>a. m.tag = "Authentication" /\ m.v \in c1 \cup c2 \cup c3 \cup c4
    BY <1>9, <1>a DEF Decoder!Authentications
  <2>b. m.v \in c1 => \E c \in Int : m.v = <<<<c>>>>
    OBVIOUS
  <2>c. m.v \in c2 => m.v = <<<<5>>, <<0>>>>
    OBVIOUS
  <2>d. m.v \in c3 => \E c \in Int, s \in Numbers : m.v = <<<<c>>, s>>
    BY StringsTyped
  <2>e. m.v \in c4 => \E l \in Decoder!Lists({<<1>>, <<1, 2>>}) : m.v = <<<<10>>>> \o l
    BY Zenon
  <2>0. m.tag = "Authentication"
        /\ \/ \E c \in Int : m.v = <<<<c>>>>
           \/ m.v = <<<<5>>, <<0>>>>
           \/ \E c \in Int, s \in Numbers : m.v = <<<<c>>, s>>
           \/ \E l \in Decoder!Lists({<<1>>, <<1, 2>>}) : m.v = <<<<10>>>> \o l
    <3> HIDE DEF c1, c2, c3, c4
    <3> QED
      BY <2>a, <2>b, <2>c, <2>d, <2>e, Zenon
  <2>1. CASE \E c \in Int : m.v = <<<<c>>>>
    <3>1. m.v \in Seq(Numbers) /\ m.v # <<>>
      BY <2>1 DEF Numbers
    <3> QED
      BY <2>0, <3>1 DEF Typed, Tags, Decoder!Asynchronous
  <2>2. CASE m.v = <<<<5>>, <<0>>>>
    <3>1. m.v \in Seq(Numbers) /\ m.v # <<>>
      BY <2>2 DEF Numbers
    <3> QED
      BY <2>0, <3>1 DEF Typed, Tags, Decoder!Asynchronous
  <2>3. CASE \E c \in Int, s \in Numbers : m.v = <<<<c>>, s>>
    <3>1. m.v \in Seq(Numbers) /\ m.v # <<>>
      BY <2>3 DEF Numbers
    <3> QED
      BY <2>0, <3>1 DEF Typed, Tags, Decoder!Asynchronous
  <2>4. CASE \E l \in Decoder!Lists({<<1>>, <<1, 2>>}) : m.v = <<<<10>>>> \o l
    <3>1. PICK l \in Decoder!Lists({<<1>>, <<1, 2>>}) : m.v = <<<<10>>>> \o l
      BY <2>4
    <3>2. l \in Seq(Numbers)
      BY <1>b, ListsTyped
    <3>4. <<10>> \in Numbers
      BY DEF Numbers
    <3>3. m.v \in Seq(Numbers) /\ m.v # <<>>
      BY <3>1, <3>2, <3>4, OneBefore
    <3> QED
      BY <2>0, <3>3 DEF Typed, Tags, Decoder!Asynchronous
  <2> QED
    BY <2>0, <2>1, <2>2, <2>3, <2>4
<1>10. CASE m \in Of("ParameterStatus", Decoder!Strings \X Decoder!Strings)
  <2>1. m.tag = "ParameterStatus" /\ \E x \in Numbers, y \in Numbers : m.v = <<x, y>>
    BY <1>10, <1>a, StringsTyped
  <2> QED
    BY <2>1 DEF Typed, Headed, Tags, Decoder!Asynchronous
<1>11. CASE m \in Of("Notification", {<<<<0>>, <<1>>, y>> : y \in Decoder!Strings})
  <2>1. m.tag = "Notification" /\ \E y \in Numbers : m.v = <<<<0>>, <<1>>, y>>
    BY <1>11, <1>a, StringsTyped
  <2>2. m.v \in Seq(Numbers) /\ m.v # <<>>
    BY <2>1 DEF Numbers
  <2> QED
    BY <2>1, <2>2 DEF Typed, Tags, Decoder!Asynchronous
<1>12. CASE m \in Of("ParameterDescription", Decoder!Lists({<<0>>, <<1>>}))
  <2>1. m.tag = "ParameterDescription" /\ m.v \in Seq(Numbers)
    BY <1>12, <1>a, <1>b, ListsTyped
  <2> QED
    BY <2>1 DEF Typed, Headed, Tags, Decoder!Asynchronous
<1>13. CASE m \in Of("RowDescription",
                     Decoder!Lists({s \o <<0, 0, 1, 0, 1, 2, 0>> : s \in Decoder!Strings}))
  <2>1. m.tag = "RowDescription" /\ m.v \in Seq(Numbers)
    BY <1>13, <1>a, <1>c, ListsTyped
  <2> QED
    BY <2>1 DEF Typed, Headed, Tags, Decoder!Asynchronous
<1>14. CASE m \in Of("ReadyForQuery", {<<<<1>>>>})
  <2>1. m.tag = "ReadyForQuery" /\ m.v = <<<<1>>>>
    BY <1>14, <1>a
  <2> QED
    BY <2>1 DEF Typed, Headed, Tags, Numbers
<1> HIDE DEF Of
<1> QED
  BY <1>1, <1>2, <1>3, <1>4, <1>5, <1>6, <1>7, <1>8, <1>9, <1>10, <1>11, <1>12, <1>13, <1>14
     DEF Decoder!Samples, Of

LEMMA FlatTyped == \A l \in Seq(Numbers) : Decoder!Flat(l) \in Numbers
BY SameFlat, A!FlattenType DEF Numbers

LEMMA OneTyped == \A n \in Int : <<n>> \in Numbers
BY DEF Numbers

LEMMA BothTyped == \A s, t \in Numbers : s \o t \in Numbers
BY DEF Numbers

LEMMA EachTyped ==
  ASSUME NEW F(_), \A s \in Numbers : F(s) \in Numbers, NEW l \in Seq(Numbers)
  PROVE  [k \in 1..Len(l) |-> F(l[k])] \in Seq(Numbers)
<1> DEFINE f == [k \in 1..Len(l) |-> F(l[k])]
<1>1. Len(l) \in Nat /\ \A k \in 1..Len(l) : l[k] \in Numbers
  OBVIOUS
<1>2. f \in [1..Len(l) -> Numbers]
  BY <1>1
<1> HIDE DEF f
<1>3. f \in Seq(Numbers)
  BY <1>1, <1>2, SeqDef
<1> QED
  BY <1>3 DEF f

LEMMA ZeroedTyped == \A s \in Numbers : Decoder!Zeroed(s) \in Numbers
BY OneTyped, BothTyped DEF Decoder!Zeroed

LEMMA CountedTyped == \A s \in Numbers : Decoder!Counted(s) \in Numbers
<1> SUFFICES ASSUME NEW s \in Numbers PROVE Decoder!Counted(s) \in Numbers
  OBVIOUS
<1>1. Len(s) \in Int
  BY DEF Numbers
<1>2. <<Len(s)>> \o s \in Numbers
  BY <1>1, OneTyped, BothTyped
<1> QED
  BY <1>2 DEF Decoder!Counted

LEMMA AllZeroedTyped == \A l \in Seq(Numbers) : Decoder!AllZeroed(l) \in Numbers
<1> SUFFICES ASSUME NEW l \in Seq(Numbers) PROVE Decoder!AllZeroed(l) \in Numbers
  OBVIOUS
<1>1. [k \in 1..Len(l) |-> Decoder!Zeroed(l[k])] \in Seq(Numbers)
  BY ZeroedTyped, EachTyped
<1> QED
  BY <1>1, FlatTyped DEF Decoder!AllZeroed

LEMMA AllCountedTyped == \A l \in Seq(Numbers) : Decoder!AllCounted(l) \in Numbers
<1> SUFFICES ASSUME NEW l \in Seq(Numbers) PROVE Decoder!AllCounted(l) \in Numbers
  OBVIOUS
<1>1. [k \in 1..Len(l) |-> Decoder!Counted(l[k])] \in Seq(Numbers)
  BY CountedTyped, EachTyped
<1> QED
  BY <1>1, FlatTyped DEF Decoder!AllCounted

LEMMA BodyTyped ==
  ASSUME NEW m, Typed(m)
  PROVE  Decoder!Body(m) \in Numbers
<1>1. m.v \in Seq(Numbers) /\ Len(m.v) \in Int /\ Len(m.v) - 1 \in Int
  BY DEF Typed
<1>2. m.tag \in Headed => m.v[1] \in Numbers /\ Tail(m.v) \in Seq(Numbers)
  BY DEF Typed
<1>3. \A s, t, u \in Numbers : s \o t \o u \in Numbers
  BY BothTyped
<1>4. CASE m.tag \in {"CommandComplete", "ParameterStatus"}
  BY <1>1, <1>4, AllZeroedTyped DEF Decoder!Body
<1>5. CASE m.tag = "Notification"
  <2>1. m.v[1] \o Decoder!AllZeroed(Tail(m.v)) \in Numbers
    BY <1>2, <1>5, AllZeroedTyped, BothTyped DEF Headed
  <2> QED
    BY <1>5, <2>1 DEF Decoder!Body
<1>6. CASE m.tag = "DataRow"
  <2>1. <<Len(m.v)>> \o Decoder!AllCounted(m.v) \in Numbers
    BY <1>1, AllCountedTyped, BothTyped, OneTyped
  <2> QED
    BY <1>6, <2>1 DEF Decoder!Body
<1>7. CASE m.tag \in {"ErrorResponse", "Notice"}
  <2>1. Decoder!Zeroed(Decoder!AllZeroed(m.v)) \in Numbers
    BY <1>1, AllZeroedTyped, ZeroedTyped
  <2> QED
    BY <1>7, <2>1 DEF Decoder!Body
<1>8. CASE m.tag \in {"CopyInResponse", "CopyOutResponse"}
  <2>1. <<Len(m.v) - 1>> \in Numbers
    BY <1>1, OneTyped
  <2>2. m.v[1] \in Numbers /\ Decoder!Flat(Tail(m.v)) \in Numbers
    BY <1>2, <1>8, FlatTyped DEF Headed
  <2>3. m.v[1] \o <<Len(m.v) - 1>> \o Decoder!Flat(Tail(m.v)) \in Numbers
    BY <1>3, <2>1, <2>2
  <2> QED
    BY <1>8, <2>3 DEF Decoder!Body
<1>9. CASE m.tag = "Authentication"
  <2>0. <<10>> \in Numbers /\ Tail(m.v) \in Seq(Numbers)
    BY <1>2, <1>9, OneTyped DEF Headed
  <2>1. <<10>> \in Numbers /\ Decoder!Zeroed(Decoder!AllZeroed(Tail(m.v))) \in Numbers
    BY <2>0, AllZeroedTyped, ZeroedTyped, Zenon
  <2>2. <<10>> \o Decoder!Zeroed(Decoder!AllZeroed(Tail(m.v))) \in Numbers
    BY <2>1, BothTyped
  <2>3. Decoder!Flat(m.v) \in Numbers
    BY <1>1, FlatTyped
  <2> QED
    BY <1>9, <2>2, <2>3 DEF Decoder!Body
<1>10. CASE m.tag \in {"ParameterDescription", "RowDescription"}
  <2>1. <<Len(m.v)>> \o Decoder!Flat(m.v) \in Numbers
    BY <1>1, FlatTyped, BothTyped, OneTyped
  <2> QED
    BY <1>10, <2>1 DEF Decoder!Body
<1>11. CASE m.tag \notin {"CommandComplete", "ParameterStatus", "Notification", "DataRow",
                         "ErrorResponse", "Notice", "CopyInResponse", "CopyOutResponse",
                         "Authentication", "ParameterDescription", "RowDescription"}
  <2>1. Decoder!Flat(m.v) \in Numbers
    BY <1>1, FlatTyped
  <2> QED
    BY <1>11, <2>1 DEF Decoder!Body
<1> QED
  BY <1>4, <1>5, <1>6, <1>7, <1>8, <1>9, <1>10, <1>11

LEMMA FramedIs ==
  ASSUME NEW t \in Tags, NEW n \in Nat, NEW b \in Numbers, n >= 1 => n = Len(b) + 1
  PROVE  IsFrame(<<t, n>> \o b)
<1> DEFINE h == <<t, n>>
<1>1. h \in Seq(Octets) /\ Len(h) = 2 /\ h[2] = n
  <2>1. t \in Octets /\ n \in Octets
    BY DEF Octets
  <2> QED
    BY <2>1
<1>2. b \in Seq(Octets) /\ Len(b) \in Nat
  <2>1. b \in Seq(Int)
    BY DEF Numbers
  <2>2. \A i \in 1..Len(b) : b[i] \in Octets
    BY <2>1 DEF Octets
  <2> QED
    BY <2>1, <2>2, SeqDef
<1> HIDE DEF h
<1> DEFINE c == h \o b
<1>3. c \in Seq(Octets) /\ Len(c) = 2 + Len(b)
  <2>1. c \in Seq(Octets) /\ Len(c) = Len(h) + Len(b)
    BY <1>1, <1>2, ConcatProperties
  <2> QED
    BY <1>1, <2>1
<1>4. c[2] = n
  BY <1>1, <1>2, ConcatProperties
<1> HIDE DEF c
<1>5. IsFrame(c)
  BY <1>2, <1>3, <1>4 DEF IsFrame
<1> QED
  BY <1>5 DEF c, h

LEMMA BytesFrame ==
  ASSUME NEW m, Typed(m), NEW how
  PROVE  IsFrame(Decoder!Bytes(m, how))
<1> DEFINE b == Decoder!Body(m)
<1>1. b \in Numbers
  BY BodyTyped
<1>2. m.tag \in Tags /\ "Unknown" \in Tags
  BY DEF Typed, Tags
<1>3. \A t \in Tags, c \in Numbers : IsFrame(Decoder!Framed(t, c))
  <2> TAKE t \in Tags, c \in Numbers
  <2>1. Len(c) + 1 \in Nat
    BY DEF Numbers
  <2> QED
    BY <2>1, FramedIs DEF Decoder!Framed, Decoder!MinLen
<1>4. SubSeq(b, 1, Len(b) - 1) \in Numbers
  <2> HIDE DEF b
  <2>1. b \in Seq(Int) /\ Len(b) \in Nat
    BY <1>1 DEF Numbers
  <2>2. \A i \in 1..Len(b) - 1 : b[i] \in Int
    BY <2>1
  <2>3. SubSeq(b, 1, Len(b) - 1) \in Seq(Int)
    BY <2>1, <2>2, SubSeqProperties
  <2> QED
    BY <2>3 DEF Numbers
<1>5. b \o <<1>> \in Numbers
  BY <1>1, OneTyped, BothTyped
<1>6. IsFrame(<<m.tag, Decoder!MinLen - 1>> \o b)
  <2>1. Decoder!MinLen - 1 = 0
    BY DEF Decoder!MinLen
  <2> HIDE DEF b
  <2> QED
    BY <1>1, <1>2, <2>1, FramedIs
<1> HIDE DEF b
<1>7. /\ IsFrame(Decoder!Framed(m.tag, SubSeq(b, 1, Len(b) - 1)))
      /\ IsFrame(Decoder!Framed(m.tag, b \o <<1>>))
      /\ IsFrame(Decoder!Framed("Unknown", b))
      /\ IsFrame(Decoder!Framed(m.tag, b))
  BY <1>1, <1>2, <1>3, <1>4, <1>5
<1> QED
  BY <1>6, <1>7 DEF Decoder!Bytes, b

LEMMA BackendStarts ==
  ASSUME Decoder!Init
  PROVE  BackendInv
<1> DEFINE ready == [tag |-> "ReadyForQuery", v |-> <<<<1>>>>]
<1>1. Typed(ready)
  BY DEF Typed, Numbers, Tags, Headed
<1>2. \A p \in Decoder!Plain : Typed(p)
  BY SamplesTyped DEF Decoder!Plain
<1>3. \E S : sent \in Seq(S) /\ Len(sent) \in Nat /\ \A k \in 1..Len(sent) : Typed(sent[k])
  <2>1. CASE sent \in [1..1 -> Decoder!Samples]
    <3>1. sent \in Seq(Decoder!Samples)
      BY <2>1, SeqDef
    <3> QED
      BY <3>1, SamplesTyped
  <2>2. CASE \E m \in Decoder!Samples, p \in Decoder!Plain : sent = <<p, m>>
    <3>1. PICK m \in Decoder!Samples, p \in Decoder!Plain : sent = <<p, m>>
      BY <2>2
    <3>2. Typed(m) /\ Typed(p)
      BY <1>2, SamplesTyped
    <3> DEFINE S == {m, p}
    <3>3. sent \in Seq(S) /\ \A x \in S : Typed(x)
      BY <3>1, <3>2
    <3> HIDE DEF S
    <3> QED
      BY <3>3
  <2>3. CASE \E m \in Decoder!Samples : sent = <<m, ready>>
    <3>1. PICK m \in Decoder!Samples : sent = <<m, ready>>
      BY <2>3
    <3>2. Typed(m) /\ Typed(ready)
      BY <1>1, SamplesTyped
    <3> HIDE DEF ready
    <3> DEFINE S == {m, ready}
    <3>3. sent \in Seq(S) /\ \A x \in S : Typed(x)
      BY <3>1, <3>2
    <3> HIDE DEF S
    <3> QED
      BY <3>3
  <2>4. CASE \E n \in 3..MaxStream : sent \in [1..n -> Decoder!Plain]
    <3>1. sent \in Seq(Decoder!Plain)
      BY <2>4, SeqDef
    <3> QED
      BY <3>1, <1>2
  <2> QED
    BY <2>1, <2>2, <2>3, <2>4 DEF Decoder!Init
<1> DEFINE ss == [k \in 1..Len(sent) |->
                    Decoder!Bytes(sent[k], IF k = damage.at THEN damage.how ELSE "none")]
<1>4. Len(sent) \in Nat
  BY <1>3
<1>5. \A k \in 1..Len(sent) : IsFrame(ss[k])
  BY <1>3, BytesFrame
<1>6. ss \in Seq(Seq(Octets)) /\ Len(ss) = Len(sent)
  <2>1. ss \in [1..Len(sent) -> Seq(Octets)]
    BY <1>5 DEF IsFrame
  <2> HIDE DEF ss
  <2> QED
    BY <1>4, <2>1, SeqDef
<1>7. network = Decoder!Flat(ss) /\ src = <<>> /\ batches = <<>>
  BY DEF Decoder!Init
<1> HIDE DEF ss
<1>8. network \in Seq(Octets) /\ \E P : Aligned(network, P)
  BY <1>5, <1>6, <1>7, FramesAligned
<1>9. src \o network = network /\ src \in Seq(Octets)
  BY <1>7, <1>8, ConcatEmptySeq
<1>10. Framed
  BY <1>8, <1>9 DEF Framed
<1>11. batches \in Seq({}) /\ Decoder!BatchesOfOneRequest
  <2>1. DOMAIN batches = {}
    BY <1>7
  <2>2. Decoder!BatchesOfOneRequest
    BY <2>1 DEF Decoder!BatchesOfOneRequest
  <2> QED
    BY <1>7, <2>2
<1> QED
  BY <1>10, <1>11 DEF BackendInv

LEMMA BackendStep ==
  ASSUME BackendInv, Decoder!Next
  PROVE  BackendInv'
<1>1. CASE Decoder!Decode
  BY <1>1, DecodeKeeps
<1>2. CASE \E k \in 1..Len(network) : Decoder!Arrive(k)
  <2>1. PICK k \in 1..Len(network) : Decoder!Arrive(k)
    BY <1>2
  <2>2. Len(network) \in Nat
    BY DEF BackendInv, Framed
  <2>3. k \in Nat /\ k <= Len(network)
    BY <2>2
  <2> QED
    BY <2>1, <2>3, ArriveKeeps
<1> QED
  BY <1>1, <1>2 DEF Decoder!Next

-----------------------------------------------------------------------------
(* Reading the bytes of a COPY.                                            *)

\* What was read, what is left of the chunk being read and the chunks not read are what was
\* sent; and nothing is left once the end was reported.
BytesRead ==
  /\ damage = 0
  /\ \E S : /\ chunks \in Seq(Seq(S)) /\ cur \in Seq(S) /\ got \in Seq(S) /\ sent \in Seq(S)
            /\ got \o (cur \o A!FlattenSeq(chunks)) = sent
  /\ last = "end" => cur = <<>> /\ chunks = <<>>

LEMMA SameReaderFlatten == \A ss : Reader!FlattenSeq(ss) = A!FlattenSeq(ss)
BY DEF Reader!FlattenSeq, A!FlattenSeq

LEMMA FlattenNothing ==
  ASSUME NEW S, NEW ss \in Seq(Seq(S)), \A k \in 1..Len(ss) : ss[k] = <<>>
  PROVE  A!FlattenSeq(ss) = <<>>
<1> DEFINE T == {k \in Nat : k <= Len(ss) => A!FlattenSeq(SubSeq(ss, 1, k)) = <<>>}
<1>1. Len(ss) \in Nat
  OBVIOUS
<1>2. 0 \in T
  <2>1. SubSeq(ss, 1, 0) = <<>>
    BY <1>1
  <2> QED
    BY <2>1, A!FlattenEmpty
<1>3. \A k \in Nat : k \in T => k + 1 \in T
  <2> SUFFICES ASSUME NEW k \in Nat, k \in T, k + 1 <= Len(ss)
               PROVE  A!FlattenSeq(SubSeq(ss, 1, k + 1)) = <<>>
    OBVIOUS
  <2> DEFINE tt == SubSeq(ss, 1, k)
  <2>1. k <= Len(ss) /\ k + 1 \in 1..Len(ss)
    BY <1>1
  <2>2. A!FlattenSeq(tt) = <<>>
    BY <2>1
  <2>3. tt \in Seq(Seq(S)) /\ ss[k + 1] = <<>> /\ <<>> \in Seq(S)
    BY <2>1
  <2>4. SubSeq(ss, 1, k + 1) = Append(tt, <<>>)
    BY <1>1, <2>1
  <2> HIDE DEF tt
  <2>5. A!FlattenSeq(Append(tt, <<>>)) = A!FlattenSeq(tt) \o <<>>
    BY <2>3, A!FlattenAppend
  <2>6. <<>> \o <<>> = <<>>
    OBVIOUS
  <2> QED
    BY <2>2, <2>4, <2>5, <2>6
<1> HIDE DEF T
<1>4. Len(ss) \in T
  BY <1>1, <1>2, <1>3, A!NatSetInduction
<1>5. SubSeq(ss, 1, Len(ss)) = ss /\ Len(ss) <= Len(ss)
  BY <1>1
<1>6. A!FlattenSeq(SubSeq(ss, 1, Len(ss))) = <<>>
  BY <1>4, <1>5, Zenon DEF T
<1> QED
  BY <1>5, <1>6, Zenon

\* The chunks skipped are the empty ones before the first that is not.
LEMMA SkippedIs ==
  ASSUME NEW S, chunks \in Seq(Seq(S))
  PROVE  LET k == Reader!Skipped
         IN /\ k \in 0..Len(chunks) /\ \A j \in 1..k : chunks[j] = <<>>
            /\ k < Len(chunks) => chunks[k + 1] # <<>>
<1> DEFINE full == {k \in DOMAIN chunks : chunks[k] # <<>>}
           c == CHOOSE k \in full : \A j \in full : k <= j
<1>1. Len(chunks) \in Nat /\ DOMAIN chunks = 1..Len(chunks)
  OBVIOUS
<1>2. CASE full = {}
  <2>1. Reader!Skipped = Len(chunks)
    BY <1>2 DEF Reader!Skipped
  <2> QED
    BY <1>1, <1>2, <2>1
<1>3. CASE full # {}
  <2>1. PICK n \in full : TRUE
    BY <1>3
  <2>2. n \in Nat
    BY <1>1, <2>1
  <2>3. PICK k \in 0..n : k \in full /\ \A j \in 0..k - 1 : j \notin full
    <3> HIDE DEF full
    <3> QED
      BY <2>1, <2>2, FirstOne
  <2>4. \A j \in full : k <= j
    <3>1. full \subseteq Nat /\ k \in Nat
      BY <1>1, <2>2, <2>3
    <3> HIDE DEF full
    <3> QED
      BY <2>3, <3>1
  <2>5. c \in full /\ \A j \in full : c <= j
    <3> HIDE DEF full
    <3> QED
      BY <2>3, <2>4
  <2>6. Reader!Skipped = c - 1
    BY <1>3 DEF Reader!Skipped
  <2> HIDE DEF c
  <2>7. c \in 1..Len(chunks) /\ chunks[c] # <<>> /\ (\A j \in 1..Len(chunks) : j < c => chunks[j] = <<>>)
    <3>1. c \in 1..Len(chunks) /\ chunks[c] # <<>>
      BY <1>1, <2>5
    <3>2. ASSUME NEW j \in 1..Len(chunks), j < c PROVE chunks[j] = <<>>
      <4>1. j \in full => c <= j
        BY <2>5
      <4>2. ~(c <= j)
        BY <1>1, <3>1, <3>2
      <4>3. j \notin full
        BY <4>1, <4>2
      <4> QED
        BY <1>1, <4>3
    <3> QED
      BY <3>1, <3>2
  <2>8. c - 1 \in 0..Len(chunks) /\ (c - 1) + 1 = c /\ \A j \in 1..c - 1 : j < c /\ j \in 1..Len(chunks)
    BY <1>1, <2>7
  <2> QED
    BY <2>6, <2>7, <2>8
<1> QED
  BY <1>2, <1>3

LEMMA FillIs ==
  ASSUME NEW S, chunks \in Seq(Seq(S)), cur \in Seq(S)
  PROVE  LET f == Reader!Fill
         IN /\ f.cur \in Seq(S) /\ f.rest \in Seq(Seq(S))
            /\ f.cur \o A!FlattenSeq(f.rest) = cur \o A!FlattenSeq(chunks)
            /\ f.cur = <<>> => cur = <<>> /\ f.rest = <<>>
<1> DEFINE k == Reader!Skipped
           p == SubSeq(chunks, 1, k)
           rest == SubSeq(chunks, k + 1, Len(chunks))
<1>1. CASE cur # <<>>
  <2>1. Reader!Fill.cur = cur /\ Reader!Fill.rest = chunks
    BY <1>1 DEF Reader!Fill
  <2> QED
    BY <1>1, <2>1
<1>2. CASE cur = <<>>
  <2>1. /\ k \in 0..Len(chunks) /\ \A j \in 1..k : chunks[j] = <<>>
        /\ k < Len(chunks) => chunks[k + 1] # <<>>
    BY SkippedIs
  <2>2. Len(chunks) \in Nat /\ k \in Nat
    BY <2>1
  <2>3. Reader!Fill = IF rest = <<>> THEN [cur |-> <<>>, rest |-> <<>>]
                      ELSE [cur |-> Head(rest), rest |-> Tail(rest)]
    BY <1>2 DEF Reader!Fill
  <2> HIDE DEF k
  <2>4. p \in Seq(Seq(S)) /\ rest \in Seq(Seq(S)) /\ Len(p) = k /\ Len(rest) = Len(chunks) - k
        /\ \A j \in 1..k : p[j] = chunks[j]
    BY <2>1, <2>2
  <2>5. p \o rest = chunks
    <3>1. k <= Len(chunks) /\ chunks \in Seq(Seq(S))
      BY <2>1, <2>2
    <3>2. SubSeq(chunks, 1, k) \o SubSeq(chunks, k + 1, Len(chunks)) = chunks
      BY <2>2, <3>1, SplitAt
    <3> QED
      BY <3>2
  <2>6. rest # <<>> => rest[1] # <<>>
    <3>1. rest # <<>> => k < Len(chunks) /\ rest[1] = chunks[k + 1]
      BY <2>1, <2>2, <2>4
    <3> QED
      BY <2>1, <3>1
  <2> HIDE DEF p, rest
  <2>7. A!FlattenSeq(p) = <<>>
    BY <2>1, <2>4, FlattenNothing
  <2>8. A!FlattenSeq(chunks) = A!FlattenSeq(rest)
    <3>1. A!FlattenSeq(p \o rest) = A!FlattenSeq(p) \o A!FlattenSeq(rest)
      BY <2>4, A!FlattenConcat
    <3>2. A!FlattenSeq(rest) \in Seq(S)
      BY <2>4, A!FlattenType
    <3>3. <<>> \o A!FlattenSeq(rest) = A!FlattenSeq(rest)
      BY <3>2, ConcatEmptySeq
    <3> QED
      BY <2>5, <2>7, <3>1, <3>3
  <2>9. A!FlattenSeq(rest) \in Seq(S) /\ cur \o A!FlattenSeq(chunks) = A!FlattenSeq(rest)
    <3>1. A!FlattenSeq(rest) \in Seq(S)
      BY <2>4, A!FlattenType
    <3> QED
      BY <1>2, <2>8, <3>1, ConcatEmptySeq
  <2>10. CASE rest = <<>>
    <3>1. Reader!Fill.cur = <<>> /\ Reader!Fill.rest = <<>>
      BY <2>3, <2>10
    <3>2. A!FlattenSeq(rest) = <<>> /\ <<>> \in Seq(S) /\ <<>> \in Seq(Seq(S)) /\ <<>> \o <<>> = <<>>
      BY <2>10, A!FlattenEmpty
    <3> QED
      BY <1>2, <2>9, <2>10, <3>1, <3>2
  <2>11. CASE rest # <<>>
    <3> DEFINE x == Head(rest)
               y == Tail(rest)
    <3>1. x \in Seq(S) /\ y \in Seq(Seq(S)) /\ rest = <<x>> \o y /\ x = rest[1]
      BY <2>4, <2>11
    <3>2. Reader!Fill.cur = x /\ Reader!Fill.rest = y
      BY <2>3, <2>11
    <3> HIDE DEF x, y
    <3>3. A!FlattenSeq(<<x>> \o y) = x \o A!FlattenSeq(y)
      BY <3>1, A!FlattenFront
    <3>4. x # <<>>
      BY <2>6, <2>11, <3>1
    <3> QED
      BY <2>9, <3>1, <3>2, <3>3, <3>4
  <2> QED
    BY <2>10, <2>11
<1> QED
  BY <1>1, <1>2

LEMMA BytesReadOn ==
  ASSUME BytesRead, NEW n \in Nat, Reader!Read(n)
  PROVE  BytesRead'
<1> DEFINE f == Reader!Fill
           k == IF n < Len(f.cur) THEN n ELSE Len(f.cur)
           p == SubSeq(f.cur, 1, k)
           q == SubSeq(f.cur, k + 1, Len(f.cur))
<1>1. PICK S : /\ chunks \in Seq(Seq(S)) /\ cur \in Seq(S) /\ got \in Seq(S) /\ sent \in Seq(S)
               /\ got \o (cur \o A!FlattenSeq(chunks)) = sent
  BY DEF BytesRead
<1>2. /\ f.cur \in Seq(S) /\ f.rest \in Seq(Seq(S))
      /\ f.cur \o A!FlattenSeq(f.rest) = cur \o A!FlattenSeq(chunks)
      /\ f.cur = <<>> => cur = <<>> /\ f.rest = <<>>
  BY <1>1, FillIs
<1>3. chunks' = f.rest /\ sent' = sent /\ damage' = damage /\ damage = 0
  BY DEF Reader!Read, BytesRead
<1>4. CASE f.cur # <<>>
  <2>1. cur' = q /\ got' = got \o p /\ last' = "item"
    BY <1>4 DEF Reader!Read, Reader!Reports
  <2>2. k \in Nat /\ k <= Len(f.cur)
    BY <1>2
  <2> DEFINE r == A!FlattenSeq(f.rest)
             d == f.cur
  <2>3. r \in Seq(S) /\ d \in Seq(S) /\ d \o r = cur \o A!FlattenSeq(chunks)
    BY <1>2, A!FlattenType
  <2> HIDE DEF k
  <2>4. p \in Seq(S) /\ q \in Seq(S) /\ p \o q = d
    <3> HIDE DEF f
    <3>1. Len(d) \in Nat
      BY <2>3
    <3>2. p \in Seq(S) /\ q \in Seq(S)
      BY <2>2, <2>3, <3>1
    <3>3. p \o q = d
      BY <2>2, <2>3, SplitAt
    <3> QED
      BY <3>2, <3>3
  <2>5. got' \o (cur' \o A!FlattenSeq(chunks')) = sent'
    <3> HIDE DEF p, q, r, d, f
    <3>1. \A a, b, c \in Seq(S) : (a \o b) \o c = a \o (b \o c)
      BY ConcatAssociative
    <3>5. q \o r \in Seq(S) /\ got \in Seq(S) /\ p \in Seq(S)
      BY <1>1, <2>3, <2>4
    <3>2. (got \o p) \o (q \o r) = got \o (p \o (q \o r))
      BY <3>1, <3>5
    <3>3. p \o (q \o r) = d \o r
      BY <2>3, <2>4, <3>1
    <3>4. A!FlattenSeq(chunks') = r
      BY <1>3 DEF r
    <3> QED
      BY <1>1, <1>3, <2>1, <2>3, <3>2, <3>3, <3>4
  <2>6. cur' \in Seq(S) /\ got' \in Seq(S) /\ chunks' \in Seq(Seq(S)) /\ sent' \in Seq(S)
    <3> HIDE DEF p, q, f
    <3> QED
      BY <1>1, <1>2, <1>3, <2>1, <2>4
  <2> HIDE DEF p, q, r, d, f
  <2> QED
    BY <1>3, <2>1, <2>5, <2>6 DEF BytesRead
<1>5. CASE f.cur = <<>>
  <2>1. cur' = cur /\ got' = got /\ cur = <<>> /\ chunks' = <<>>
    BY <1>2, <1>3, <1>5 DEF Reader!Read
  <2>2. cur' \o A!FlattenSeq(chunks') = cur \o A!FlattenSeq(chunks)
    BY <1>2, <1>3, <1>5, <2>1
  <2> HIDE DEF f
  <2>3. got' \o (cur' \o A!FlattenSeq(chunks')) = sent'
    BY <1>1, <1>3, <2>1, <2>2
  <2>4. cur' \in Seq(S) /\ got' \in Seq(S) /\ chunks' \in Seq(Seq(S)) /\ sent' \in Seq(S)
    BY <1>1, <1>3, <2>1
  <2> QED
    BY <1>3, <2>1, <2>3, <2>4 DEF BytesRead
<1> QED
  BY <1>4, <1>5

LEMMA PrefixOf ==
  ASSUME NEW S, NEW s \in Seq(S), NEW t \in Seq(S)
  PROVE  Reader!IsPrefix(s, s \o t)
<1>1. Len(s \o t) = Len(s) + Len(t) /\ Len(s) \in Nat /\ Len(t) \in Nat
  OBVIOUS
<1>2. SubSeq(s \o t, 1, Len(s)) = SubSeq(s, 1, Len(s))
  OBVIOUS
<1> QED
  BY <1>1, <1>2 DEF Reader!IsPrefix

LEMMA BytesAsSent ==
  ASSUME BytesRead
  PROVE  Reader!ReadAsSent
<1>1. PICK S : /\ chunks \in Seq(Seq(S)) /\ cur \in Seq(S) /\ got \in Seq(S) /\ sent \in Seq(S)
               /\ got \o (cur \o A!FlattenSeq(chunks)) = sent
  BY DEF BytesRead
<1>2. Reader!Good = sent
  <2>1. damage = 0 /\ Len(sent) \in Nat /\ DOMAIN sent = 1..Len(sent)
    BY <1>1 DEF BytesRead
  <2>2. Reader!Good = [k \in 1..Len(sent) |-> sent[k]]
    BY <2>1 DEF Reader!Good
  <2> QED
    BY <1>1, <2>1, <2>2
<1> DEFINE t == cur \o A!FlattenSeq(chunks)
<1>3. t \in Seq(S)
  <2>1. A!FlattenSeq(chunks) \in Seq(S)
    BY <1>1, A!FlattenType
  <2> QED
    BY <1>1, <2>1
<1>4. Reader!IsPrefix(got, Reader!Good)
  <2> HIDE DEF t
  <2>1. got \o t = sent
    BY <1>1 DEF t
  <2> QED
    BY <1>1, <1>2, <1>3, <2>1, PrefixOf
<1>5. last = "end" => got = sent
  <2>1. last = "end" => t = <<>>
    <3>1. last = "end" => cur = <<>> /\ chunks = <<>>
      BY DEF BytesRead
    <3>2. A!FlattenSeq(<<>>) = <<>> /\ <<>> \o <<>> = <<>>
      BY A!FlattenEmpty
    <3> QED
      BY <3>1, <3>2
  <2> HIDE DEF t
  <2>2. got \o t = sent
    BY <1>1 DEF t
  <2> QED
    BY <1>1, <2>1, <2>2, ConcatEmptySeq
<1> QED
  BY <1>2, <1>4, <1>5 DEF Reader!ReadAsSent

LEMMA BytesStart ==
  ASSUME Reader!Init, Reader!InitBytes
  PROVE  BytesRead
<1>1. PICK n \in 0..MaxCopyRows : \E sizes \in [1..n -> 0..MaxChunk] :
             chunks = [k \in 1..n |-> [i \in 1..sizes[k] |-> <<k, i>>]]
  BY DEF Reader!InitBytes
<1>2. PICK sizes \in [1..n -> 0..MaxChunk] :
             chunks = [k \in 1..n |-> [i \in 1..sizes[k] |-> <<k, i>>]]
  BY <1>1
<1> DEFINE S == Nat \X Nat
<1>3. n \in Nat
  BY <1>1
<1>4. \A k \in 1..n : chunks[k] \in Seq(S)
  <2> TAKE k \in 1..n
  <2>1. sizes[k] \in Nat /\ k \in Nat
    BY <1>2, <1>3
  <2>2. chunks[k] = [i \in 1..sizes[k] |-> <<k, i>>]
    BY <1>2
  <2>3. [i \in 1..sizes[k] |-> <<k, i>>] \in [1..sizes[k] -> S]
    BY <2>1
  <2> HIDE DEF S
  <2> QED
    BY <2>1, <2>2, <2>3, SeqDef
<1> HIDE DEF S
<1>5. chunks \in Seq(Seq(S))
  <2>1. chunks \in [1..n -> Seq(S)]
    BY <1>2, <1>4
  <2> QED
    BY <1>3, <2>1, SeqDef
<1>6. sent = A!FlattenSeq(chunks) /\ cur = <<>> /\ got = <<>> /\ last = "none" /\ damage = 0
  BY SameReaderFlatten DEF Reader!Init, Reader!InitBytes
<1>7. sent \in Seq(S)
  BY <1>5, <1>6, A!FlattenType
<1>8. got \o (cur \o A!FlattenSeq(chunks)) = sent
  BY <1>6, <1>7, ConcatEmptySeq
<1>9. cur \in Seq(S) /\ got \in Seq(S)
  BY <1>6
<1> QED
  BY <1>5, <1>6, <1>7, <1>8, <1>9 DEF BytesRead

-----------------------------------------------------------------------------
(* Reading the rows of a COPY.                                             *)

\* A function of a natural that each next value of is made from the one before.
Iterates(R, a, g, m, f) ==
  f \in [0..m -> R] /\ f[0] = a /\ \A k \in 1..m : f[k] = g[f[k - 1]]

LEMMA Iteration ==
  ASSUME NEW R, NEW a, NEW g, NEW m, a \in R, g \in [R -> R], m \in Nat
  PROVE  \E f : Iterates(R, a, g, m, f)
<1> DEFINE So(n, f) == f \in [0..n -> R] /\ f[0] = a /\ \A k \in 1..n : f[k] = g[f[k - 1]]
           T == {n \in Nat : \E f : So(n, f)}
<1>1. 0 \in T
  <2>1. So(0, [k \in 0..0 |-> a])
    OBVIOUS
  <2> HIDE DEF So
  <2> QED
    BY <2>1
<1>2. ASSUME NEW n \in Nat, n \in T PROVE n + 1 \in T
  <2>1. PICK f : So(n, f)
    BY <1>2
  <2> DEFINE h == [k \in 0..n + 1 |-> IF k <= n THEN f[k] ELSE g[f[n]]]
  <2>2. n \in 0..n /\ f[n] \in R /\ g[f[n]] \in R
    BY <2>1
  <2>3. h \in [0..n + 1 -> R] /\ h[0] = a
    BY <2>1, <2>2
  <2>4. ASSUME NEW k \in 1..n + 1 PROVE h[k] = g[h[k - 1]]
    <3>1. k - 1 \in 0..n /\ k \in 0..n + 1
      OBVIOUS
    <3>2. CASE k <= n
      <4>1. h[k] = f[k] /\ h[k - 1] = f[k - 1] /\ k \in 1..n
        BY <3>1, <3>2
      <4> QED
        BY <2>1, <4>1
    <3>3. CASE k = n + 1
      BY <3>1, <3>3
    <3> QED
      BY <3>2, <3>3
  <2>5. So(n + 1, h)
    <3> HIDE DEF h
    <3> QED
      BY <2>3, <2>4
  <2> HIDE DEF So, h
  <2> QED
    BY <2>5
<1> HIDE DEF T
<1>3. m \in T
  BY <1>1, <1>2, A!NatSetInduction
<1> QED
  BY <1>3 DEF T, Iterates

Names == {"magic", "flags", "extension", "value", "count", "len", "header", "trailer", "raw"}
Tokens == [t : Names, n : Int]
\* What a column of a row may hold, and is not taken for one that is missing.
Cells == {v \in Int : v # Reader!Short}
TableRow == [1..Columns -> Cells]

LEMMA ColumnsAre == Columns \in Nat \ {0}
BY BoundsAssumption

LEMMA RowSetsTyped ==
  ASSUME NEW n \in Nat, NEW rows \in Reader!RowSets(n)
  PROVE  rows \in Seq(TableRow) /\ Len(rows) = n
<1>1. PICK nulls \in SUBSET ((1..n) \X (1..Columns)) :
        rows = [r \in 1..n |-> [c \in 1..Columns |->
                  IF <<r, c>> \in nulls THEN Reader!Null ELSE Columns * r + c]]
  BY DEF Reader!RowSets
<1>2. ASSUME NEW r \in 1..n, NEW c \in 1..Columns
      PROVE  (IF <<r, c>> \in nulls THEN Reader!Null ELSE Columns * r + c) \in Cells
  <2>1. r \in Nat /\ c \in Nat /\ Columns \in Nat
    BY ColumnsAre
  <2>2. Columns * r \in Nat
    BY <2>1
  <2> DEFINE x == Columns * r
  <2> HIDE DEF x
  <2>3. x + c \in Cells
    BY <2>1, <2>2 DEF x, Cells, Reader!Short
  <2> QED
    BY <2>3 DEF x, Cells, Reader!Short, Reader!Null
<1>3. rows \in [1..n -> TableRow]
  BY <1>1, <1>2 DEF TableRow
<1> QED
  BY <1>3, SeqDef

LEMMA FieldIs ==
  ASSUME NEW v \in Cells
  PROVE  /\ Reader!Field(v) \in Seq(Tokens)
         /\ v = -1 => Len(Reader!Field(v)) = 1 /\ Reader!Field(v)[1].n = -1
         /\ v # -1 => /\ Len(Reader!Field(v)) = 2 /\ Reader!Field(v)[1].n = 1
                      /\ Reader!Field(v)[2].n = v
         /\ \A j \in 1..Len(Reader!Field(v)) : Reader!Field(v)[j].t \in {"len", "value"}
<1>1. v \in Int
  BY DEF Cells
<1>2. CASE v = -1
  <2> DEFINE x == [t |-> "len", n |-> -1]
  <2>1. Reader!Field(v) = <<x>>
    BY <1>2 DEF Reader!Field, Reader!Token, Reader!Null
  <2>2. x \in Tokens /\ x.n = -1 /\ x.t = "len"
    BY DEF Tokens, Names
  <2> HIDE DEF x
  <2> DEFINE s == Reader!Field(v)
  <2>3. s \in Seq(Tokens) /\ Len(s) = 1 /\ s[1] = x
    BY <2>1, <2>2
  <2> HIDE DEF s
  <2>4. s \in Seq(Tokens) /\ Len(s) = 1 /\ s[1].n = -1 /\ \A j \in 1..Len(s) : s[j].t \in {"len", "value"}
    BY <2>2, <2>3
  <2> QED
    BY <1>2, <2>4 DEF s
<1>3. CASE v # -1
  <2> DEFINE x == [t |-> "len", n |-> 1]
             y == [t |-> "value", n |-> v]
  <2>1. Reader!Field(v) = <<x, y>>
    BY <1>3 DEF Reader!Field, Reader!Token, Reader!Null
  <2>2. x \in Tokens /\ y \in Tokens /\ x.n = 1 /\ y.n = v /\ x.t = "len" /\ y.t = "value"
    BY <1>1 DEF Tokens, Names
  <2> HIDE DEF x, y
  <2> QED
    BY <1>3, <2>1, <2>2
<1> QED
  BY <1>2, <1>3

\* Where the i-th of sequences that are end to end starts.
Off(ss, i) == Len(A!FlattenSeq(SubSeq(ss, 1, i)))

LEMMA OffIs ==
  ASSUME NEW S, NEW ss \in Seq(Seq(S))
  PROVE  /\ Off(ss, 0) = 0 /\ Off(ss, Len(ss)) = Len(A!FlattenSeq(ss))
         /\ \A i \in 0..Len(ss) : Off(ss, i) \in Nat
<1>1. Len(ss) \in Nat
  OBVIOUS
<1>2. SubSeq(ss, 1, 0) = <<>> /\ SubSeq(ss, 1, Len(ss)) = ss
  BY <1>1
<1>3. \A i \in 0..Len(ss) : SubSeq(ss, 1, i) \in Seq(Seq(S))
  BY <1>1
<1>4. \A i \in 0..Len(ss) : A!FlattenSeq(SubSeq(ss, 1, i)) \in Seq(S)
  BY <1>3, A!FlattenType
<1>5. Len(<<>>) = 0 /\ \A s \in Seq(S) : Len(s) \in Nat
  OBVIOUS
<1>6. Off(ss, 0) = 0 /\ Off(ss, Len(ss)) = Len(A!FlattenSeq(ss))
  BY <1>2, <1>5, A!FlattenEmpty, Zenon DEF Off
<1>7. \A i \in 0..Len(ss) : Off(ss, i) \in Nat
  BY <1>4, <1>5, Zenon DEF Off
<1> QED
  BY <1>6, <1>7

LEMMA FlatAt ==
  ASSUME NEW S, NEW ss \in Seq(Seq(S)), NEW i \in Nat, i + 1 <= Len(ss)
  PROVE  /\ Off(ss, i) \in Nat /\ Off(ss, i + 1) = Off(ss, i) + Len(ss[i + 1])
         /\ Off(ss, i + 1) <= Len(A!FlattenSeq(ss))
         /\ \A j \in 1..Len(ss[i + 1]) : A!FlattenSeq(ss)[Off(ss, i) + j] = ss[i + 1][j]
<1> DEFINE p == SubSeq(ss, 1, i)
           s == ss[i + 1]
           rest == SubSeq(ss, (i + 1) + 1, Len(ss))
           u == A!FlattenSeq(p)
           w == A!FlattenSeq(rest)
<1>1. Len(ss) \in Nat /\ i + 1 \in 1..Len(ss) /\ i <= Len(ss)
  OBVIOUS
<1>2. p \in Seq(Seq(S)) /\ s \in Seq(S) /\ rest \in Seq(Seq(S))
  BY <1>1
<1>3. SubSeq(ss, 1, i + 1) = Append(p, s)
  BY <1>1
<1>4. Append(p, s) \o rest = ss
  <2>0. i + 1 \in Nat /\ i + 1 <= Len(ss) /\ ss \in Seq(Seq(S))
    BY <1>1
  <2> DEFINE k == i + 1
  <2> HIDE DEF k
  <2>2. SubSeq(ss, 1, k) \o SubSeq(ss, k + 1, Len(ss)) = ss
    BY <2>0, SplitAt DEF k
  <2>1. SubSeq(ss, 1, i + 1) \o SubSeq(ss, (i + 1) + 1, Len(ss)) = ss
    BY <2>2 DEF k
  <2> QED
    BY <1>3, <2>1
<1> HIDE DEF p, s, rest
<1>5. A!FlattenSeq(Append(p, s)) = u \o s /\ u \in Seq(S) /\ w \in Seq(S)
  BY <1>2, A!FlattenAppend, A!FlattenType
<1>6. A!FlattenSeq(ss) = (u \o s) \o w
  <2>1. Append(p, s) \in Seq(Seq(S))
    BY <1>2
  <2>2. A!FlattenSeq(Append(p, s) \o rest) = A!FlattenSeq(Append(p, s)) \o A!FlattenSeq(rest)
    BY <1>2, <2>1, A!FlattenConcat
  <2> QED
    BY <1>4, <1>5, <2>2
<1>7. Off(ss, i) = Len(u) /\ Off(ss, i + 1) = Len(u \o s)
  BY <1>3, <1>5 DEF Off, p
<1> HIDE DEF u, w
<1>8. u \in Seq(S) /\ s \in Seq(S) /\ w \in Seq(S) /\ u \o s \in Seq(S)
      /\ Len(u) \in Nat /\ Len(s) \in Nat /\ Len(w) \in Nat /\ Len(u \o s) = Len(u) + Len(s)
  BY <1>2, <1>5
<1>9. Len((u \o s) \o w) = Len(u \o s) + Len(w)
  BY <1>8
<1>10. ASSUME NEW j \in 1..Len(s) PROVE ((u \o s) \o w)[Len(u) + j] = s[j]
  <2>1. Len(u) + j \in 1..Len(u \o s) /\ Len(u) + j \in Len(u) + 1..Len(u) + Len(s)
        /\ (Len(u) + j) - Len(u) = j
    BY <1>8
  <2>2. ((u \o s) \o w)[Len(u) + j] = (u \o s)[Len(u) + j]
    BY <1>8, <2>1, ConcatProperties
  <2>3. (u \o s)[Len(u) + j] = s[(Len(u) + j) - Len(u)]
    BY <1>8, <2>1, ConcatProperties
  <2> QED
    BY <2>1, <2>2, <2>3
<1>11. Off(ss, i) \in Nat /\ Off(ss, i + 1) = Off(ss, i) + Len(s)
       /\ Off(ss, i + 1) <= Len(A!FlattenSeq(ss))
  BY <1>6, <1>7, <1>8, <1>9
<1>12. \A j \in 1..Len(s) : A!FlattenSeq(ss)[Off(ss, i) + j] = s[j]
  BY <1>6, <1>7, <1>10
<1> QED
  BY <1>11, <1>12 DEF s

\* The fields of a cells, end to end.
Parts(cells) == [c \in 1..Columns |-> Reader!Field(cells[c])]
RowFlat(cells) == A!FlattenSeq(Parts(cells))

LEMMA PartsAre ==
  ASSUME NEW cells \in TableRow
  PROVE  /\ Parts(cells) \in Seq(Seq(Tokens)) /\ Len(Parts(cells)) = Columns
         /\ \A i \in 1..Columns : Parts(cells)[i] = Reader!Field(cells[i])
<1>1. Columns \in Nat /\ \A c \in 1..Columns : cells[c] \in Cells
  BY ColumnsAre DEF TableRow
<1>2. \A c \in 1..Columns : Reader!Field(cells[c]) \in Seq(Tokens)
  BY <1>1, FieldIs
<1>3. Parts(cells) \in [1..Columns -> Seq(Tokens)]
  BY <1>2 DEF Parts
<1>4. Parts(cells) \in Seq(Seq(Tokens)) /\ Len(Parts(cells)) = Columns
  BY <1>1, <1>3, SeqDef
<1> QED
  BY <1>4 DEF Parts

\* One field more.
Place == [at : Nat \ {0}, values : Seq(Int)]
FieldNext(c, r) ==
  [at |-> r.at + Reader!FieldSize(c, r.at),
   values |-> Append(r.values, Reader!FieldValue(c, r.at))]

LEMMA FieldNextIs ==
  ASSUME NEW c \in Seq(Tokens), NEW r \in Place
  PROVE  FieldNext(c, r) \in Place
<1>1. r.at \in Nat \ {0} /\ r.values \in Seq(Int)
  BY DEF Place
<1>2. Reader!FieldSize(c, r.at) \in Nat
  BY DEF Reader!FieldSize
<1>3. Reader!FieldValue(c, r.at) \in Int
  <2>1. ASSUME NEW k \in Nat \ {0}, Reader!Has(c, k) PROVE c[k].n \in Int
    <3>1. Len(c) \in Nat /\ k <= Len(c)
      BY <2>1 DEF Reader!Has
    <3>2. c[k] \in Tokens
      BY <3>1
    <3> QED
      BY <3>2 DEF Tokens
  <2>2. r.at + 1 \in Nat \ {0}
    BY <1>1
  <2> QED
    BY <1>1, <2>1, <2>2 DEF Reader!FieldValue, Reader!FieldWhole, Reader!Short, Reader!Null
<1>4. r.at + Reader!FieldSize(c, r.at) \in Nat \ {0}
  BY <1>1, <1>2
<1>5. Append(r.values, Reader!FieldValue(c, r.at)) \in Seq(Int)
  BY <1>1, <1>3
<1> QED
  BY <1>4, <1>5 DEF FieldNext, Place

\* The places of the fields of c from k on, and the values before each.
Running(c, k, F) ==
  /\ F \in [0..Columns -> Place]
  /\ F[0] = [at |-> k, values |-> <<>>]
  /\ \A n \in 1..Columns : F[n] = FieldNext(c, F[n - 1])

LEMMA FieldsAre ==
  ASSUME NEW c \in Seq(Tokens), NEW k \in Nat \ {0}
  PROVE  \E F : Running(c, k, F) /\ Reader!Fields(c, k) = F[Columns].values
<1> DEFINE a == [at |-> k, values |-> <<>>]
           g == [r \in Place |-> FieldNext(c, r)]
           Is(F) == F = [n \in 0..Columns |->
                      IF n = 0 THEN [at |-> k, values |-> <<>>]
                      ELSE [at |-> F[n - 1].at + Reader!FieldSize(c, F[n - 1].at),
                            values |-> Append(F[n - 1].values, Reader!FieldValue(c, F[n - 1].at))]]
           h == CHOOSE F : Is(F)
<1>1. a \in Place /\ g \in [Place -> Place] /\ Columns \in Nat
  BY FieldNextIs, ColumnsAre DEF Place
<1>2. PICK f \in [0..Columns -> Place] : f[0] = a /\ \A n \in 1..Columns : f[n] = g[f[n - 1]]
  <2> HIDE DEF a, g
  <2>1. \E f : Iterates(Place, a, g, Columns, f)
    BY <1>1, Iteration
  <2> QED
    BY <2>1 DEF Iterates
<1>3. Is(f)
  <2> DEFINE e == [n \in 0..Columns |->
                      IF n = 0 THEN [at |-> k, values |-> <<>>]
                      ELSE [at |-> f[n - 1].at + Reader!FieldSize(c, f[n - 1].at),
                            values |-> Append(f[n - 1].values, Reader!FieldValue(c, f[n - 1].at))]]
  <2>1. \A n \in 0..Columns : f[n] = e[n]
    <3> TAKE n \in 0..Columns
    <3>1. CASE n = 0
      BY <1>2, <3>1
    <3>2. CASE n # 0
      <4>1. n \in 1..Columns /\ n - 1 \in 0..Columns
        BY <1>1, <3>2
      <4>2. f[n] = FieldNext(c, f[n - 1])
        BY <1>2, <4>1
      <4> QED
        BY <3>2, <4>2 DEF FieldNext
    <3> QED
      BY <3>1, <3>2
  <2>2. DOMAIN e = 0..Columns /\ DOMAIN f = 0..Columns
    BY <1>2
  <2> HIDE DEF e
  <2>3. e \in [0..Columns -> Place]
    BY <1>2, <2>1, <2>2 DEF e
  <2>4. f = [n \in 0..Columns |-> f[n]] /\ e = [n \in 0..Columns |-> e[n]]
    BY <1>2, <2>3
  <2>5. [n \in 0..Columns |-> f[n]] = [n \in 0..Columns |-> e[n]]
    BY <2>1
  <2>6. f = e
    BY <2>4, <2>5, Zenon
  <2> QED
    BY <2>6 DEF e
<1>4. Is(h)
  <2> HIDE DEF Is
  <2> QED
    BY <1>3
<1>6. Reader!Fields(c, k) = h[Columns].values
  BY Zenon DEF Reader!Fields
<1> HIDE DEF h
<1>5. Running(c, k, h)
  <2>1. DOMAIN h = 0..Columns /\ h[0] = a
    BY <1>1, <1>4
  <2>2. \A n \in 1..Columns : h[n] = FieldNext(c, h[n - 1])
    <3> TAKE n \in 1..Columns
    <3>1. n \in 0..Columns /\ n # 0
      BY <1>1
    <3> QED
      BY <1>4, <3>1 DEF FieldNext
  <2> HIDE DEF h, Is
  <2>3. h = [n \in 0..Columns |-> h[n]]
    BY <1>4 DEF Is
  <2> DEFINE T == {n \in Nat : n <= Columns => h[n] \in Place}
  <2>4. 0 \in T
    BY <1>1, <2>1
  <2>5. ASSUME NEW n \in Nat, n \in T PROVE n + 1 \in T
    <3> SUFFICES ASSUME n + 1 <= Columns PROVE h[n + 1] \in Place
      OBVIOUS
    <3>1. n <= Columns /\ n + 1 \in 1..Columns /\ (n + 1) - 1 = n
      BY <1>1
    <3>2. h[n] \in Place
      BY <2>5, <3>1
    <3> QED
      BY <2>2, <3>1, <3>2, FieldNextIs
  <2> HIDE DEF T
  <2>6. \A n \in Nat : n \in T
    BY <2>4, <2>5, A!NatSetInduction
  <2>7. \A n \in 0..Columns : h[n] \in Place
    BY <1>1, <2>6 DEF T
  <2>8. h \in [0..Columns -> Place]
    BY <2>3, <2>7
  <2> QED
    BY <2>1, <2>2, <2>8 DEF Running
<1> QED
  BY <1>5, <1>6

LEMMA FieldLength ==
  \A v \in Cells : /\ Len(Reader!Field(v)) \in Nat
                   /\ Len(Reader!Field(v)) >= 1 /\ Len(Reader!Field(v)) <= 2
<1> SUFFICES ASSUME NEW v \in Cells
             PROVE  /\ Len(Reader!Field(v)) \in Nat
                    /\ Len(Reader!Field(v)) >= 1 /\ Len(Reader!Field(v)) <= 2
  OBVIOUS
<1>1. Len(Reader!Field(v)) = 1 \/ Len(Reader!Field(v)) = 2
  BY FieldIs
<1> QED
  BY <1>1

\* From position p + 1 on c has the fields of a cells, but for the last token perhaps.
Follows(c, p, cells) ==
  /\ p <= Len(c)
  /\ Len(c) - p \in {Len(RowFlat(cells)), Len(RowFlat(cells)) - 1}
  /\ \A j \in 1..Len(c) - p : c[p + j] = RowFlat(cells)[j]

\* The field at Off(Parts(cells), i) + 1 is whole, when it is one of the others or none is missing.
LEMMA OneField ==
  ASSUME NEW cells \in TableRow, NEW c \in Seq(Tokens), NEW p \in Nat, Follows(c, p, cells),
         NEW i \in 0..Columns - 1, i + 1 < Columns \/ Len(c) - p = Len(RowFlat(cells)),
         NEW k, k = p + 1 + Off(Parts(cells), i)
  PROVE  /\ Reader!FieldValue(c, k) = cells[i + 1]
         /\ k + Reader!FieldSize(c, k) = p + 1 + Off(Parts(cells), i + 1)
         /\ k \in Nat \ {0}
<1> DEFINE ss == Parts(cells)
           fl == RowFlat(cells)
           x == ss[i + 1]
           o == Off(ss, i)
<1>1. Columns \in Nat \ {0} /\ i \in Nat /\ i + 1 \in 1..Columns /\ Len(c) \in Nat
  BY ColumnsAre
<1>2. ss \in Seq(Seq(Tokens)) /\ Len(ss) = Columns /\ x = Reader!Field(cells[i + 1])
  BY <1>1, PartsAre
<1>3. cells[i + 1] \in Cells
  BY <1>1 DEF TableRow
<1>4. /\ o \in Nat /\ Off(ss, i + 1) = o + Len(x) /\ Off(ss, i + 1) <= Len(fl)
      /\ \A j \in 1..Len(x) : fl[o + j] = x[j]
  <2>1. i + 1 <= Len(ss)
    BY <1>1, <1>2
  <2> QED
    BY <1>1, <1>2, <2>1, FlatAt DEF RowFlat
<1>5. x \in Seq(Tokens) /\ Len(x) \in Nat /\ Len(x) >= 1 /\ Len(x) <= 2
  BY <1>2, <1>3, FieldLength, FieldIs, Zenon
<1>6. fl \in Seq(Tokens) /\ Len(fl) \in Nat
  BY <1>2, A!FlattenType DEF RowFlat
<1>7. o + Len(x) <= Len(c) - p
  <2>1. CASE Len(c) - p = Len(fl)
    BY <1>1, <1>4, <1>5, <2>1
  <2>2. CASE i + 1 < Columns
    <3> DEFINE y == ss[(i + 1) + 1]
    <3>1. i + 1 \in Nat /\ (i + 1) + 1 <= Len(ss) /\ (i + 1) + 1 \in 1..Columns
      BY <1>1, <1>2, <2>2
    <3>2. Off(ss, (i + 1) + 1) = Off(ss, i + 1) + Len(y) /\ Off(ss, (i + 1) + 1) <= Len(fl)
      BY <1>2, <3>1, FlatAt DEF RowFlat
    <3>3. Len(y) \in Nat /\ Len(y) >= 1
      <4>1. y = Reader!Field(cells[(i + 1) + 1]) /\ cells[(i + 1) + 1] \in Cells
        BY <3>1, PartsAre DEF TableRow
      <4> QED
        BY <4>1, FieldLength, Zenon
    <3>4. Len(c) - p >= Len(fl) - 1
      BY <1>1, <1>6 DEF Follows
    <3> HIDE DEF y, x, o, ss, fl
    <3> DEFINE o1 == Off(ss, i + 1)
               o2 == Off(ss, (i + 1) + 1)
    <3>5. o1 = o + Len(x) /\ o1 \in Nat /\ o2 = o1 + Len(y) /\ o2 <= Len(fl)
      BY <1>4, <1>5, <3>2
    <3> HIDE DEF o1, o2
    <3> DEFINE lx == Len(x)
               ly == Len(y)
               lf == Len(fl)
               lc == Len(c) - p
    <3>6. lx \in Nat /\ ly \in Nat /\ ly >= 1 /\ lf \in Nat /\ lc \in Int
      BY <1>1, <1>5, <1>6, <3>3
    <3>7. lc >= lf - 1 /\ o1 = o + lx /\ o2 = o1 + ly /\ o2 <= lf /\ o \in Nat /\ o1 \in Nat
      BY <1>4, <3>4, <3>5
    <3> HIDE DEF lx, ly, lf, lc
    <3>8. o + lx <= lc
      BY <3>6, <3>7
    <3> QED
      BY <3>8 DEF lx, lc
  <2> QED
    BY <2>1, <2>2 DEF RowFlat
<1>8. \A j \in 1..Len(x) : /\ k + (j - 1) \in Nat \ {0} /\ Reader!Has(c, k + (j - 1))
                           /\ c[k + (j - 1)] = x[j]
  <2> HIDE DEF x, ss, fl
  <2> TAKE j \in 1..Len(x)
  <2>1. o + j \in 1..Len(c) - p /\ p + (o + j) = k + (j - 1) /\ j \in Nat
    <3>1. k = p + 1 + o
      BY DEF ss, o
    <3>2. j \in Nat /\ j >= 1 /\ j <= Len(x)
      BY <1>5
    <3> DEFINE lx == Len(x)
               lc == Len(c)
    <3>3. lx \in Nat /\ lc \in Nat /\ o \in Nat /\ o + lx <= lc - p /\ j <= lx
      BY <1>1, <1>4, <1>5, <1>7, <3>2
    <3> HIDE DEF o, lx, lc
    <3>4. o + j \in 1..lc - p /\ p + (o + j) = k + (j - 1)
      BY <3>1, <3>2, <3>3
    <3> QED
      BY <3>2, <3>4 DEF lc
  <2>2. c[p + (o + j)] = fl[o + j]
    BY <2>1 DEF Follows, fl
  <2>3. fl[o + j] = x[j]
    BY <1>4
  <2>4. k + (j - 1) \in Nat \ {0} /\ k + (j - 1) <= Len(c)
    <3> HIDE DEF o
    <3> QED
      BY <1>1, <1>4, <2>1
  <2> QED
    BY <2>1, <2>2, <2>3, <2>4 DEF Reader!Has
<1>9. k = p + 1 + o
  BY DEF ss, o
<1> HIDE DEF x, ss, fl, o
<1>10. k \in Nat \ {0} /\ k + (1 - 1) = k /\ k + (2 - 1) = k + 1
  BY <1>4, <1>9
<1>11. Reader!Has(c, k) /\ c[k] = x[1]
  <2>1. Len(x) \in Nat /\ Len(x) >= 1
    BY <1>5
  <2>2. 1 \in 1..Len(x)
    BY <2>1
  <2> QED
    BY <1>8, <1>10, <2>2
<1>12. CASE cells[i + 1] = -1
  <2>1. Len(x) = 1 /\ x[1].n = -1
    BY <1>2, <1>3, <1>12, FieldIs
  <2>2. Reader!FieldValue(c, k) = -1 /\ Reader!FieldSize(c, k) = 1
    BY <1>11, <2>1 DEF Reader!FieldValue, Reader!FieldSize, Reader!FieldWhole, Reader!Null
  <2>3. k + 1 = p + 1 + (o + Len(x))
    BY <1>4, <1>9, <2>1
  <2> QED
    BY <1>4, <1>10, <1>12, <2>2, <2>3 DEF ss
<1>13. CASE cells[i + 1] # -1
  <2>1. Len(x) = 2 /\ x[1].n = 1 /\ x[2].n = cells[i + 1]
    BY <1>2, <1>3, <1>13, FieldIs
  <2>2. Reader!Has(c, k + 1) /\ c[k + 1] = x[2]
    <3>1. 2 \in 1..Len(x)
      BY <2>1
    <3> QED
      BY <1>8, <1>10, <3>1
  <2>3. Reader!FieldValue(c, k) = cells[i + 1] /\ Reader!FieldSize(c, k) = 2
    BY <1>11, <2>1, <2>2 DEF Reader!FieldValue, Reader!FieldSize, Reader!FieldWhole
  <2>4. k + 2 = p + 1 + (o + Len(x))
    BY <1>4, <1>9, <2>1
  <2> QED
    BY <1>4, <1>10, <1>13, <2>3, <2>4 DEF ss
<1> QED
  BY <1>12, <1>13

LEMMA FieldsUpTo ==
  ASSUME NEW cells \in TableRow, NEW c \in Seq(Tokens), NEW p \in Nat, Follows(c, p, cells),
         NEW F, Running(c, p + 1, F)
  PROVE  \A i \in Nat :
           i <= Columns /\ (i < Columns \/ Len(c) - p = Len(RowFlat(cells))) =>
             F[i].at = p + 1 + Off(Parts(cells), i) /\ F[i].values = [j \in 1..i |-> cells[j]]
<1> DEFINE ss == Parts(cells)
           Good(i) == i <= Columns /\ (i < Columns \/ Len(c) - p = Len(RowFlat(cells)))
           T == {i \in Nat : Good(i) =>
                   F[i].at = p + 1 + Off(ss, i) /\ F[i].values = [j \in 1..i |-> cells[j]]}
<1>1. Columns \in Nat \ {0} /\ Len(c) \in Nat
  BY ColumnsAre
<1>2. 0 \in T
  <2>1. Off(ss, 0) = 0
    BY PartsAre, OffIs
  <2>2. F[0].at = p + 1 /\ F[0].values = <<>>
    BY DEF Running
  <2>3. [j \in 1..0 |-> cells[j]] = <<>>
    OBVIOUS
  <2> HIDE DEF ss
  <2> QED
    BY <2>1, <2>2, <2>3
<1>3. ASSUME NEW i \in Nat, i \in T PROVE i + 1 \in T
  <2> SUFFICES ASSUME Good(i + 1)
               PROVE  /\ F[i + 1].at = p + 1 + Off(ss, i + 1)
                      /\ F[i + 1].values = [j \in 1..i + 1 |-> cells[j]]
    OBVIOUS
  <2>1. Good(i) /\ i \in 0..Columns - 1 /\ (i + 1 < Columns \/ Len(c) - p = Len(RowFlat(cells)))
        /\ i + 1 \in 1..Columns /\ (i + 1) - 1 = i
    BY <1>1
  <2> DEFINE k == F[i].at
  <2>2. k = p + 1 + Off(ss, i) /\ F[i].values = [j \in 1..i |-> cells[j]]
    BY <1>3, <2>1
  <2>3. /\ Reader!FieldValue(c, k) = cells[i + 1]
        /\ k + Reader!FieldSize(c, k) = p + 1 + Off(ss, i + 1)
    BY <2>1, <2>2, OneField
  <2>4. F[i + 1] = FieldNext(c, F[i])
    BY <2>1 DEF Running
  <2>5. F[i + 1].at = p + 1 + Off(ss, i + 1) /\ F[i + 1].values = Append(F[i].values, cells[i + 1])
    BY <2>3, <2>4 DEF FieldNext
  <2>6. Append([j \in 1..i |-> cells[j]], cells[i + 1]) = [j \in 1..i + 1 |-> cells[j]]
    <3> DEFINE s == [j \in 1..i |-> cells[j]]
               t == [j \in 1..i + 1 |-> cells[j]]
    <3>1. \A j \in 1..Columns : cells[j] \in Cells
      BY DEF TableRow
    <3>0. \A j \in 1..i + 1 : j \in 1..Columns
      BY <1>1, <2>1
    <3>8. 1..i \subseteq 1..i + 1
      OBVIOUS
    <3>2. s \in [1..i -> Cells] /\ t \in [1..i + 1 -> Cells]
      BY <3>0, <3>1, <3>8
    <3>3. s \in Seq(Cells) /\ Len(s) = i /\ t \in Seq(Cells) /\ Len(t) = i + 1
      BY <3>2, SeqDef
    <3>4. cells[i + 1] \in Cells
      BY <2>1, <3>1
    <3>5. Append(s, cells[i + 1]) \in Seq(Cells) /\ Len(Append(s, cells[i + 1])) = i + 1
      BY <3>3, <3>4
    <3>6. \A j \in 1..i + 1 : Append(s, cells[i + 1])[j] = t[j]
      BY <3>3, <3>4, AppendProperties
    <3> HIDE DEF s, t
    <3>7. Append(s, cells[i + 1]) = t
      BY <3>3, <3>5, <3>6, SeqEqual
    <3> QED
      BY <3>7 DEF s, t
  <2> QED
    BY <2>2, <2>5, <2>6
<1> HIDE DEF T
<1>4. \A i \in Nat : i \in T
  BY <1>2, <1>3, A!NatSetInduction
<1> QED
  BY <1>4 DEF T

\* All the fields there, or the last token missing.
LEMMA FieldsRead ==
  ASSUME NEW cells \in TableRow, NEW c \in Seq(Tokens), NEW p \in Nat, Follows(c, p, cells)
  PROVE  /\ Len(c) - p = Len(RowFlat(cells)) => Reader!Fields(c, p + 1) = cells
         /\ Len(c) - p # Len(RowFlat(cells)) => Reader!Short \in Reader!ToSet(Reader!Fields(c, p + 1))
<1> DEFINE ss == Parts(cells)
           fl == RowFlat(cells)
<1>1. Columns \in Nat \ {0} /\ Len(c) \in Nat /\ p + 1 \in Nat \ {0}
  BY ColumnsAre
<1>2. PICK F : Running(c, p + 1, F) /\ Reader!Fields(c, p + 1) = F[Columns].values
  BY <1>1, FieldsAre
<1>5. \A i \in Nat :
        i <= Columns /\ (i < Columns \/ Len(c) - p = Len(RowFlat(cells))) =>
          F[i].at = p + 1 + Off(Parts(cells), i) /\ F[i].values = [j \in 1..i |-> cells[j]]
  <2> HIDE DEF ss, fl
  <2> QED
    BY <1>2, FieldsUpTo
<1>3. CASE Len(c) - p = Len(RowFlat(cells))
  <2>1. F[Columns].values = [j \in 1..Columns |-> cells[j]]
    BY <1>1, <1>3, <1>5
  <2>2. cells = [j \in 1..Columns |-> cells[j]]
    BY DEF TableRow
  <2> QED
    BY <1>2, <1>3, <2>1, <2>2
<1>4. CASE Len(c) - p # Len(RowFlat(cells))
  <2> DEFINE i == Columns - 1
             k == F[i].at
             x == ss[i + 1]
             o == Off(ss, i)
  <2>1. i \in Nat /\ i < Columns /\ i <= Columns /\ i + 1 = Columns /\ i + 1 \in 1..Columns
    BY <1>1
  <2> HIDE DEF i
  <2>2. k = p + 1 + o
    BY <1>5, <2>1
  <2>3. ss \in Seq(Seq(Tokens)) /\ Len(ss) = Columns /\ x = Reader!Field(cells[i + 1])
        /\ cells[i + 1] \in Cells
    BY <2>1, PartsAre DEF TableRow
  <2>4. Off(ss, i + 1) = Len(fl) /\ fl \in Seq(Tokens)
    BY <2>1, <2>3, OffIs, A!FlattenType DEF RowFlat
  <2>5. o \in Nat /\ Off(ss, i + 1) = o + Len(x) /\ \A j \in 1..Len(x) : fl[o + j] = x[j]
    <3>1. i + 1 <= Len(ss) /\ i \in Nat /\ ss \in Seq(Seq(Tokens))
      BY <1>1, <2>1, <2>3
    <3> HIDE DEF ss
    <3> QED
      BY <3>1, FlatAt DEF RowFlat, ss
  <2>6. (Len(x) = 1 \/ Len(x) = 2) /\ Len(fl) \in Nat /\ Len(fl) = o + Len(x)
    BY <2>3, <2>4, <2>5, FieldIs
  <2>7. Len(c) - p = Len(fl) - 1 /\ \A j \in 1..Len(c) - p : c[p + j] = fl[j]
    BY <1>4 DEF Follows
  <2> HIDE DEF x, o, k, fl
  <2>8. ~Reader!FieldWhole(c, k)
    <3>1. CASE cells[i + 1] = -1
      <4>1. Len(x) = 1
        BY <2>3, <3>1, FieldIs
      <4>2. k > Len(c)
        BY <1>1, <2>2, <2>5, <2>6, <2>7, <4>1
      <4> QED
        BY <1>1, <2>2, <2>5, <4>2 DEF Reader!FieldWhole, Reader!Has
    <3>2. CASE cells[i + 1] # -1
      <4>1. Len(x) = 2 /\ x[1].n = 1
        BY <2>3, <3>2, FieldIs
      <4>2. k = Len(c) /\ o + 1 \in 1..Len(c) - p /\ p + (o + 1) = k /\ 1 \in 1..Len(x)
        BY <1>1, <2>2, <2>5, <2>6, <2>7, <4>1
      <4>3. c[k] = x[1]
        <5>1. c[p + (o + 1)] = fl[o + 1] /\ fl[o + 1] = x[1]
          BY <2>5, <2>7, <4>2
        <5> QED
          BY <4>2, <5>1
      <4>4. ~Reader!Has(c, k + 1)
        BY <1>1, <4>2 DEF Reader!Has
      <4> QED
        BY <4>1, <4>3, <4>4 DEF Reader!FieldWhole
    <3> QED
      BY <3>1, <3>2
  <2>9. F[Columns] = FieldNext(c, F[i]) /\ F[i] \in Place
    BY <1>1, <1>2, <2>1 DEF Running
  <2> DEFINE s == F[i].values
  <2>10. F[Columns].values = Append(s, Reader!Short) /\ s \in Seq(Int)
    BY <2>8, <2>9 DEF FieldNext, Reader!FieldValue, k, Place
  <2> HIDE DEF s
  <2> DEFINE t == Append(s, Reader!Short)
  <2>11. t \in Seq(Int) /\ Len(t) \in Nat /\ Len(t) \in 1..Len(t) /\ t[Len(t)] = Reader!Short
    BY <2>10 DEF Reader!Short
  <2>12. Reader!Short \in Reader!ToSet(t)
    <3> HIDE DEF t
    <3>1. DOMAIN t = 1..Len(t)
      BY <2>11
    <3> QED
      BY <2>11, <3>1 DEF Reader!ToSet
  <2> QED
    BY <1>2, <1>4, <2>10, <2>12
<1> QED
  BY <1>3, <1>4

\* What a row chunk read at position k gives.
Item(cells) == [t |-> "item", values |-> cells]
Failure == [t |-> "error", values |-> <<>>]
End == [t |-> "end", values |-> <<>>]
HeaderIs(oids) == IF oids THEN "oids" ELSE "plain"
CountIs(oids) == IF oids THEN Columns - 1 ELSE Columns

LEMMA RowItem ==
  ASSUME NEW cells \in TableRow, NEW c \in Seq(Tokens), NEW k \in Nat \ {0}, NEW oids \in BOOLEAN,
         Follows(c, k, cells), c[k].n = CountIs(oids)
  PROVE  Reader!RowAt(c, k, HeaderIs(oids)) =
           IF Len(c) - k = Len(RowFlat(cells)) THEN Item(cells) ELSE Failure
<1>1. Columns \in Nat \ {0} /\ Len(c) \in Nat
  BY ColumnsAre
<1>2. Reader!Has(c, k)
  BY DEF Follows, Reader!Has
<1>3. c[k].n # -1 /\ c[k].n + (IF HeaderIs(oids) = "oids" THEN 1 ELSE 0) = Columns
  <2>1. CASE oids = TRUE
    BY <1>1, <2>1 DEF HeaderIs, CountIs
  <2>2. CASE oids = FALSE
    BY <1>1, <2>2 DEF HeaderIs, CountIs
  <2> QED
    BY <2>1, <2>2
<1>4. Reader!RowAt(c, k, HeaderIs(oids)) =
        IF Reader!Short \in Reader!ToSet(Reader!Fields(c, k + 1)) THEN Failure
        ELSE Item(Reader!Fields(c, k + 1))
  BY <1>2, <1>3 DEF Reader!RowAt, Failure, Item
<1>5. CASE Len(c) - k = Len(RowFlat(cells))
  <2>1. Reader!Fields(c, k + 1) = cells
    BY <1>5, FieldsRead
  <2>2. Reader!Short \notin Reader!ToSet(cells)
    <3>1. DOMAIN cells = 1..Columns /\ \A j \in 1..Columns : cells[j] # Reader!Short
      BY DEF TableRow, Cells
    <3> QED
      BY <3>1 DEF Reader!ToSet
  <2> QED
    BY <1>4, <1>5, <2>1, <2>2
<1>6. CASE Len(c) - k # Len(RowFlat(cells))
  <2>1. Reader!Short \in Reader!ToSet(Reader!Fields(c, k + 1))
    BY <1>6, FieldsRead
  <2> QED
    BY <1>4, <1>6, <2>1
<1> QED
  BY <1>5, <1>6

LEMMA Miscounted ==
  ASSUME NEW c \in Seq(Tokens), NEW k \in Nat \ {0}, NEW oids \in BOOLEAN,
         Reader!Has(c, k), c[k].n = CountIs(oids) + 1
  PROVE  Reader!RowAt(c, k, HeaderIs(oids)) = Failure
<1>1. Columns \in Nat \ {0}
  BY ColumnsAre
<1>2. c[k].n # -1 /\ c[k].n + (IF HeaderIs(oids) = "oids" THEN 1 ELSE 0) # Columns
  <2>1. CASE oids = TRUE
    BY <1>1, <2>1 DEF HeaderIs, CountIs
  <2>2. CASE oids = FALSE
    BY <1>1, <2>2 DEF HeaderIs, CountIs
  <2> QED
    BY <2>1, <2>2
<1> QED
  BY <1>2 DEF Reader!RowAt, Failure

LEMMA TrailerRead ==
  ASSUME NEW c, NEW k, NEW h, Reader!Has(c, k), c[k].n = -1
  PROVE  Reader!RowAt(c, k, h) = End
BY DEF Reader!RowAt, End

LEMMA NothingRead ==
  ASSUME NEW c, NEW k, NEW h, ~Reader!Has(c, k)
  PROVE  Reader!RowAt(c, k, h) = Failure
BY DEF Reader!RowAt, Failure

\* A trailer that says zero fields: too few, or none where one is due.
LEMMA NoFields ==
  ASSUME NEW c \in Seq(Tokens), NEW k \in Nat \ {0}, NEW h, k = Len(c), c[k].n = 0
  PROVE  Reader!RowAt(c, k, h) = Failure
<1>1. Columns \in Nat \ {0} /\ k + 1 \in Nat \ {0} /\ Reader!Has(c, k)
  BY ColumnsAre DEF Reader!Has
<1>2. CASE c[k].n + (IF h = "oids" THEN 1 ELSE 0) # Columns
  BY <1>1, <1>2 DEF Reader!RowAt, Failure
<1>3. CASE c[k].n + (IF h = "oids" THEN 1 ELSE 0) = Columns
  <2>1. Columns = 1
    BY <1>1, <1>3
  <2>2. PICK F : Running(c, k + 1, F) /\ Reader!Fields(c, k + 1) = F[Columns].values
    BY <1>1, FieldsAre
  <2>3. F[1] = FieldNext(c, F[0]) /\ F[0] = [at |-> k + 1, values |-> <<>>]
    <3>1. 1 \in 1..Columns /\ 1 - 1 = 0
      BY <2>1
    <3> QED
      BY <2>2, <3>1 DEF Running
  <2>4. ~Reader!Has(c, k + 1)
    BY DEF Reader!Has
  <2>5. F[1].values = Append(<<>>, Reader!Short)
    BY <2>3, <2>4 DEF FieldNext, Reader!FieldValue, Reader!FieldWhole
  <2>6. Append(<<>>, Reader!Short) = <<Reader!Short>>
    OBVIOUS
  <2>7. Reader!Short \in Reader!ToSet(<<Reader!Short>>)
    BY DEF Reader!ToSet
  <2>8. Reader!Short \in Reader!ToSet(Reader!Fields(c, k + 1))
    BY <2>1, <2>2, <2>5, <2>6, <2>7
  <2> QED
    BY <1>1, <1>3, <2>8 DEF Reader!RowAt, Failure
<1> QED
  BY <1>2, <1>3

-----------------------------------------------------------------------------
(* A chunk.                                                                *)

\* What comes before the row of the r-th chunk, and the row, or the trailer.
Before(r, oids, extension) == IF r = 1 THEN Reader!HeaderTokens(oids, extension) ELSE <<>>
RowOf(rows, r, oids) ==
  IF r <= Len(rows) THEN Reader!RowChunk(rows[r], oids) ELSE Reader!Trailer

\* Two sequences of tokens, one after the other.
LEMMA TokensConcat ==
  ASSUME NEW s \in Seq(Tokens), NEW t \in Seq(Tokens)
  PROVE  /\ s \o t \in Seq(Tokens)
         /\ Len(s) \in Nat /\ Len(t) \in Nat /\ Len(s \o t) = Len(s) + Len(t)
         /\ \A i \in 1..Len(s) : (s \o t)[i] = s[i]
         /\ \A i \in 1..Len(t) : (s \o t)[Len(s) + i] = t[i]
<1>1. /\ s \o t \in Seq(Tokens) /\ Len(s) \in Nat /\ Len(t) \in Nat
      /\ Len(s \o t) = Len(s) + Len(t)
      /\ \A i \in 1..Len(s) + Len(t) : (s \o t)[i] = IF i <= Len(s) THEN s[i] ELSE t[i - Len(s)]
  BY ConcatProperties
<1>2. ASSUME NEW i \in 1..Len(s) PROVE (s \o t)[i] = s[i]
  BY <1>1
<1>3. ASSUME NEW i \in 1..Len(t) PROVE (s \o t)[Len(s) + i] = t[i]
  <2>1. Len(s) + i \in 1..Len(s) + Len(t) /\ ~(Len(s) + i <= Len(s)) /\ (Len(s) + i) - Len(s) = i
    BY <1>1
  <2> QED
    BY <1>1, <2>1
<1> QED
  BY <1>1, <1>2, <1>3

LEMMA HeaderTokensAre ==
  ASSUME NEW oids \in BOOLEAN, NEW extension \in Nat
  PROVE  LET h == Reader!HeaderTokens(oids, extension)
         IN /\ h \in Seq(Tokens) /\ Len(h) = 3 + extension
            /\ h[1].t = "magic" /\ h[2].n = (IF oids THEN 1 ELSE 0) /\ h[3].n = extension
            /\ \A j \in 1..Len(h) : h[j].t # "count" /\ (j > 1 => h[j].t # "magic")
<1> DEFINE a == Reader!Token("magic", 0)
           b == Reader!Token("flags", IF oids THEN 1 ELSE 0)
           d == Reader!Token("extension", extension)
           p == <<a, b, d>>
           q == [k \in 1..extension |-> Reader!Token("value", 0)]
           h == p \o q
<1>1. a \in Tokens /\ b \in Tokens /\ d \in Tokens /\ Reader!Token("value", 0) \in Tokens
  BY DEF Reader!Token, Tokens, Names
<1>2. a.t = "magic" /\ b.t = "flags" /\ b.n = (IF oids THEN 1 ELSE 0)
      /\ d.t = "extension" /\ d.n = extension
  BY DEF Reader!Token
<1>3. q \in Seq(Tokens) /\ Len(q) = extension /\ \A j \in 1..extension : q[j].t = "value"
  <2>1. q \in [1..extension -> Tokens]
    BY <1>1
  <2>2. \A j \in 1..extension : q[j].t = "value"
    BY DEF Reader!Token
  <2> HIDE DEF q
  <2> QED
    BY <2>1, <2>2, SeqDef
<1> HIDE DEF a, b, d, q
<1>4. p \in Seq(Tokens) /\ Len(p) = 3 /\ p[1] = a /\ p[2] = b /\ p[3] = d
  BY <1>1
<1> HIDE DEF p
<1>5. h \in Seq(Tokens) /\ Len(h) = 3 + extension
  <2>1. p \in Seq(Tokens) /\ q \in Seq(Tokens)
    BY <1>3, <1>4
  <2>2. p \o q \in Seq(Tokens) /\ Len(p \o q) = Len(p) + Len(q)
    BY <2>1, TokensConcat
  <2> QED
    BY <1>3, <1>4, <2>2
<1>6. \A j \in 1..3 : h[j] = p[j]
  <2>1. p \in Seq(Tokens) /\ q \in Seq(Tokens)
    BY <1>3, <1>4
  <2>2. \A j \in 1..Len(p) : (p \o q)[j] = p[j]
    BY <2>1, TokensConcat
  <2> QED
    BY <1>4, <2>2
<1>7. ASSUME NEW j \in 4..3 + extension PROVE h[j].t = "value"
  <2>1. p \in Seq(Tokens) /\ q \in Seq(Tokens)
    BY <1>3, <1>4
  <2>2. \A i \in 1..Len(q) : (p \o q)[Len(p) + i] = q[i]
    BY <2>1, TokensConcat
  <2>3. j - 3 \in 1..extension /\ 3 + (j - 3) = j
    OBVIOUS
  <2>4. h[3 + (j - 3)] = q[j - 3]
    BY <1>3, <1>4, <2>2, <2>3
  <2> HIDE DEF h
  <2> QED
    BY <1>3, <2>3, <2>4
<1>8. h = Reader!HeaderTokens(oids, extension)
  BY DEF Reader!HeaderTokens, h, p, q, a, b, d
<1> HIDE DEF h
<1>9. h[1] = a /\ h[2] = b /\ h[3] = d
  BY <1>4, <1>6
<1>10. \A j \in 1..Len(h) : h[j].t # "count" /\ (j > 1 => h[j].t # "magic")
  <2> TAKE j \in 1..Len(h)
  <2>1. j = 1 \/ j = 2 \/ j = 3 \/ j \in 4..3 + extension
    BY <1>5
  <2>2. j \in 4..3 + extension => h[j].t = "value"
    BY <1>7
  <2> QED
    BY <1>2, <1>9, <2>1, <2>2
<1> QED
  BY <1>2, <1>5, <1>8, <1>9, <1>10

LEMMA RowChunkIs ==
  ASSUME NEW cells \in TableRow, NEW oids \in BOOLEAN
  PROVE  LET x == Reader!RowChunk(cells, oids)
         IN /\ x \in Seq(Tokens) /\ Len(x) = 1 + Len(RowFlat(cells)) /\ Len(RowFlat(cells)) \in Nat \ {0}
            /\ x[1] = [t |-> "count", n |-> CountIs(oids)]
            /\ \A j \in 1..Len(RowFlat(cells)) : x[1 + j] = RowFlat(cells)[j]
            /\ \A j \in 1..Len(RowFlat(cells)) : RowFlat(cells)[j].t \in {"len", "value"}
<1> DEFINE fl == RowFlat(cells)
           a == [t |-> "count", n |-> CountIs(oids)]
           x == <<a>> \o fl
<1>1. Columns \in Nat \ {0} /\ CountIs(oids) \in Int
  BY ColumnsAre DEF CountIs
<1>2. a \in Tokens
  BY <1>1 DEF Tokens, Names
<1>3. fl \in Seq(Tokens) /\ \A j \in 1..Len(fl) : fl[j].t \in {"len", "value"}
  <2> DEFINE Few == {y \in Tokens : y.t \in {"len", "value"}}
  <2>1. \A c \in 1..Columns : Reader!Field(cells[c]) \in Seq(Few)
    <3> TAKE c \in 1..Columns
    <3> DEFINE s == Reader!Field(cells[c])
    <3>1. cells[c] \in Cells
      BY DEF TableRow
    <3>2. s \in Seq(Tokens) /\ \A j \in 1..Len(s) : s[j].t \in {"len", "value"}
      BY <3>1, FieldIs
    <3> HIDE DEF s
    <3>3. \A j \in 1..Len(s) : s[j] \in Few
      BY <3>2
    <3> HIDE DEF Few
    <3>4. s \in Seq(Few)
      BY <3>2, <3>3, SeqDef
    <3> QED
      BY <3>4 DEF s
  <2> HIDE DEF Few
  <2>2. Parts(cells) \in [1..Columns -> Seq(Few)]
    BY <2>1 DEF Parts
  <2>3. Parts(cells) \in Seq(Seq(Few))
    BY <1>1, <2>2, SeqDef
  <2>4. fl \in Seq(Few)
    BY <2>3, A!FlattenType DEF RowFlat
  <2> HIDE DEF fl
  <2>5. \A j \in 1..Len(fl) : fl[j] \in Tokens /\ fl[j].t \in {"len", "value"}
    BY <2>4 DEF Few
  <2>6. fl \in Seq(Tokens)
    BY <2>4, <2>5, SeqDef
  <2> QED
    BY <2>5, <2>6
<1>4. Reader!RowChunk(cells, oids) = x
  <2>1. Reader!FlattenSeq(Parts(cells)) = fl
    BY SameReaderFlatten DEF RowFlat
  <2> HIDE DEF fl
  <2>2. Reader!RowChunk(cells, oids) = <<a>> \o Reader!FlattenSeq(Parts(cells))
    BY DEF Reader!RowChunk, Reader!Token, Parts, CountIs
  <2> QED
    BY <2>1, <2>2
<1>5. Len(fl) \in Nat \ {0}
  <2>1. Len(fl) \in Nat
    BY <1>3
  <2>2. /\ Parts(cells) \in Seq(Seq(Tokens)) /\ Len(Parts(cells)) = Columns
        /\ Parts(cells)[1] = Reader!Field(cells[1]) /\ cells[1] \in Cells
    BY <1>1, PartsAre DEF TableRow
  <2>3. 0 \in Nat /\ 0 + 1 <= Len(Parts(cells))
    BY <1>1, <2>2
  <2>4. /\ Off(Parts(cells), 0) \in Nat
        /\ Off(Parts(cells), 0 + 1) = Off(Parts(cells), 0) + Len(Parts(cells)[0 + 1])
        /\ Off(Parts(cells), 0 + 1) <= Len(fl)
    BY <2>2, <2>3, FlatAt DEF RowFlat
  <2>5. Len(Parts(cells)[1]) \in Nat /\ Len(Parts(cells)[1]) >= 1
    BY <2>2, FieldLength
  <2> HIDE DEF fl
  <2> DEFINE o == Off(Parts(cells), 0)
             l == Len(Parts(cells)[1])
             lf == Len(fl)
  <2>6. o \in Nat /\ l \in Nat /\ l >= 1 /\ o + l <= lf /\ lf \in Nat
    BY <2>1, <2>4, <2>5
  <2> HIDE DEF o, l, lf
  <2>7. lf # 0
    BY <2>6
  <2> QED
    BY <2>1, <2>7 DEF lf
<1> HIDE DEF fl, a
<1>6. <<a>> \in Seq(Tokens) /\ Len(<<a>>) = 1 /\ <<a>>[1] = a
  BY <1>2
<1> DEFINE p == <<a>>
<1> HIDE DEF p
<1>7. p \in Seq(Tokens) /\ Len(p) = 1 /\ p[1] = a /\ x = p \o fl
  BY <1>6 DEF p
<1>8. x \in Seq(Tokens) /\ Len(x) = 1 + Len(fl)
  BY <1>3, <1>7, TokensConcat
<1>9. x[1] = a
  <2>1. 1 \in 1..Len(p)
    BY <1>7
  <2> QED
    BY <1>3, <1>7, <2>1, TokensConcat
<1>10. \A j \in 1..Len(fl) : x[1 + j] = fl[j]
  BY <1>3, <1>7, TokensConcat
<1> HIDE DEF x
<1> QED
  BY <1>3, <1>4, <1>5, <1>8, <1>9, <1>10 DEF fl, a

\* Chunk r of a copy of rows, with its count at position k.
WholeChunk(c, r, rows, k, oids) ==
  /\ c \in Seq(Tokens) /\ k \in Nat \ {0} /\ k <= Len(c)
  /\ r <= Len(rows) =>
       /\ Follows(c, k, rows[r]) /\ Len(c) - k = Len(RowFlat(rows[r]))
       /\ Len(RowFlat(rows[r])) \in Nat \ {0} /\ c[k].n = CountIs(oids)
  /\ r > Len(rows) => k = Len(c) /\ c[k].n = -1
  /\ \A j \in 1..Len(c) : c[j].t = "count" <=> j = k
  /\ \A j \in 1..Len(c) : c[j].t = "magic" <=> j = 1 /\ r = 1
  /\ IF r = 1 THEN k > 3 /\ c[2].n = (IF oids THEN 1 ELSE 0) /\ c[3].n = k - 4 ELSE k = 1

\* What a chunk starts with, and what is in it after that.
HeadedBy(c, r, h) ==
  IF r = 1 THEN Reader!HeaderEnd(c) # 0 /\ Reader!HeaderOf(c) = h ELSE Reader!HeaderEnd(c) = 0
RowIn(c, h) == Reader!RowAt(c, Reader!HeaderEnd(c) + 1, h)

LEMMA HeaderRead ==
  ASSUME NEW c \in Seq(Tokens), NEW k \in Nat, NEW r, NEW oids \in BOOLEAN,
         r = 1 => /\ k > 3 /\ k - 1 <= Len(c) /\ c[1].t = "magic"
                  /\ c[2].n = (IF oids THEN 1 ELSE 0) /\ c[3].n = k - 4,
         r # 1 => k = 1 /\ (c = <<>> \/ c[1].t # "magic")
  PROVE  HeadedBy(c, r, HeaderIs(oids)) /\ Reader!HeaderEnd(c) + 1 = k
<1>1. Len(c) \in Nat
  OBVIOUS
<1>2. CASE r = 1
  <2>1. ~(Len(c) < 3 \/ c[1].t # "magic") /\ 3 + c[3].n = k - 1 /\ k - 1 # 0 /\ (k - 1) + 1 = k
    BY <1>1, <1>2
  <2>2. Reader!HeaderEnd(c) = k - 1
    BY <1>2, <2>1 DEF Reader!HeaderEnd, Reader!Has
  <2>3. Reader!HeaderOf(c) = HeaderIs(oids)
    BY <1>2 DEF Reader!HeaderOf, HeaderIs
  <2> QED
    BY <1>2, <2>1, <2>2, <2>3 DEF HeadedBy
<1>3. CASE r # 1
  <2>1. Len(c) < 3 \/ c[1].t # "magic"
    <3>1. CASE c = <<>>
      <4>1. Len(<<>>) = 0
        OBVIOUS
      <4> QED
        BY <3>1, <4>1
    <3> QED
      BY <1>3, <3>1
  <2>2. Reader!HeaderEnd(c) = 0
    BY <2>1 DEF Reader!HeaderEnd
  <2> QED
    BY <1>3, <2>2 DEF HeadedBy
<1> QED
  BY <1>2, <1>3

\* The outcome of a chunk of what was sent, and of one that is damaged.
WholeGives(rows, r) == IF r <= Len(rows) THEN Item(rows[r]) ELSE End

LEMMA WholeRead ==
  ASSUME NEW rows \in Seq(TableRow), NEW r \in 1..Len(rows) + 1, NEW oids \in BOOLEAN,
         NEW c, NEW k, WholeChunk(c, r, rows, k, oids)
  PROVE  HeadedBy(c, r, HeaderIs(oids)) /\ RowIn(c, HeaderIs(oids)) = WholeGives(rows, r)
<1>1. /\ c \in Seq(Tokens) /\ k \in Nat \ {0} /\ k <= Len(c) /\ Len(c) \in Nat /\ Len(rows) \in Nat
      /\ r \in Nat
  BY DEF WholeChunk
<1>2. r = 1 => /\ k > 3 /\ k - 1 <= Len(c) /\ c[1].t = "magic"
               /\ c[2].n = (IF oids THEN 1 ELSE 0) /\ c[3].n = k - 4
  <2> SUFFICES ASSUME r = 1
               PROVE  /\ k > 3 /\ k - 1 <= Len(c) /\ c[1].t = "magic"
                      /\ c[2].n = (IF oids THEN 1 ELSE 0) /\ c[3].n = k - 4
    OBVIOUS
  <2>1. k > 3 /\ c[2].n = (IF oids THEN 1 ELSE 0) /\ c[3].n = k - 4
    BY DEF WholeChunk
  <2>2. 1 \in 1..Len(c) /\ k - 1 <= Len(c)
    BY <1>1, <2>1
  <2>3. c[1].t = "magic"
    BY <2>2 DEF WholeChunk
  <2> QED
    BY <2>1, <2>2, <2>3
<1>3. r # 1 => k = 1 /\ (c = <<>> \/ c[1].t # "magic")
  <2> SUFFICES ASSUME r # 1 PROVE k = 1 /\ c[1].t # "magic"
    OBVIOUS
  <2>1. k = 1 /\ 1 \in 1..Len(c)
    BY <1>1 DEF WholeChunk
  <2> QED
    BY <2>1 DEF WholeChunk
<1>4. HeadedBy(c, r, HeaderIs(oids)) /\ Reader!HeaderEnd(c) + 1 = k
  BY <1>1, <1>2, <1>3, HeaderRead
<1>5. CASE r <= Len(rows)
  <2>1. rows[r] \in TableRow
    BY <1>1, <1>5
  <2>2. Follows(c, k, rows[r]) /\ Len(c) - k = Len(RowFlat(rows[r])) /\ c[k].n = CountIs(oids)
    BY <1>5 DEF WholeChunk
  <2>3. Reader!RowAt(c, k, HeaderIs(oids)) = Item(rows[r])
    BY <1>1, <2>1, <2>2, RowItem
  <2> QED
    BY <1>4, <1>5, <2>3 DEF RowIn, WholeGives
<1>6. CASE ~(r <= Len(rows))
  <2>1. k = Len(c) /\ c[k].n = -1
    BY <1>1, <1>6 DEF WholeChunk
  <2>2. Reader!RowAt(c, k, HeaderIs(oids)) = End
    BY <1>1, <2>1, TrailerRead DEF Reader!Has
  <2> QED
    BY <1>4, <1>6, <2>2 DEF RowIn, WholeGives
<1> QED
  BY <1>5, <1>6

\* A chunk cut short.
LEMMA CutRead ==
  ASSUME NEW rows \in Seq(TableRow), NEW r \in 1..Len(rows) + 1, NEW oids \in BOOLEAN,
         NEW c, NEW k, WholeChunk(c, r, rows, k, oids),
         NEW bad, bad = SubSeq(c, 1, Len(c) - 1)
  PROVE  /\ bad \in Seq(Tokens)
         /\ HeadedBy(bad, r, HeaderIs(oids)) /\ RowIn(bad, HeaderIs(oids)) = Failure
<1>1. /\ c \in Seq(Tokens) /\ k \in Nat \ {0} /\ k <= Len(c) /\ Len(c) \in Nat /\ Len(rows) \in Nat
      /\ r \in Nat /\ Len(c) - 1 \in Nat
  BY DEF WholeChunk
<1>2. bad \in Seq(Tokens) /\ Len(bad) = Len(c) - 1 /\ \A j \in 1..Len(c) - 1 : bad[j] = c[j]
  <2> DEFINE m == Len(c) - 1
  <2>1. m \in Nat /\ Len(c) = m + 1 /\ m \in Int /\ 1 \in Int /\ DOMAIN c = 1..Len(c)
    BY <1>1
  <2> HIDE DEF m
  <2>2. \A i \in 1..m : c[i] \in Tokens
    BY <1>1, <2>1
  <2>3. /\ SubSeq(c, 1, m) \in Seq(Tokens)
        /\ Len(SubSeq(c, 1, m)) = IF 1 <= m THEN m - 1 + 1 ELSE 0
        /\ \A i \in 1..m - 1 + 1 : SubSeq(c, 1, m)[i] = c[1 + i - 1]
    BY <2>1, <2>2, SubSeqProperties
  <2>4. Len(SubSeq(c, 1, m)) = m /\ \A i \in 1..m : SubSeq(c, 1, m)[i] = c[i]
    BY <2>1, <2>3
  <2>5. bad = SubSeq(c, 1, m)
    BY DEF m
  <2>6. bad \in Seq(Tokens) /\ Len(bad) = m /\ \A j \in 1..m : bad[j] = c[j]
    BY <2>3, <2>4, <2>5
  <2> QED
    BY <2>6 DEF m
<1> DEFINE lc == Len(c)
           lb == Len(bad)
<1>3. lc \in Nat /\ lb \in Nat /\ lb = lc - 1 /\ k <= lc
  BY <1>1, <1>2
<1>4. r = 1 => /\ k > 3 /\ k - 1 <= lb /\ bad[1].t = "magic"
               /\ bad[2].n = (IF oids THEN 1 ELSE 0) /\ bad[3].n = k - 4
  <2> SUFFICES ASSUME r = 1
               PROVE  /\ k > 3 /\ k - 1 <= lb /\ bad[1].t = "magic"
                      /\ bad[2].n = (IF oids THEN 1 ELSE 0) /\ bad[3].n = k - 4
    OBVIOUS
  <2>1. k > 3 /\ c[2].n = (IF oids THEN 1 ELSE 0) /\ c[3].n = k - 4
    BY DEF WholeChunk
  <2>2. 1 \in 1..Len(c) /\ k - 1 <= lb /\ 1 \in 1..lc - 1 /\ 2 \in 1..lc - 1 /\ 3 \in 1..lc - 1
    <3>1. k \in Nat /\ k > 3
      BY <1>1, <2>1
    <3> HIDE DEF lc, lb
    <3>2. 1 \in 1..lc /\ k - 1 <= lb /\ 1 \in 1..lc - 1 /\ 2 \in 1..lc - 1 /\ 3 \in 1..lc - 1
      BY <1>3, <3>1
    <3> QED
      BY <3>2 DEF lc
  <2>3. c[1].t = "magic"
    BY <2>2 DEF WholeChunk
  <2>4. bad[1] = c[1] /\ bad[2] = c[2] /\ bad[3] = c[3]
    BY <1>2, <2>2
  <2> HIDE DEF lb, lc
  <2> QED
    BY <2>1, <2>2, <2>3, <2>4
<1>5. r # 1 => k = 1 /\ (bad = <<>> \/ bad[1].t # "magic")
  <2> SUFFICES ASSUME r # 1 PROVE k = 1 /\ (bad = <<>> \/ bad[1].t # "magic")
    OBVIOUS
  <2>1. k = 1 /\ 1 \in 1..Len(c)
    BY <1>1 DEF WholeChunk
  <2>2. c[1].t # "magic"
    BY <2>1 DEF WholeChunk
  <2>3. lb = 0 \/ 1 \in 1..lc - 1
    BY <1>3
  <2>4. CASE lb = 0
    <3>1. bad \in Seq(Tokens) /\ Len(bad) = 0
      BY <1>2, <2>4
    <3>2. bad = <<>>
      BY <3>1, EmptySeq
    <3> QED
      BY <2>1, <3>2
  <2>5. CASE 1 \in 1..lc - 1
    BY <1>2, <2>1, <2>2, <2>5
  <2> QED
    BY <2>3, <2>4, <2>5
<1>6. HeadedBy(bad, r, HeaderIs(oids)) /\ Reader!HeaderEnd(bad) + 1 = k
  <2>1. bad \in Seq(Tokens) /\ k \in Nat
    BY <1>1, <1>2
  <2>2. r = 1 => /\ k > 3 /\ k - 1 <= Len(bad) /\ bad[1].t = "magic"
                 /\ bad[2].n = (IF oids THEN 1 ELSE 0) /\ bad[3].n = k - 4
    BY <1>4
  <2> QED
    BY <1>5, <2>1, <2>2, HeaderRead
<1>7. CASE r <= Len(rows)
  <2>1. rows[r] \in TableRow
    BY <1>1, <1>7
  <2>2. /\ Follows(c, k, rows[r]) /\ Len(c) - k = Len(RowFlat(rows[r])) /\ c[k].n = CountIs(oids)
        /\ Len(RowFlat(rows[r])) \in Nat \ {0}
    BY <1>7 DEF WholeChunk
  <2> DEFINE lf == Len(RowFlat(rows[r]))
  <2>3. lf \in Nat /\ lf # 0 /\ lc - k = lf
    BY <2>2
  <2> HIDE DEF lf, lb, lc
  <2>4. k <= lb /\ lb - k = lf - 1 /\ lb - k # lf /\ k \in 1..lc - 1
    BY <1>1, <1>3, <2>3
  <2>5. bad[k] = c[k]
    BY <1>2, <2>4 DEF lc
  <2>6. ASSUME NEW j \in 1..lb - k PROVE bad[k + j] = RowFlat(rows[r])[j]
    <3>1. k + j \in 1..lc - 1 /\ j \in 1..lc - k
      BY <1>1, <1>3
    <3>2. bad[k + j] = c[k + j]
      BY <1>2, <3>1 DEF lc
    <3>3. c[k + j] = RowFlat(rows[r])[j]
      BY <2>2, <3>1 DEF lc, Follows
    <3> QED
      BY <3>2, <3>3
  <2>7. Follows(bad, k, rows[r])
    <3>1. Len(bad) - k \in {Len(RowFlat(rows[r])), Len(RowFlat(rows[r])) - 1} /\ k <= Len(bad)
      BY <2>4 DEF lb, lf
    <3>2. \A j \in 1..Len(bad) - k : bad[k + j] = RowFlat(rows[r])[j]
      BY <2>6 DEF lb
    <3> QED
      BY <3>1, <3>2 DEF Follows
  <2>8. Len(bad) - k # Len(RowFlat(rows[r])) /\ bad[k].n = CountIs(oids)
    BY <2>2, <2>4, <2>5 DEF lb, lf
  <2>9. Reader!RowAt(bad, k, HeaderIs(oids)) = Failure
    BY <1>1, <1>2, <2>1, <2>7, <2>8, RowItem
  <2> QED
    BY <1>2, <1>6, <2>9 DEF RowIn
<1>8. CASE ~(r <= Len(rows))
  <2>1. k = Len(c)
    BY <1>1, <1>8 DEF WholeChunk
  <2>2. ~Reader!Has(bad, k)
    BY <1>1, <1>2, <2>1 DEF Reader!Has
  <2> QED
    BY <1>2, <1>6, <2>2, NothingRead DEF RowIn
<1> QED
  BY <1>7, <1>8

\* One of another format: only the first has one.
LEMMA MagicRead ==
  ASSUME NEW rows \in Seq(TableRow), NEW r \in 1..Len(rows) + 1, NEW oids \in BOOLEAN,
         NEW c, NEW k, WholeChunk(c, r, rows, k, oids),
         NEW bad,
         bad = [j \in DOMAIN c |-> IF c[j].t = "magic" THEN Reader!Token("value", 0) ELSE c[j]],
         bad # c
  PROVE  bad \in Seq(Tokens) /\ r = 1 /\ Reader!HeaderEnd(bad) = 0
<1>1. c \in Seq(Tokens) /\ Len(c) \in Nat /\ DOMAIN c = 1..Len(c) /\ k \in Nat \ {0} /\ k <= Len(c)
  BY DEF WholeChunk
<1>2. Reader!Token("value", 0) \in Tokens /\ Reader!Token("value", 0).t # "magic"
  BY DEF Reader!Token, Tokens, Names
<1>3. bad \in Seq(Tokens)
  <2>1. \A j \in 1..Len(c) : bad[j] \in Tokens
    BY <1>1, <1>2
  <2>2. bad \in [1..Len(c) -> Tokens]
    BY <1>1, <2>1
  <2> QED
    BY <1>1, <2>2, SeqDef
<1>4. r = 1
  <2> SUFFICES ASSUME r # 1 PROVE FALSE
    OBVIOUS
  <2>1. \A j \in 1..Len(c) : c[j].t # "magic"
    BY DEF WholeChunk
  <2>2. bad = [j \in 1..Len(c) |-> c[j]]
    BY <1>1, <2>1
  <2>3. c = [j \in 1..Len(c) |-> c[j]]
    BY <1>1
  <2> QED
    BY <2>2, <2>3
<1>5. bad[1].t # "magic"
  <2>1. 1 \in 1..Len(c)
    BY <1>1
  <2>2. bad[1] = IF c[1].t = "magic" THEN Reader!Token("value", 0) ELSE c[1]
    BY <1>1, <2>1
  <2> QED
    BY <1>2, <2>2
<1> QED
  BY <1>3, <1>4, <1>5 DEF Reader!HeaderEnd

\* One of a field too many.
LEMMA CountRead ==
  ASSUME NEW rows \in Seq(TableRow), NEW r \in 1..Len(rows) + 1, NEW oids \in BOOLEAN,
         NEW c, NEW k, WholeChunk(c, r, rows, k, oids),
         NEW bad,
         bad = [j \in DOMAIN c |->
                  IF c[j].t = "count" THEN Reader!Token("count", c[j].n + 1) ELSE c[j]]
  PROVE  /\ bad \in Seq(Tokens)
         /\ HeadedBy(bad, r, HeaderIs(oids)) /\ RowIn(bad, HeaderIs(oids)) = Failure
<1>1. /\ c \in Seq(Tokens) /\ k \in Nat \ {0} /\ k <= Len(c) /\ Len(c) \in Nat /\ Len(rows) \in Nat
      /\ r \in Nat /\ DOMAIN c = 1..Len(c)
  BY DEF WholeChunk
<1>2. \A j \in 1..Len(c) : c[j] \in Tokens /\ c[j].n \in Int
  <2>1. \A j \in 1..Len(c) : c[j] \in Tokens
    BY <1>1
  <2> QED
    BY <2>1 DEF Tokens
<1>3. \A j \in 1..Len(c) : /\ j # k => bad[j] = c[j]
                           /\ j = k => bad[j] = Reader!Token("count", c[j].n + 1)
  BY <1>1 DEF WholeChunk
<1>4. bad \in Seq(Tokens) /\ Len(bad) = Len(c)
  <2>1. \A j \in 1..Len(c) : Reader!Token("count", c[j].n + 1) \in Tokens
    <3> TAKE j \in 1..Len(c)
    <3>1. c[j].n + 1 \in Int
      BY <1>2
    <3> QED
      BY <3>1 DEF Reader!Token, Tokens, Names
  <2>2. \A j \in 1..Len(c) : bad[j] \in Tokens
    BY <1>2, <1>3, <2>1
  <2>3. bad \in [1..Len(c) -> Tokens]
    BY <1>1, <2>2
  <2> QED
    BY <1>1, <2>3, SeqDef
<1>5. k \in 1..Len(c) /\ bad[k].t = "count" /\ bad[k].n = c[k].n + 1
  <2>1. k \in 1..Len(c)
    BY <1>1
  <2> QED
    <3>1. bad[k] = Reader!Token("count", c[k].n + 1)
      BY <1>3, <2>1
    <3>2. Reader!Token("count", c[k].n + 1).t = "count"
          /\ Reader!Token("count", c[k].n + 1).n = c[k].n + 1
      BY DEF Reader!Token
    <3> QED
      BY <2>1, <3>1, <3>2
<1>6. r = 1 => /\ k > 3 /\ k - 1 <= Len(bad) /\ bad[1].t = "magic"
               /\ bad[2].n = (IF oids THEN 1 ELSE 0) /\ bad[3].n = k - 4
  <2> SUFFICES ASSUME r = 1
               PROVE  /\ k > 3 /\ k - 1 <= Len(bad) /\ bad[1].t = "magic"
                      /\ bad[2].n = (IF oids THEN 1 ELSE 0) /\ bad[3].n = k - 4
    OBVIOUS
  <2>1. k > 3 /\ c[2].n = (IF oids THEN 1 ELSE 0) /\ c[3].n = k - 4
    BY DEF WholeChunk
  <2>2. /\ k - 1 <= Len(bad) /\ 1 \in 1..Len(c) /\ 2 \in 1..Len(c) /\ 3 \in 1..Len(c)
        /\ 1 # k /\ 2 # k /\ 3 # k
    BY <1>1, <1>4, <2>1
  <2>3. c[1].t = "magic"
    BY <2>2 DEF WholeChunk
  <2>4. bad[1] = c[1] /\ bad[2] = c[2] /\ bad[3] = c[3]
    BY <1>3, <2>2
  <2> QED
    BY <2>1, <2>2, <2>3, <2>4
<1>7. r # 1 => k = 1 /\ (bad = <<>> \/ bad[1].t # "magic")
  <2>1. r # 1 => k = 1
    BY DEF WholeChunk
  <2> QED
    BY <1>5, <2>1
<1>8. HeadedBy(bad, r, HeaderIs(oids)) /\ Reader!HeaderEnd(bad) + 1 = k
  BY <1>1, <1>4, <1>6, <1>7, HeaderRead
<1>9. CASE r <= Len(rows)
  <2>1. bad[k].n = CountIs(oids) + 1 /\ Reader!Has(bad, k)
    BY <1>1, <1>4, <1>5, <1>9 DEF WholeChunk, Reader!Has
  <2>2. Reader!RowAt(bad, k, HeaderIs(oids)) = Failure
    BY <1>1, <1>4, <2>1, Miscounted
  <2> QED
    BY <1>4, <1>8, <2>2 DEF RowIn
<1>10. CASE ~(r <= Len(rows))
  <2>1. k = Len(bad) /\ bad[k].n = 0
    <3>1. k = Len(c) /\ c[k].n = -1
      <4>1. r > Len(rows)
        BY <1>1, <1>10
      <4> QED
        BY <4>1 DEF WholeChunk
    <3>2. -1 + 1 = 0
      OBVIOUS
    <3> QED
      BY <1>4, <1>5, <3>1, <3>2
  <2>2. Reader!RowAt(bad, k, HeaderIs(oids)) = Failure
    BY <1>1, <1>4, <2>1, NoFields
  <2> QED
    BY <1>4, <1>8, <2>2 DEF RowIn
<1> QED
  BY <1>9, <1>10

\* A row, or the trailer, by itself: a count, and the fields.
Rowed(x, r, rows, oids) ==
  /\ x \in Seq(Tokens) /\ Len(x) \in Nat /\ Len(x) >= 1 /\ x[1].t = "count"
  /\ \A j \in 2..Len(x) : x[j].t # "count" /\ x[j].t # "magic"
  /\ r <= Len(rows) =>
       /\ Len(x) = 1 + Len(RowFlat(rows[r])) /\ Len(RowFlat(rows[r])) \in Nat \ {0}
       /\ \A j \in 1..Len(RowFlat(rows[r])) : x[1 + j] = RowFlat(rows[r])[j]
       /\ x[1].n = CountIs(oids)
  /\ r > Len(rows) => Len(x) = 1 /\ x[1].n = -1

LEMMA RowOfIs ==
  ASSUME NEW rows \in Seq(TableRow), NEW r \in 1..Len(rows) + 1, NEW oids \in BOOLEAN
  PROVE  Rowed(RowOf(rows, r, oids), r, rows, oids)
<1>1. Len(rows) \in Nat /\ r \in Nat \ {0}
  OBVIOUS
<1>2. CASE r <= Len(rows)
  <2> DEFINE x == Reader!RowChunk(rows[r], oids)
             lf == Len(RowFlat(rows[r]))
  <2>1. rows[r] \in TableRow
    BY <1>1, <1>2
  <2>2. /\ x \in Seq(Tokens) /\ Len(x) = 1 + lf /\ lf \in Nat \ {0}
        /\ x[1] = [t |-> "count", n |-> CountIs(oids)]
        /\ \A j \in 1..lf : x[1 + j] = RowFlat(rows[r])[j]
        /\ \A j \in 1..lf : RowFlat(rows[r])[j].t \in {"len", "value"}
    BY <2>1, RowChunkIs
  <2>3. RowOf(rows, r, oids) = x
    BY <1>2 DEF RowOf
  <2> HIDE DEF x
  <2>4. ASSUME NEW j \in 2..Len(x) PROVE x[j].t # "count" /\ x[j].t # "magic"
    <3> HIDE DEF lf
    <3>1. j - 1 \in 1..lf /\ 1 + (j - 1) = j
      BY <2>2
    <3>2. x[1 + (j - 1)] = RowFlat(rows[r])[j - 1] /\ RowFlat(rows[r])[j - 1].t \in {"len", "value"}
      BY <2>2, <3>1
    <3> QED
      BY <3>1, <3>2
  <2>5. x[1].t = "count" /\ x[1].n = CountIs(oids)
    BY <2>2
  <2>6. Len(x) \in Nat /\ Len(x) >= 1
    <3> HIDE DEF lf
    <3> QED
      BY <2>2
  <2>7. ~(r > Len(rows))
    BY <1>1, <1>2
  <2> QED
    BY <2>2, <2>3, <2>4, <2>5, <2>6, <2>7 DEF Rowed
<1>3. CASE ~(r <= Len(rows))
  <2> DEFINE a == Reader!Token("count", -1)
  <2>1. RowOf(rows, r, oids) = <<a>>
    BY <1>3 DEF RowOf, Reader!Trailer
  <2>2. a \in Tokens /\ a.t = "count" /\ a.n = -1
    BY DEF Reader!Token, Tokens, Names
  <2> HIDE DEF a
  <2> DEFINE x == <<a>>
  <2>3. x \in Seq(Tokens) /\ Len(x) = 1 /\ x[1] = a
    BY <2>2
  <2> HIDE DEF x
  <2>4. \A j \in 2..Len(x) : FALSE
    BY <2>3
  <2>5. Len(x) \in Nat /\ Len(x) >= 1
    BY <2>3
  <2>6. Rowed(x, r, rows, oids)
    BY <1>3, <2>2, <2>3, <2>4, <2>5 DEF Rowed
  <2> QED
    BY <2>1, <2>6 DEF x
<1> QED
  BY <1>2, <1>3

LEMMA RowAlone ==
  ASSUME NEW rows \in Seq(TableRow), NEW r \in 1..Len(rows) + 1, NEW oids \in BOOLEAN, r # 1,
         NEW x, Rowed(x, r, rows, oids)
  PROVE  WholeChunk(x, r, rows, 1, oids)
<1>1. Len(rows) \in Nat /\ x \in Seq(Tokens) /\ Len(x) \in Nat /\ Len(x) >= 1 /\ 1 \in Nat \ {0}
  BY DEF Rowed
<1>2. r <= Len(rows) =>
       /\ Follows(x, 1, rows[r]) /\ Len(x) - 1 = Len(RowFlat(rows[r]))
       /\ Len(RowFlat(rows[r])) \in Nat \ {0} /\ x[1].n = CountIs(oids)
  <2> SUFFICES ASSUME r <= Len(rows)
               PROVE  /\ Follows(x, 1, rows[r]) /\ Len(x) - 1 = Len(RowFlat(rows[r]))
                      /\ Len(RowFlat(rows[r])) \in Nat \ {0} /\ x[1].n = CountIs(oids)
    OBVIOUS
  <2> DEFINE lf == Len(RowFlat(rows[r]))
             lx == Len(x)
  <2>1. /\ lx = 1 + lf /\ lf \in Nat /\ lf # 0
        /\ \A j \in 1..lf : x[1 + j] = RowFlat(rows[r])[j]
        /\ x[1].n = CountIs(oids) /\ lx \in Nat
    BY <1>1 DEF Rowed
  <2> HIDE DEF lf, lx
  <2>2. lx - 1 = lf /\ 1 <= lx
    BY <2>1
  <2>3. Len(x) - 1 \in {Len(RowFlat(rows[r])), Len(RowFlat(rows[r])) - 1} /\ 1 <= Len(x)
    BY <2>2 DEF lf, lx
  <2>4. \A j \in 1..Len(x) - 1 : x[1 + j] = RowFlat(rows[r])[j]
    BY <2>1, <2>2 DEF lx
  <2>5. Follows(x, 1, rows[r])
    BY <2>3, <2>4 DEF Follows
  <2>6. Len(RowFlat(rows[r])) \in Nat \ {0} /\ Len(x) - 1 = Len(RowFlat(rows[r]))
    BY <2>1, <2>2 DEF lf, lx
  <2> QED
    BY <2>1, <2>5, <2>6
<1>3. r > Len(rows) => 1 = Len(x) /\ x[1].n = -1
  BY DEF Rowed
<1>4. \A j \in 1..Len(x) : (x[j].t = "count" <=> j = 1) /\ (x[j].t = "magic" <=> j = 1 /\ r = 1)
  <2> TAKE j \in 1..Len(x)
  <2>1. j = 1 \/ j \in 2..Len(x)
    BY <1>1
  <2>2. CASE j = 1
    BY <2>2 DEF Rowed
  <2>3. CASE j \in 2..Len(x)
    <3>1. j # 1 /\ x[j].t # "count" /\ x[j].t # "magic"
      BY <2>3 DEF Rowed
    <3> QED
      BY <3>1
  <2> QED
    BY <2>1, <2>2, <2>3
<1> QED
  BY <1>1, <1>2, <1>3, <1>4 DEF WholeChunk

LEMMA RowAfterHeader ==
  ASSUME NEW rows \in Seq(TableRow), NEW oids \in BOOLEAN, NEW extension \in Nat,
         NEW x, Rowed(x, 1, rows, oids)
  PROVE  WholeChunk(Reader!HeaderTokens(oids, extension) \o x, 1, rows, 4 + extension, oids)
<1> DEFINE h == Reader!HeaderTokens(oids, extension)
           c == h \o x
           k == 4 + extension
           lx == Len(x)
           lc == Len(c)
<1>1. /\ h \in Seq(Tokens) /\ Len(h) = 3 + extension
      /\ h[1].t = "magic" /\ h[2].n = (IF oids THEN 1 ELSE 0) /\ h[3].n = extension
      /\ \A j \in 1..Len(h) : h[j].t # "count" /\ (j > 1 => h[j].t # "magic")
  BY HeaderTokensAre
<1> HIDE DEF h
<1>2. /\ Len(rows) \in Nat /\ x \in Seq(Tokens) /\ lx \in Nat /\ lx >= 1
      /\ k \in Nat \ {0} /\ 3 + extension \in Nat /\ k = (3 + extension) + 1
  BY DEF Rowed
<1>3. c \in Seq(Tokens) /\ lc = (3 + extension) + lx
  BY <1>1, <1>2, TokensConcat
<1>4. \A i \in 1..3 + extension : c[i] = h[i]
  <2>1. \A i \in 1..Len(h) : c[i] = h[i]
    BY <1>1, <1>2, TokensConcat
  <2> QED
    BY <1>1, <2>1
<1>5. \A i \in 1..lx : c[(3 + extension) + i] = x[i]
  <2>1. \A i \in 1..Len(x) : c[Len(h) + i] = x[i]
    BY <1>1, <1>2, TokensConcat
  <2> QED
    BY <1>1, <2>1
<1> HIDE DEF c, lx, k, lc
<1>6. c[k] = x[1]
  <2>1. 1 \in 1..lx
    BY <1>2
  <2> QED
    BY <1>2, <1>5, <2>1
<1>7. k <= lc /\ lc - k = lx - 1 /\ lc \in Nat
  BY <1>2, <1>3
<1>8. 1 <= Len(rows) =>
       /\ Follows(c, k, rows[1]) /\ Len(c) - k = Len(RowFlat(rows[1]))
       /\ Len(RowFlat(rows[1])) \in Nat \ {0} /\ c[k].n = CountIs(oids)
  <2> SUFFICES ASSUME 1 <= Len(rows)
               PROVE  /\ Follows(c, k, rows[1]) /\ Len(c) - k = Len(RowFlat(rows[1]))
                      /\ Len(RowFlat(rows[1])) \in Nat \ {0} /\ c[k].n = CountIs(oids)
    OBVIOUS
  <2> DEFINE lf == Len(RowFlat(rows[1]))
  <2>1. /\ lx = 1 + lf /\ lf \in Nat /\ lf # 0
        /\ \A j \in 1..lf : x[1 + j] = RowFlat(rows[1])[j]
        /\ x[1].n = CountIs(oids)
    BY DEF Rowed, lx
  <2> HIDE DEF lf
  <2>2. lc - k = lf
    BY <1>2, <1>7, <2>1
  <2>3. ASSUME NEW j \in 1..lf PROVE c[k + j] = RowFlat(rows[1])[j]
    <3>1. 1 + j \in 1..lx /\ (3 + extension) + (1 + j) = k + j
      BY <1>2, <2>1
    <3>2. c[(3 + extension) + (1 + j)] = x[1 + j]
      BY <1>5, <3>1
    <3> QED
      BY <2>1, <3>1, <3>2
  <2>4. Len(c) - k \in {Len(RowFlat(rows[1])), Len(RowFlat(rows[1])) - 1} /\ k <= Len(c)
    BY <1>7, <2>2 DEF lf, lc
  <2>5. \A j \in 1..Len(c) - k : c[k + j] = RowFlat(rows[1])[j]
    BY <2>2, <2>3 DEF lc
  <2>6. Follows(c, k, rows[1])
    BY <2>4, <2>5 DEF Follows
  <2>7. Len(RowFlat(rows[1])) \in Nat \ {0} /\ Len(c) - k = Len(RowFlat(rows[1]))
    BY <2>1, <2>2 DEF lf, lc
  <2> QED
    BY <1>6, <2>1, <2>6, <2>7
<1>9. 1 > Len(rows) => k = Len(c) /\ c[k].n = -1
  <2> SUFFICES ASSUME 1 > Len(rows) PROVE k = Len(c) /\ c[k].n = -1
    OBVIOUS
  <2>1. lx = 1 /\ x[1].n = -1
    BY DEF Rowed, lx
  <2>2. k = lc
    BY <1>2, <1>3, <2>1
  <2> QED
    BY <1>6, <2>1, <2>2 DEF lc
<1>10. \A j \in 1..lc : (c[j].t = "count" <=> j = k) /\ (c[j].t = "magic" <=> j = 1)
  <2> TAKE j \in 1..lc
  <2>1. j \in 1..3 + extension \/ j = k \/ j - (3 + extension) \in 2..lx
    BY <1>2, <1>3
  <2>2. CASE j \in 1..3 + extension
    <3>1. c[j] = h[j] /\ j # k /\ (j = 1 \/ j > 1)
      BY <1>2, <1>4, <2>2
    <3>2. h[j].t # "count" /\ (j > 1 => h[j].t # "magic")
      BY <1>1, <2>2
    <3> QED
      BY <1>1, <3>1, <3>2
  <2>3. CASE j = k
    <3>1. x[1].t = "count" /\ k # 1
      BY <1>2 DEF Rowed
    <3> QED
      BY <1>6, <2>3, <3>1
  <2>4. CASE j - (3 + extension) \in 2..lx
    <3>1. /\ j - (3 + extension) \in 1..lx /\ (3 + extension) + (j - (3 + extension)) = j
          /\ j # k /\ j # 1
      BY <1>2, <2>4
    <3>2. c[j] = x[j - (3 + extension)]
      BY <1>5, <3>1
    <3>3. x[j - (3 + extension)].t # "count" /\ x[j - (3 + extension)].t # "magic"
      BY <2>4 DEF Rowed, lx
    <3> QED
      BY <3>1, <3>2, <3>3
  <2> QED
    BY <2>1, <2>2, <2>3, <2>4
<1>11. k > 3 /\ c[2].n = (IF oids THEN 1 ELSE 0) /\ c[3].n = k - 4
  <2>1. k > 3 /\ k - 4 = extension /\ 2 \in 1..3 + extension /\ 3 \in 1..3 + extension
    BY DEF k
  <2> QED
    BY <1>1, <1>4, <2>1
<1>12. WholeChunk(c, 1, rows, k, oids)
  <2>1. c \in Seq(Tokens) /\ k \in Nat \ {0} /\ k <= Len(c)
    BY <1>2, <1>3, <1>7 DEF lc
  <2>2. \A j \in 1..Len(c) : (c[j].t = "count" <=> j = k) /\ (c[j].t = "magic" <=> j = 1 /\ 1 = 1)
    BY <1>10 DEF lc
  <2> QED
    BY <1>8, <1>9, <1>11, <2>1, <2>2 DEF WholeChunk
<1> QED
  BY <1>12 DEF c, h, k

LEMMA ChunksAre ==
  ASSUME NEW rows \in Seq(TableRow), NEW oids \in BOOLEAN, NEW extension \in Nat
  PROVE  LET whole == Reader!BinaryChunks(rows, oids, extension)
         IN /\ whole \in Seq(Seq(Tokens)) /\ Len(whole) = Len(rows) + 1
            /\ DOMAIN whole = 1..Len(rows) + 1
            /\ \A r \in 1..Len(rows) + 1 : \E k : WholeChunk(whole[r], r, rows, k, oids)
<1> DEFINE n == Len(rows)
           first == [r \in 1..n |-> Reader!RowChunk(rows[r], oids)]
           body == first \o <<Reader!Trailer>>
           h == Reader!HeaderTokens(oids, extension)
           whole == [body EXCEPT ![1] = h \o @]
<1>1. n \in Nat
  OBVIOUS
<1>2. ASSUME NEW r \in 1..n + 1
      PROVE  RowOf(rows, r, oids) \in Seq(Tokens) /\ Rowed(RowOf(rows, r, oids), r, rows, oids)
  <2>1. Rowed(RowOf(rows, r, oids), r, rows, oids)
    BY RowOfIs
  <2> QED
    BY <2>1 DEF Rowed
<1>3. first \in Seq(Seq(Tokens)) /\ Len(first) = n /\ \A r \in 1..n : first[r] = RowOf(rows, r, oids)
  <2>1. \A r \in 1..n : r \in 1..n + 1 /\ r <= n
    BY <1>1
  <2>2. \A r \in 1..n : RowOf(rows, r, oids) = Reader!RowChunk(rows[r], oids)
    BY <2>1 DEF RowOf
  <2>3. \A r \in 1..n : first[r] = RowOf(rows, r, oids) /\ first[r] \in Seq(Tokens)
    BY <1>2, <2>1, <2>2
  <2>4. first \in [1..n -> Seq(Tokens)]
    BY <2>3
  <2> HIDE DEF first
  <2> QED
    BY <1>1, <2>3, <2>4, SeqDef
<1> HIDE DEF first, h
<1>4. Reader!Trailer = RowOf(rows, n + 1, oids)
  <2>1. ~(n + 1 <= n)
    BY <1>1
  <2> QED
    BY <2>1 DEF RowOf
<1>5. Reader!Trailer \in Seq(Tokens)
  <2>1. n + 1 \in 1..n + 1
    BY <1>1
  <2> QED
    BY <1>2, <1>4, <2>1
<1> DEFINE z == Reader!Trailer
           t == <<z>>
<1> HIDE DEF z
<1>6. t \in Seq(Seq(Tokens)) /\ Len(t) = 1 /\ t[1] = z
  BY <1>5 DEF z
<1> HIDE DEF t
<1>7. body = first \o t
  BY DEF t, z
<1> HIDE DEF body
<1>8. /\ body \in Seq(Seq(Tokens)) /\ Len(body) = n + 1
      /\ \A r \in 1..n + 1 : body[r] = RowOf(rows, r, oids)
  <2>1. /\ first \o t \in Seq(Seq(Tokens)) /\ Len(first \o t) = Len(first) + Len(t)
        /\ \A i \in 1..Len(first) + Len(t) :
             (first \o t)[i] = IF i <= Len(first) THEN first[i] ELSE t[i - Len(first)]
    BY <1>3, <1>6, ConcatProperties
  <2>2. ASSUME NEW r \in 1..n + 1 PROVE body[r] = RowOf(rows, r, oids)
    <3>1. body[r] = IF r <= n THEN first[r] ELSE t[r - n]
      BY <1>3, <1>6, <1>7, <2>1
    <3>2. CASE r <= n
      <4>1. r \in 1..n
        BY <1>1, <3>2
      <4> QED
        BY <1>3, <3>1, <3>2, <4>1
    <3>3. CASE ~(r <= n)
      <4>1. r = n + 1 /\ r - n = 1
        BY <1>1, <3>3
      <4> QED
        BY <1>4, <1>6, <3>1, <3>3, <4>1 DEF z
    <3> QED
      BY <3>2, <3>3
  <2> QED
    BY <1>3, <1>6, <1>7, <2>1, <2>2
<1>9. h \in Seq(Tokens)
  BY HeaderTokensAre DEF h
<1>10. DOMAIN body = 1..n + 1 /\ body \in [1..n + 1 -> Seq(Tokens)]
  <2>1. body \in [1..Len(body) -> Seq(Tokens)]
    BY <1>8
  <2> QED
    BY <1>8, <2>1
<1>11. /\ whole \in [1..n + 1 -> Seq(Tokens)]
       /\ \A r \in 1..n + 1 : whole[r] = IF r = 1 THEN h \o body[1] ELSE body[r]
  <2>1. 1 \in 1..n + 1
    BY <1>1
  <2>2. h \o body[1] \in Seq(Tokens)
    BY <1>9, <1>10, <2>1, TokensConcat
  <2> QED
    BY <1>10, <2>1, <2>2
<1>12. whole = Reader!BinaryChunks(rows, oids, extension)
  BY DEF Reader!BinaryChunks, body, first, h
<1> HIDE DEF whole
<1>13. whole \in Seq(Seq(Tokens)) /\ Len(whole) = n + 1 /\ DOMAIN whole = 1..n + 1
  <2>1. n + 1 \in Nat
    BY <1>1
  <2> HIDE DEF n
  <2>2. whole \in Seq(Seq(Tokens)) /\ DOMAIN whole = 1..n + 1
    BY <1>11, <2>1, SeqDef
  <2> QED
    BY <1>11, <2>1, <2>2
<1>14. ASSUME NEW r \in 1..n + 1 PROVE \E k : WholeChunk(whole[r], r, rows, k, oids)
  <2>1. Rowed(body[r], r, rows, oids)
    BY <1>2, <1>8
  <2>2. CASE r = 1
    <3>1. Rowed(body[1], 1, rows, oids)
      BY <2>1, <2>2
    <3>2. WholeChunk(h \o body[1], 1, rows, 4 + extension, oids)
      BY <3>1, RowAfterHeader DEF h
    <3> QED
      BY <1>11, <2>2, <3>2
  <2>3. CASE r # 1
    <3>1. whole[r] = body[r]
      BY <1>11, <2>3
    <3>2. WholeChunk(body[r], r, rows, 1, oids)
      BY <2>1, <2>3, RowAlone
    <3> QED
      BY <3>1, <3>2
  <2> QED
    BY <2>2, <2>3
<1> QED
  BY <1>12, <1>13, <1>14

-----------------------------------------------------------------------------
(* Reading the rows of a COPY.                                             *)

\* What the r-th chunk is read as: the row sent, the end after the last, an error when damaged.
Outcome(r) == IF r = damage THEN Failure ELSE WholeGives(sent, r)

\* A chunk that has been sent; a damaged first one may have no header.
Arrives(c, r, h) ==
  \/ HeadedBy(c, r, h) /\ RowIn(c, h) = Outcome(r)
  \/ r = 1 /\ damage = 1 /\ Reader!HeaderEnd(c) = 0

\* How many of the first m rows come in good chunks.
Among(m) ==
  LET first == IF m <= Len(sent) THEN m ELSE Len(sent)
  IN first - (IF damage \in 1..first THEN 1 ELSE 0)

\* The first m chunks have been read, and the rest are as they were sent.  Nothing is read when
\* the header was not.
RowsRead(h, m) ==
  /\ sent \in Seq(TableRow) /\ damage \in Nat
  /\ chunks \in Seq(Seq(Tokens)) /\ m \in Nat /\ Len(chunks) + m = Len(sent) + 1
  /\ \A i \in 1..Len(chunks) : Arrives(chunks[i], m + i, h)
  /\ got \in Seq(TableRow)
  /\ \/ header = h /\ m > 0 /\ Len(got) = Among(m) /\ \A j \in 1..Among(m) : got[j] = Reader!Good[j]
     \/ header = "none" /\ (m = 0 \/ damage = 1) /\ got = <<>> /\ last # "end"
  /\ h # "none" /\ (last = "end" => chunks = <<>>)

RowsInv == \E h, m : RowsRead(h, m)

LEMMA DamagedArrives ==
  ASSUME NEW rows \in Seq(TableRow), NEW oids \in BOOLEAN, rows = sent,
         NEW r \in 1..Len(rows) + 1, NEW c, NEW k, WholeChunk(c, r, rows, k, oids), r = damage,
         NEW bad \in Reader!Damaged(c) \ {c}
  PROVE  bad \in Seq(Tokens) /\ Arrives(bad, r, HeaderIs(oids))
<1>1. Outcome(r) = Failure
  BY DEF Outcome
<1>2. \/ bad = SubSeq(c, 1, Len(c) - 1)
      \/ bad = [j \in DOMAIN c |-> IF c[j].t = "magic" THEN Reader!Token("value", 0) ELSE c[j]]
      \/ bad = [j \in DOMAIN c |->
                  IF c[j].t = "count" THEN Reader!Token("count", c[j].n + 1) ELSE c[j]]
  BY DEF Reader!Damaged
<1>3. CASE bad = SubSeq(c, 1, Len(c) - 1)
  BY <1>1, <1>3, CutRead DEF Arrives
<1>4. CASE bad = [j \in DOMAIN c |->
                    IF c[j].t = "magic" THEN Reader!Token("value", 0) ELSE c[j]]
  <2>1. bad # c
    OBVIOUS
  <2>2. bad \in Seq(Tokens) /\ r = 1 /\ Reader!HeaderEnd(bad) = 0
    BY <1>4, <2>1, MagicRead
  <2> QED
    BY <2>2 DEF Arrives
<1>5. CASE bad = [j \in DOMAIN c |->
                    IF c[j].t = "count" THEN Reader!Token("count", c[j].n + 1) ELSE c[j]]
  BY <1>1, <1>5, CountRead DEF Arrives
<1> QED
  BY <1>2, <1>3, <1>4, <1>5

LEMMA WholeArrives ==
  ASSUME NEW rows \in Seq(TableRow), NEW oids \in BOOLEAN, rows = sent,
         NEW r \in 1..Len(rows) + 1, NEW c, NEW k, WholeChunk(c, r, rows, k, oids), r # damage
  PROVE  Arrives(c, r, HeaderIs(oids))
<1>1. HeadedBy(c, r, HeaderIs(oids)) /\ RowIn(c, HeaderIs(oids)) = WholeGives(rows, r)
  BY WholeRead
<1> QED
  BY <1>1 DEF Arrives, Outcome

LEMMA RowsStart ==
  ASSUME Reader!Init, Reader!InitBinary
  PROVE  RowsInv
<1>1. PICK n \in 0..MaxCopyRows, oids \in BOOLEAN, extension \in 0..1 :
        \E rows \in Reader!RowSets(n) :
          LET whole == Reader!BinaryChunks(rows, oids, extension)
          IN /\ sent = rows
             /\ \/ damage = 0 /\ chunks = whole
                \/ /\ damage \in DOMAIN whole
                   /\ \E bad \in Reader!Damaged(whole[damage]) \ {whole[damage]} :
                        chunks = [whole EXCEPT ![damage] = bad]
  BY DEF Reader!InitBinary
<1>2. PICK rows \in Reader!RowSets(n) :
          LET whole == Reader!BinaryChunks(rows, oids, extension)
          IN /\ sent = rows
             /\ \/ damage = 0 /\ chunks = whole
                \/ /\ damage \in DOMAIN whole
                   /\ \E bad \in Reader!Damaged(whole[damage]) \ {whole[damage]} :
                        chunks = [whole EXCEPT ![damage] = bad]
  BY <1>1
<1> DEFINE whole == Reader!BinaryChunks(rows, oids, extension)
           N == Len(rows)
           h == HeaderIs(oids)
<1>3. sent = rows
  BY <1>2
<1>4. \/ damage = 0 /\ chunks = whole
      \/ /\ damage \in DOMAIN whole
         /\ \E bad \in Reader!Damaged(whole[damage]) \ {whole[damage]} :
                        chunks = [whole EXCEPT ![damage] = bad]
  BY <1>2
<1>5. n \in Nat /\ extension \in Nat
  BY BoundsAssumption
<1>6. rows \in Seq(TableRow) /\ N \in Nat
  BY <1>5, RowSetsTyped
<1>7. /\ whole \in Seq(Seq(Tokens)) /\ Len(whole) = N + 1 /\ DOMAIN whole = 1..N + 1
      /\ \A r \in 1..N + 1 : \E k : WholeChunk(whole[r], r, rows, k, oids)
  BY <1>5, <1>6, ChunksAre
<1> HIDE DEF whole
<1>8. /\ damage \in Nat /\ chunks \in Seq(Seq(Tokens)) /\ Len(chunks) = N + 1
      /\ \A r \in 1..N + 1 : Arrives(chunks[r], r, h)
  <2>1. CASE damage = 0 /\ chunks = whole
    <3>1. ASSUME NEW r \in 1..N + 1 PROVE Arrives(whole[r], r, h)
      <4>1. PICK k : WholeChunk(whole[r], r, rows, k, oids)
        BY <1>7
      <4>2. r # damage
        BY <2>1
      <4> QED
        BY <1>3, <1>6, <4>1, <4>2, WholeArrives
    <3> QED
      BY <1>7, <2>1, <3>1
  <2>2. CASE /\ damage \in DOMAIN whole
             /\ \E bad \in Reader!Damaged(whole[damage]) \ {whole[damage]} :
                        chunks = [whole EXCEPT ![damage] = bad]
    <3>1. damage \in 1..N + 1 /\ damage \in Nat
      BY <1>6, <1>7, <2>2
    <3>2. PICK bad \in Reader!Damaged(whole[damage]) \ {whole[damage]} :
                        chunks = [whole EXCEPT ![damage] = bad]
      BY <2>2
    <3>3. PICK k : WholeChunk(whole[damage], damage, rows, k, oids)
      BY <1>7, <3>1
    <3>4. bad \in Seq(Tokens) /\ Arrives(bad, damage, h)
      BY <1>3, <1>6, <3>1, <3>3, DamagedArrives
    <3> HIDE DEF N, h
    <3>5. whole \in [1..N + 1 -> Seq(Tokens)] /\ N + 1 \in Nat
      BY <1>6, <1>7
    <3>6. /\ chunks \in [1..N + 1 -> Seq(Tokens)]
          /\ \A r \in 1..N + 1 : chunks[r] = IF r = damage THEN bad ELSE whole[r]
      BY <3>1, <3>2, <3>4, <3>5
    <3>7. chunks \in Seq(Seq(Tokens)) /\ Len(chunks) = N + 1
      BY <3>5, <3>6, SeqDef
    <3>8. ASSUME NEW r \in 1..N + 1 PROVE Arrives(chunks[r], r, h)
      <4>1. CASE r = damage
        BY <3>4, <3>6, <4>1
      <4>2. CASE r # damage
        <5>1. PICK kk : WholeChunk(whole[r], r, rows, kk, oids)
          BY <1>7
        <5>2. Arrives(whole[r], r, h)
          BY <1>3, <1>6, <4>2, <5>1, WholeArrives DEF h, N
        <5> QED
          BY <3>6, <4>2, <5>2
      <4> QED
        BY <4>1, <4>2
    <3> QED
      BY <3>1, <3>7, <3>8
  <2> QED
    BY <1>4, <2>1, <2>2
<1>9. RowsRead(h, 0)
  <2>1. header = "none" /\ got = <<>> /\ last = "none"
    BY DEF Reader!Init
  <2>2. h # "none"
    BY DEF HeaderIs
  <2> HIDE DEF h, N
  <2>3. \A i \in 1..Len(chunks) : Arrives(chunks[i], 0 + i, h)
    <3> TAKE i \in 1..Len(chunks)
    <3>1. 0 + i = i /\ i \in 1..N + 1
      BY <1>6, <1>8
    <3> QED
      BY <1>8, <3>1
  <2>4. Len(chunks) + 0 = Len(sent) + 1
    BY <1>3, <1>6, <1>8 DEF N
  <2> QED
    BY <1>3, <1>6, <1>8, <2>1, <2>2, <2>3, <2>4 DEF RowsRead
<1> QED
  BY <1>9 DEF RowsInv

LEMMA GoodIs ==
  ASSUME sent \in Seq(TableRow), damage \in Nat
  PROVE  /\ Len(sent) \in Nat
         /\ Reader!Good \in Seq(TableRow) /\ Len(Reader!Good) = Among(Len(sent) + 1)
         /\ Among(0) = 0
         /\ \A m \in 0..Len(sent) :
              /\ Among(m) \in Nat
              /\ m + 1 = damage \/ m = Len(sent) => Among(m + 1) = Among(m)
              /\ m + 1 # damage /\ m < Len(sent) =>
                   /\ Among(m + 1) = Among(m) + 1 /\ Among(m + 1) <= Among(Len(sent) + 1)
                   /\ Reader!Good[Among(m) + 1] = sent[m + 1]
<1> DEFINE N == Len(sent)
           total == N - (IF damage \in 1..N THEN 1 ELSE 0)
<1>1. N \in Nat /\ DOMAIN sent = 1..N
  OBVIOUS
<1>2. Reader!Good = [k \in 1..total |-> IF damage = 0 \/ k < damage THEN sent[k] ELSE sent[k + 1]]
  BY <1>1 DEF Reader!Good
<1>3. \A k \in 1..N : sent[k] \in TableRow
  OBVIOUS
<1> HIDE DEF N
<1>4. total \in Nat
  BY <1>1
<1>5. Among(N + 1) = total
  <2>1. ~(N + 1 <= N)
    BY <1>1
  <2> QED
    BY <2>1 DEF Among, N
<1>6. \A k \in 1..total : (IF damage = 0 \/ k < damage THEN sent[k] ELSE sent[k + 1]) \in TableRow
  <2> TAKE k \in 1..total
  <2>1. CASE damage = 0 \/ k < damage
    <3>1. k \in 1..N
      BY <1>1
    <3> QED
      BY <1>3, <2>1, <3>1
  <2>2. CASE ~(damage = 0 \/ k < damage)
    <3>1. k + 1 \in 1..N
      BY <1>1, <2>2
    <3> QED
      BY <1>3, <2>2, <3>1
  <2> QED
    BY <2>1, <2>2
<1>7. Reader!Good \in Seq(TableRow) /\ Len(Reader!Good) = total
  <2>1. Reader!Good \in [1..total -> TableRow]
    BY <1>2, <1>6
  <2> HIDE DEF total
  <2> QED
    BY <1>4, <2>1, SeqDef
<1>8. Among(0) = 0
  BY <1>1 DEF Among, N
<1>9. ASSUME NEW m \in 0..N
      PROVE  /\ Among(m) \in Nat
             /\ m + 1 = damage \/ m = N => Among(m + 1) = Among(m)
             /\ m + 1 # damage /\ m < N =>
                  /\ Among(m + 1) = Among(m) + 1 /\ Among(m + 1) <= Among(N + 1)
                  /\ Reader!Good[Among(m) + 1] = sent[m + 1]
  <2>1. Among(m) = m - (IF damage \in 1..m THEN 1 ELSE 0)
    <3>1. m <= N
      BY <1>1
    <3> QED
      BY <3>1 DEF Among, N
  <2>2. Among(m) \in Nat
    BY <1>1, <2>1
  <2>3. m = N => Among(m + 1) = Among(m)
    BY <1>5, <2>1
  <2>4. m < N => Among(m + 1) = (m + 1) - (IF damage \in 1..m + 1 THEN 1 ELSE 0)
    <3>1. m < N => m + 1 <= N
      BY <1>1
    <3> QED
      BY <3>1 DEF Among, N
  <2>5. m + 1 = damage => Among(m + 1) = Among(m)
    <3> SUFFICES ASSUME m + 1 = damage, m < N PROVE Among(m + 1) = Among(m)
      BY <1>1, <2>3
    <3>1. damage \in 1..m + 1 /\ damage \notin 1..m
      BY <1>1
    <3> QED
      BY <1>1, <2>1, <2>4, <3>1
  <2>6. ASSUME m + 1 # damage, m < N
        PROVE  /\ Among(m + 1) = Among(m) + 1 /\ Among(m + 1) <= Among(N + 1)
               /\ Reader!Good[Among(m) + 1] = sent[m + 1]
    <3>1. damage \in 1..m + 1 <=> damage \in 1..m
      BY <1>1, <2>6
    <3>2. CASE damage \in 1..m
      <4>1. Among(m) = m - 1 /\ Among(m + 1) = m /\ m >= 1
        BY <1>1, <2>1, <2>4, <2>6, <3>1, <3>2
      <4>2. total = N - 1 /\ m \in 1..total /\ ~(damage = 0 \/ m < damage)
        BY <1>1, <2>6, <3>2
      <4>3. Reader!Good[m] = sent[m + 1]
        BY <1>2, <4>2
      <4>4. (m - 1) + 1 = m /\ m <= total
        BY <1>1, <4>2
      <4> QED
        BY <1>5, <4>1, <4>3, <4>4
    <3>3. CASE damage \notin 1..m
      <4>1. Among(m) = m /\ Among(m + 1) = m + 1
        BY <1>1, <2>1, <2>4, <2>6, <3>1, <3>3
      <4>2. m + 1 \in 1..total /\ (damage = 0 \/ m + 1 < damage)
        BY <1>1, <2>6, <3>3
      <4>3. Reader!Good[m + 1] = sent[m + 1]
        BY <1>2, <4>2
      <4>4. m + 1 <= total
        BY <1>1, <4>2
      <4> QED
        BY <1>5, <4>1, <4>3, <4>4
    <3> QED
      BY <3>2, <3>3
  <2> QED
    BY <2>2, <2>3, <2>5, <2>6
<1> QED
  BY <1>1, <1>5, <1>7, <1>8, <1>9 DEF N

LEMMA RowsAsSent ==
  ASSUME RowsInv
  PROVE  Reader!ReadAsSent
<1>1. PICK h, m : RowsRead(h, m)
  BY DEF RowsInv
<1> DEFINE good == Reader!Good
           N == Len(sent)
<1>2. /\ sent \in Seq(TableRow) /\ damage \in Nat /\ m \in Nat /\ got \in Seq(TableRow)
      /\ chunks \in Seq(Seq(Tokens)) /\ Len(chunks) + m = N + 1
  BY <1>1 DEF RowsRead
<1>3. N \in Nat /\ good \in Seq(TableRow) /\ Len(good) = Among(N + 1) /\ Len(chunks) \in Nat
  BY <1>2, GoodIs
<1>4. Len(got) <= Len(good) /\ \A j \in 1..Len(got) : got[j] = good[j]
  <2>1. CASE Len(got) = Among(m) /\ \A j \in 1..Among(m) : got[j] = good[j]
    <3>1. Len(got) <= Len(good)
      <4>1. CASE m = N + 1
        BY <1>3, <2>1, <4>1
      <4>2. CASE m # N + 1
        <5> DEFINE T == {i \in Nat : i <= N + 1 => Among(i) \in Nat /\ Among(i) <= Among(N + 1)}
                   D == {i \in Nat : i <= N + 1 /\ m <= i => Among(m) <= Among(i)}
        <5>1. \A i \in 0..N : Among(i + 1) \in Nat /\ Among(i) \in Nat /\ Among(i) <= Among(i + 1)
          <6> TAKE i \in 0..N
          <6>1. Among(i + 1) = Among(i) \/ Among(i + 1) = Among(i) + 1
            BY <1>2, <1>3, GoodIs
          <6>2. Among(i) \in Nat
            BY <1>2, GoodIs
          <6> HIDE DEF N
          <6> QED
            BY <6>1, <6>2
        <5>2. m \in 0..N
          BY <1>2, <1>3, <4>2
        <5>3. 0 \in D
          <6>1. m <= 0 => m = 0
            BY <1>2
          <6>2. Among(m) <= Among(m)
            BY <5>1, <5>2
          <6> QED
            BY <6>1, <6>2
        <5>4. \A i \in Nat : i \in D => i + 1 \in D
          <6> SUFFICES ASSUME NEW i \in Nat, i \in D, i + 1 <= N + 1, m <= i + 1
                       PROVE  Among(m) <= Among(i + 1)
            OBVIOUS
          <6>1. CASE m = i + 1
            BY <5>1, <5>2, <6>1
          <6>2. CASE m # i + 1
            <7>1. m <= i /\ i <= N + 1 /\ i \in 0..N
              BY <1>2, <1>3, <6>2
            <7>2. Among(m) <= Among(i)
              BY <7>1
            <7> DEFINE x == Among(m)
                       y == Among(i)
                       z == Among(i + 1)
            <7>3. x \in Nat /\ y \in Nat /\ z \in Nat /\ y <= z /\ x <= y
              BY <5>1, <5>2, <7>1, <7>2
            <7> HIDE DEF x, y, z
            <7>4. x <= z
              BY <7>3
            <7> QED
              BY <7>4 DEF x, z
          <6> QED
            BY <6>1, <6>2
        <5> HIDE DEF D
        <5>5. N + 1 \in D
          BY <1>3, <5>3, <5>4, A!NatSetInduction
        <5>6. Among(m) <= Among(N + 1)
          <6>1. N + 1 \in Nat /\ N + 1 <= N + 1 /\ m <= N + 1
            BY <1>3, <5>2
          <6> QED
            BY <5>5, <6>1 DEF D
        <5> QED
          BY <1>3, <2>1, <5>6
      <4> QED
        BY <4>1, <4>2
    <3> QED
      BY <2>1, <3>1
  <2>2. CASE got = <<>>
    <3>1. Len(got) = 0
      BY <2>2
    <3>2. Len(good) \in Nat
      BY <1>3
    <3> QED
      BY <3>1, <3>2
  <2> QED
    BY <1>1, <2>1, <2>2 DEF RowsRead
<1>5. Reader!IsPrefix(got, good)
  <2> DEFINE lg == Len(got)
             t == SubSeq(good, lg + 1, Len(good))
  <2>1. lg \in Nat /\ lg <= Len(good)
    BY <1>2, <1>4
  <2>2. SubSeq(good, 1, lg) = got
    <3>1. SubSeq(good, 1, lg) \in Seq(TableRow) /\ Len(SubSeq(good, 1, lg)) = lg
          /\ \A j \in 1..lg : SubSeq(good, 1, lg)[j] = good[j]
      BY <1>3, <2>1
    <3>2. \A j \in 1..lg : SubSeq(good, 1, lg)[j] = got[j]
      BY <1>4, <3>1
    <3> QED
      BY <1>2, <3>1, <3>2, SeqEqual
  <2>3. SubSeq(good, 1, lg) \o SubSeq(good, lg + 1, Len(good)) = good
    <3> HIDE DEF good, lg
    <3> QED
      BY <1>3, <2>1, SplitAt
  <2>4. t \in Seq(TableRow)
    BY <1>3, <2>1
  <2>5. got \o t = good
    BY <2>2, <2>3
  <2> HIDE DEF t, good
  <2> QED
    BY <1>2, <1>3, <2>4, <2>5, PrefixOf
<1>6. last = "end" => got = good
  <2> SUFFICES ASSUME last = "end" PROVE got = good
    OBVIOUS
  <2>1. chunks = <<>> /\ Len(got) = Among(m) /\ \A j \in 1..Among(m) : got[j] = good[j]
    BY <1>1 DEF RowsRead
  <2>2. m = N + 1
    BY <1>2, <1>3, <2>1
  <2>3. Len(got) = Len(good) /\ \A j \in 1..Len(got) : got[j] = good[j]
    BY <1>3, <2>1, <2>2
  <2> HIDE DEF good
  <2> QED
    BY <1>2, <1>3, <2>3, SeqEqual
<1> QED
  BY <1>5, <1>6 DEF Reader!ReadAsSent

\* The item a row gives is a value of its own.
LEMMA GivesOne ==
  ASSUME NEW r, sent \in Seq(TableRow), NEW c, NEW h, RowIn(c, h) = Outcome(r)
  PROVE  /\ r = damage => RowIn(c, h).t = "error"
         /\ r # damage /\ r <= Len(sent) => RowIn(c, h).t = "item" /\ RowIn(c, h).values = sent[r]
         /\ r # damage /\ ~(r <= Len(sent)) => RowIn(c, h).t = "end"
BY DEF Outcome, WholeGives, Failure, Item, End

LEMMA RowTaken ==
  ASSUME NEW h, NEW m, RowsRead(h, m), Reader!NextRow
  PROVE  RowsRead(h, m + 1)'
<1> DEFINE c == Head(chunks)
           N == Len(sent)
<1>1. /\ sent \in Seq(TableRow) /\ damage \in Nat /\ m \in Nat /\ got \in Seq(TableRow)
      /\ chunks \in Seq(Seq(Tokens)) /\ Len(chunks) + m = N + 1 /\ h # "none"
      /\ \A i \in 1..Len(chunks) : Arrives(chunks[i], m + i, h)
  BY DEF RowsRead
<1>2. chunks # <<>> /\ chunks' = Tail(chunks) /\ sent' = sent /\ damage' = damage
  BY DEF Reader!NextRow
<1>3. N \in Nat /\ Len(chunks) \in Nat /\ Len(chunks) >= 1 /\ c = chunks[1] /\ 1 \in 1..Len(chunks)
  BY <1>1, <1>2
<1>4. Arrives(c, m + 1, h) /\ m \in 0..N
  BY <1>1, <1>3
<1>5. /\ chunks' \in Seq(Seq(Tokens)) /\ Len(chunks') + 1 = Len(chunks)
      /\ \A i \in 1..Len(chunks') : chunks'[i] = chunks[i + 1]
  <2>1. /\ Tail(chunks) \in Seq(Seq(Tokens)) /\ Len(Tail(chunks)) = Len(chunks) - 1
        /\ \A i \in 1..Len(Tail(chunks)) : Tail(chunks)[i] = chunks[i + 1]
    BY <1>1, <1>2, HeadTailProperties
  <2> QED
    BY <1>2, <1>3, <2>1
<1>6. (m + 1) \in Nat /\ Len(chunks') + (m + 1) = Len(sent') + 1
  <2> DEFINE lc == Len(chunks)
             lt == Len(chunks')
             ln == Len(sent)
  <2>1. lc \in Nat /\ lt \in Nat /\ ln \in Nat /\ lt + 1 = lc /\ lc + m = ln + 1 /\ m \in Nat
    BY <1>1, <1>3, <1>5
  <2> HIDE DEF lc, lt, ln
  <2>2. m + 1 \in Nat /\ lt + (m + 1) = ln + 1
    BY <2>1
  <2> QED
    BY <1>2, <2>2 DEF lt, ln
<1>7. \A i \in 1..Len(chunks') : Arrives(chunks'[i], (m + 1) + i, h)
  <2> TAKE i \in 1..Len(chunks')
  <2>1. i + 1 \in 1..Len(chunks) /\ m + (i + 1) = (m + 1) + i
    BY <1>1, <1>3, <1>5
  <2>2. Arrives(chunks[i + 1], m + (i + 1), h)
    BY <1>1, <2>1
  <2> QED
    BY <1>5, <2>1, <2>2
<1>8. \A i \in 1..Len(chunks') : Arrives(chunks[i], m + 1 + i, h)' <=> Arrives(chunks'[i], m + 1 + i, h)
  BY <1>2 DEF Arrives, Outcome, WholeGives
<1>9. \A i : Among(i)' = Among(i)
  BY <1>2 DEF Among
<1>10. Reader!Good' = Reader!Good
  BY <1>2 DEF Reader!Good
<1> HIDE DEF c
<1>11. CASE header = "none" /\ Reader!HeaderEnd(c) = 0
  <2>1. header' = header /\ got' = got /\ last' = "error"
    BY <1>11 DEF Reader!NextRow, Reader!Reports, c
  <2>2. got = <<>> /\ (m = 0 \/ damage = 1)
    BY <1>1, <1>11 DEF RowsRead
  <2>3. damage = 1
    <3>1. CASE m = 0
      <4>1. m + 1 = 1
        BY <3>1
      <4>2. Arrives(c, 1, h)
        BY <1>4, <4>1
      <4> QED
        BY <1>11, <4>2 DEF Arrives, HeadedBy
    <3> QED
      BY <2>2, <3>1
  <2>4. \/ header' = h /\ m + 1 > 0 /\ Len(got') = Among(m + 1) /\ \A j \in 1..Among(m + 1) : got'[j] = Reader!Good[j]
        \/ header' = "none" /\ (m + 1 = 0 \/ damage = 1) /\ got' = <<>> /\ last' # "end"
    BY <1>11, <2>1, <2>2, <2>3
  <2>5. got' \in Seq(TableRow) /\ (last' = "end" => chunks' = <<>>)
    BY <1>1, <2>1
  <2> QED
    BY <1>1, <1>2, <1>5, <1>6, <1>7, <1>8, <1>9, <1>10, <2>4, <2>5 DEF RowsRead
<1>12. CASE ~(header = "none" /\ Reader!HeaderEnd(c) = 0)
  <2> DEFINE o == RowIn(c, h)
             good == Reader!Good
  <2>1. HeadedBy(c, m + 1, h) /\ RowIn(c, h) = Outcome(m + 1)
    <3>1. CASE HeadedBy(c, m + 1, h) /\ RowIn(c, h) = Outcome(m + 1)
      BY <3>1
    <3>2. CASE m + 1 = 1 /\ damage = 1 /\ Reader!HeaderEnd(c) = 0
      <4>1. m = 0
        BY <1>1, <3>2
      <4>2. header = "none"
        BY <4>1 DEF RowsRead
      <4> QED
        BY <1>12, <3>2, <4>2
    <3> QED
      BY <1>4, <3>1, <3>2 DEF Arrives
  <2>2. \/ header = "none" /\ m = 0 /\ Reader!HeaderOf(c) = h
        \/ header = h /\ m > 0 /\ Reader!HeaderEnd(c) = 0
    <3>1. CASE m = 0
      <4>1. m + 1 = 1 /\ ~(m > 0)
        BY <3>1
      <4>2. Reader!HeaderOf(c) = h
        BY <2>1, <4>1 DEF HeadedBy
      <4>3. header = "none"
        BY <4>1 DEF RowsRead
      <4> QED
        BY <3>1, <4>2, <4>3
    <3>2. CASE m # 0
      <4>1. m + 1 # 1 /\ m > 0
        BY <1>1, <3>2
      <4>2. Reader!HeaderEnd(c) = 0
        BY <2>1, <4>1 DEF HeadedBy
      <4>3. header = h
        BY <1>12, <4>2 DEF RowsRead
      <4> QED
        BY <4>1, <4>2, <4>3
    <3> QED
      BY <3>1, <3>2
  <2>3. (IF header = "none" THEN Reader!HeaderOf(c) ELSE header) = h
        /\ (IF header = "none" THEN Reader!HeaderEnd(c) + 1 ELSE 1) = Reader!HeaderEnd(c) + 1
    <3>1. CASE header = "none"
      BY <1>1, <2>2, <3>1
    <3>2. CASE header # "none"
      <4>1. Reader!HeaderEnd(c) = 0 /\ 0 + 1 = 1
        BY <2>2, <3>2
      <4> QED
        BY <2>2, <3>2, <4>1
    <3> QED
      BY <3>1, <3>2
  <2>4. header' = h /\ last' = o.t /\ got' = IF o.t = "item" THEN Append(got, o.values) ELSE got
    <3>1. LET start == IF header = "none" THEN Reader!HeaderEnd(c) + 1 ELSE 1
              hh == IF header = "none" THEN Reader!HeaderOf(c) ELSE header
          IN /\ header' = hh
             /\ Reader!Reports(Reader!RowAt(c, start, hh).t)
             /\ got' = IF Reader!RowAt(c, start, hh).t = "item"
                         THEN Append(got, Reader!RowAt(c, start, hh).values) ELSE got
      BY <1>12 DEF Reader!NextRow, c
    <3> QED
      BY <2>3, <3>1 DEF RowIn, Reader!Reports
  <2>5. /\ m + 1 = damage => o.t = "error"
        /\ m + 1 # damage /\ m + 1 <= N => o.t = "item" /\ o.values = sent[m + 1]
        /\ m + 1 # damage /\ ~(m + 1 <= N) => o.t = "end"
    BY <1>1, <2>1, GivesOne
  <2> HIDE DEF o
  <2>6. Len(got) = Among(m) /\ \A j \in 1..Among(m) : got[j] = good[j]
    <3>1. CASE m = 0
      <4>1. got = <<>>
        BY <1>1, <2>2, <3>1 DEF RowsRead
      <4>2. Among(m) = 0
        BY <1>1, <3>1, GoodIs
      <4> QED
        BY <4>1, <4>2
    <3>2. CASE m # 0
      BY <1>1, <2>2, <3>2 DEF RowsRead
    <3> QED
      BY <3>1, <3>2
  <2>7. /\ Among(m) \in Nat
        /\ m + 1 = damage \/ m = N => Among(m + 1) = Among(m)
        /\ m + 1 # damage /\ m < N =>
             /\ Among(m + 1) = Among(m) + 1
             /\ good[Among(m) + 1] = sent[m + 1]
    BY <1>1, <1>4, GoodIs
  <2> HIDE DEF good, N
  <2>8. got' \in Seq(TableRow) /\ Len(got') = Among(m + 1) /\ \A j \in 1..Among(m + 1) : got'[j] = good[j]
    <3>1. CASE m + 1 # damage /\ m < N
      <4>1. m + 1 <= N /\ m + 1 \in 1..N
        BY <1>3, <1>4, <3>1
      <4>2. got' = Append(got, sent[m + 1]) /\ sent[m + 1] \in TableRow
        BY <1>1, <2>4, <2>5, <3>1, <4>1 DEF N
      <4> DEFINE v == sent[m + 1]
                 a == Among(m)
      <4>3. /\ Append(got, v) \in Seq(TableRow) /\ Len(Append(got, v)) = Len(got) + 1
            /\ \A i \in 1..Len(got) + 1 :
                 Append(got, v)[i] = IF i <= Len(got) THEN got[i] ELSE v
        BY <1>1, <4>2, AppendProperties
      <4>4. Among(m + 1) = a + 1 /\ good[a + 1] = v /\ a \in Nat /\ Len(got) = a
            /\ \A j \in 1..a : got[j] = good[j]
        BY <2>6, <2>7, <3>1
      <4> HIDE DEF v, a
      <4>5. \A j \in 1..a + 1 : Append(got, v)[j] = good[j]
        <5> TAKE j \in 1..a + 1
        <5>1. Append(got, v)[j] = IF j <= a THEN got[j] ELSE v
          BY <4>3, <4>4
        <5>2. j \in 1..a \/ j = a + 1
          BY <4>4
        <5>3. CASE j \in 1..a
          <6>1. j <= a
            BY <4>4, <5>3
          <6> QED
            BY <4>4, <5>1, <5>3, <6>1
        <5>4. CASE j = a + 1
          <6>1. ~(j <= a)
            BY <4>4, <5>4
          <6> QED
            BY <4>4, <5>1, <5>4, <6>1
        <5> QED
          BY <5>2, <5>3, <5>4
      <4>6. got' = Append(got, v)
        BY <4>2 DEF v
      <4> QED
        BY <4>3, <4>4, <4>5, <4>6
    <3>2. CASE ~(m + 1 # damage /\ m < N)
      <4>1. m + 1 = damage \/ (m = N /\ m + 1 # damage /\ ~(m + 1 <= N))
        <5>1. N \in Nat /\ m \in Nat /\ m <= N
          BY <1>1, <1>3, <1>4
        <5>2. m < N \/ (m = N /\ ~(m + 1 <= N))
          BY <5>1
        <5> QED
          BY <3>2, <5>2
      <4>2. Among(m + 1) = Among(m) /\ o.t # "item"
        BY <2>5, <2>7, <4>1
      <4>3. got' = got
        BY <2>4, <4>2
      <4> QED
        BY <1>1, <2>6, <4>2, <4>3
    <3> QED
      BY <3>1, <3>2
  <2>9. last' = "end" => chunks' = <<>>
    <3> SUFFICES ASSUME last' = "end" PROVE chunks' = <<>>
      OBVIOUS
    <3>1. ~(m + 1 <= N)
      BY <2>4, <2>5
    <3>2. m = N
      BY <1>3, <1>4, <3>1
    <3>3. Len(chunks') = 0
      <4> DEFINE lc == Len(chunks)
                 lt == Len(chunks')
      <4>1. lc \in Nat /\ lt \in Nat /\ lt + 1 = lc /\ lc + m = N + 1 /\ m \in Nat
        BY <1>1, <1>3, <1>5
      <4> HIDE DEF lc, lt
      <4>2. lt = 0
        BY <3>2, <4>1
      <4> QED
        BY <4>2 DEF lt
    <3> QED
      BY <1>5, <3>3
  <2>10. m + 1 > 0
    BY <1>1
  <2>11. \/ header' = h /\ m + 1 > 0 /\ Len(got') = Among(m + 1) /\ \A j \in 1..Among(m + 1) : got'[j] = Reader!Good[j]
         \/ header' = "none" /\ (m + 1 = 0 \/ damage = 1) /\ got' = <<>> /\ last' # "end"
    BY <2>4, <2>8, <2>10 DEF good
  <2> QED
    BY <1>1, <1>2, <1>5, <1>6, <1>7, <1>8, <1>9, <1>10, <2>8, <2>9, <2>11 DEF RowsRead
<1> QED
  BY <1>11, <1>12

LEMMA RowsClosed ==
  ASSUME NEW h, NEW m, RowsRead(h, m), Reader!NextRowClosed
  PROVE  RowsRead(h, m)'
<1>1. UNCHANGED <<sent, damage, chunks, header, got>> /\ last' = "error"
  BY DEF Reader!NextRowClosed, Reader!Reports
<1>2. \A c, i : Arrives(c, i, h)' <=> Arrives(c, i, h)
  BY <1>1 DEF Arrives, Outcome, WholeGives
<1>3. \A i : Among(i)' = Among(i)
  BY <1>1 DEF Among
<1>4. Reader!Good' = Reader!Good
  BY <1>1 DEF Reader!Good
<1> QED
  BY <1>1, <1>2, <1>3, <1>4 DEF RowsRead

\* Bytes or rows, whichever the behaviour reads.
ReaderInv ==
  \/ reader = "bytes" /\ BytesRead
  \/ reader = "binary" /\ RowsInv

LEMMA ReaderStarts ==
  ASSUME Reader!Init
  PROVE  ReaderInv
<1>1. CASE Reader!InitBinary
  <2>1. reader = "binary"
    BY <1>1 DEF Reader!InitBinary
  <2> QED
    BY <1>1, <2>1, RowsStart DEF ReaderInv
<1>2. CASE Reader!InitBytes
  <2>1. reader = "bytes"
    BY <1>2 DEF Reader!InitBytes
  <2> QED
    BY <1>2, <2>1, BytesStart DEF ReaderInv
<1> QED
  BY <1>1, <1>2 DEF Reader!Init

LEMMA ReaderStep ==
  ASSUME ReaderInv, Reader!Next
  PROVE  ReaderInv'
<1>1. CASE Reader!NextRow
  <2>1. reader = "binary" /\ reader' = "binary"
    BY <1>1 DEF Reader!NextRow
  <2>2. PICK h, m : RowsRead(h, m)
    BY <2>1 DEF ReaderInv, RowsInv
  <2>3. RowsRead(h, m + 1)'
    BY <1>1, <2>2, RowTaken
  <2>4. RowsInv'
    BY <2>3 DEF RowsInv
  <2> QED
    BY <2>1, <2>4 DEF ReaderInv
<1>2. CASE Reader!NextRowClosed
  <2>1. reader = "binary" /\ reader' = "binary"
    BY <1>2 DEF Reader!NextRowClosed
  <2>2. PICK h, m : RowsRead(h, m)
    BY <2>1 DEF ReaderInv, RowsInv
  <2>3. RowsRead(h, m)'
    BY <1>2, <2>2, RowsClosed
  <2>4. RowsInv'
    BY <2>3 DEF RowsInv
  <2> QED
    BY <2>1, <2>4 DEF ReaderInv
<1>3. CASE \E n \in 1..2 : Reader!Read(n)
  <2>1. PICK n \in 1..2 : Reader!Read(n)
    BY <1>3
  <2>2. reader = "bytes" /\ reader' = "bytes" /\ n \in Nat
    BY <2>1 DEF Reader!Read
  <2>3. BytesRead
    BY <2>2 DEF ReaderInv
  <2>4. BytesRead'
    BY <2>1, <2>2, <2>3, BytesReadOn
  <2> QED
    BY <2>2, <2>4 DEF ReaderInv
<1> QED
  BY <1>1, <1>2, <1>3 DEF Reader!Next

LEMMA ReaderHolds ==
  ASSUME ReaderInv
  PROVE  Reader!ReadAsSent
BY BytesAsSent, RowsAsSent DEF ReaderInv

LEMMA ReaderKept ==
  ASSUME ReaderInv, UNCHANGED <<reader, sent, damage, chunks, header, cur, got, last>>
  PROVE  ReaderInv'
<1>1. BytesRead => BytesRead'
  BY DEF BytesRead
<1>2. ASSUME NEW h, NEW m, RowsRead(h, m) PROVE RowsRead(h, m)'
  <2>1. \A c, i : Arrives(c, i, h)' <=> Arrives(c, i, h)
    BY DEF Arrives, Outcome, WholeGives
  <2>2. \A i : Among(i)' = Among(i)
    BY DEF Among
  <2>3. Reader!Good' = Reader!Good
    BY DEF Reader!Good
  <2> QED
    BY <1>2, <2>1, <2>2, <2>3 DEF RowsRead
<1>3. RowsInv => RowsInv'
  BY <1>2 DEF RowsInv
<1> QED
  BY <1>1, <1>3 DEF ReaderInv

-----------------------------------------------------------------------------
(* What the server makes of the data of a COPY.                            *)

\* After its first p tokens, d goes on with x.
Bears(d, p, x) == p + Len(x) <= Len(d) /\ \A j \in 1..Len(x) : d[p + j] = x[j]

LEMMA BearsParts ==
  ASSUME NEW d \in Seq(Tokens), NEW p \in Nat, NEW ss \in Seq(Seq(Tokens)),
         Bears(d, p, A!FlattenSeq(ss)), NEW i \in Nat, i + 1 <= Len(ss)
  PROVE  /\ Off(ss, i) \in Nat /\ Off(ss, i + 1) = Off(ss, i) + Len(ss[i + 1])
         /\ Len(ss[i + 1]) \in Nat
         /\ Bears(d, p + Off(ss, i), ss[i + 1])
<1> DEFINE fl == A!FlattenSeq(ss)
           x == ss[i + 1]
           o == Off(ss, i)
           lx == Len(x)
<1>1. /\ o \in Nat /\ Off(ss, i + 1) = o + lx /\ Off(ss, i + 1) <= Len(fl)
      /\ \A j \in 1..lx : fl[o + j] = x[j]
  BY FlatAt
<1>2. fl \in Seq(Tokens) /\ Len(fl) \in Nat /\ Len(d) \in Nat
  <2>1. fl \in Seq(Tokens)
    BY A!FlattenType
  <2> HIDE DEF fl
  <2> QED
    BY <2>1
<1>3. x \in Seq(Tokens) /\ lx \in Nat
  <2>1. Len(ss) \in Nat /\ i + 1 \in 1..Len(ss)
    OBVIOUS
  <2>2. x \in Seq(Tokens)
    BY <2>1
  <2> HIDE DEF x
  <2> QED
    BY <2>2
<1>4. p + Len(fl) <= Len(d) /\ \A j \in 1..Len(fl) : d[p + j] = fl[j]
  BY DEF Bears
<1> HIDE DEF fl, o, lx
<1>5. p + o + lx <= Len(d)
  BY <1>1, <1>2, <1>3, <1>4
<1>6. ASSUME NEW j \in 1..lx PROVE d[p + o + j] = x[j]
  <2>1. o + j \in 1..Len(fl) /\ p + (o + j) = p + o + j
    BY <1>1, <1>2, <1>3
  <2>2. d[p + (o + j)] = fl[o + j]
    BY <1>4, <2>1
  <2> QED
    BY <1>1, <2>1, <2>2
<1> QED
  BY <1>1, <1>3, <1>5, <1>6 DEF Bears, o, lx

LEMMA BearsBoth ==
  ASSUME NEW d \in Seq(Tokens), NEW p \in Nat, NEW x \in Seq(Tokens), NEW y \in Seq(Tokens),
         Bears(d, p, x \o y)
  PROVE  /\ Bears(d, p, x) /\ Bears(d, p + Len(x), y)
         /\ Len(x \o y) = Len(x) + Len(y) /\ Len(x) \in Nat /\ Len(y) \in Nat
<1> DEFINE lx == Len(x)
           ly == Len(y)
           z == x \o y
<1>1. /\ z \in Seq(Tokens) /\ lx \in Nat /\ ly \in Nat /\ Len(z) = lx + ly
      /\ \A i \in 1..lx : z[i] = x[i]
      /\ \A i \in 1..ly : z[lx + i] = y[i]
  BY TokensConcat
<1>2. p + Len(z) <= Len(d) /\ \A j \in 1..Len(z) : d[p + j] = z[j]
  BY DEF Bears
<1>0. Len(d) \in Nat
  OBVIOUS
<1> HIDE DEF z, lx, ly
<1>3. p + lx <= Len(d) /\ p + lx + ly <= Len(d)
  BY <1>0, <1>1, <1>2
<1>4. ASSUME NEW j \in 1..lx PROVE d[p + j] = x[j]
  <2>1. j \in 1..Len(z)
    BY <1>1
  <2> QED
    BY <1>1, <1>2, <2>1
<1>5. ASSUME NEW j \in 1..ly PROVE d[p + lx + j] = y[j]
  <2>1. lx + j \in 1..Len(z) /\ p + (lx + j) = p + lx + j
    BY <1>1
  <2>2. d[p + (lx + j)] = z[lx + j]
    BY <1>2, <2>1
  <2> QED
    BY <1>1, <2>1, <2>2
<1> QED
  BY <1>1, <1>3, <1>4, <1>5 DEF Bears, lx, ly, z

\* One field more.
Spot == [next : Nat, values : Seq(Int)]

LEMMA NextFieldIs ==
  ASSUME NEW d \in Seq(Tokens), NEW r \in Spot
  PROVE  Writer!NextField(d, r) \in Spot
<1>1. r.next \in Nat /\ r.values \in Seq(Int)
  BY DEF Spot
<1>2. CASE Writer!WholeAt(d, r.next)
  <2> DEFINE k == r.next
  <2>1. k \in DOMAIN d
    BY <1>2 DEF Writer!WholeAt, Writer!FieldAt
  <2>2. Writer!SizeAt(d, k) \in Nat
    BY DEF Writer!SizeAt
  <2>3. ASSUME NEW j \in DOMAIN d PROVE d[j].n \in Int
    <3>1. d[j] \in Tokens
      OBVIOUS
    <3> QED
      BY <3>1 DEF Tokens
  <2>4. Writer!ValueAt(d, k) \in Int
    <3>1. CASE d[k].n = -1
      BY <3>1 DEF Writer!ValueAt, Writer!Null
    <3>2. CASE d[k].n = 0
      BY <3>2 DEF Writer!ValueAt, Writer!Empty
    <3>3. CASE d[k].n # -1 /\ d[k].n # 0
      <4>1. Writer!ValueAt(d, k) = d[k + 1].n
        BY <3>3 DEF Writer!ValueAt
      <4>2. k + 1 \in DOMAIN d
        BY <1>2, <3>3 DEF Writer!WholeAt, Writer!SizeAt
      <4> QED
        BY <4>1, <4>2, <2>3
    <3> QED
      BY <3>1, <3>2, <3>3
  <2>5. Append(r.values, Writer!ValueAt(d, k)) \in Seq(Int) /\ k + Writer!SizeAt(d, k) \in Nat
    BY <1>1, <2>2, <2>4
  <2> QED
    BY <1>2, <2>5 DEF Writer!NextField, Spot
<1>3. CASE ~Writer!WholeAt(d, r.next)
  BY <1>3 DEF Writer!NextField, Spot
<1> QED
  BY <1>2, <1>3

\* The spots of the fields of d from k on, and the values before each.
Spotting(d, k, m, F) ==
  /\ F \in [0..m -> Spot]
  /\ F[0] = [next |-> k, values |-> <<>>]
  /\ \A c \in 1..m : F[c] = Writer!NextField(d, F[c - 1])

LEMMA SpotsAre ==
  ASSUME NEW d \in Seq(Tokens), NEW k \in Nat, NEW m \in Nat
  PROVE  \E F : Spotting(d, k, m, F) /\ Writer!FieldsAt(d, k, m) = F[m]
<1> DEFINE a == [next |-> k, values |-> <<>>]
           g == [r \in Spot |-> Writer!NextField(d, r)]
           Is(F) == F = [c \in 0..m |->
                           IF c = 0 THEN [next |-> k, values |-> <<>>]
                           ELSE Writer!NextField(d, F[c - 1])]
           h == CHOOSE F : Is(F)
<1>1. a \in Spot /\ g \in [Spot -> Spot]
  BY NextFieldIs DEF Spot
<1>2. PICK f \in [0..m -> Spot] : f[0] = a /\ \A n \in 1..m : f[n] = g[f[n - 1]]
  <2> HIDE DEF a, g
  <2>1. \E f : Iterates(Spot, a, g, m, f)
    BY <1>1, Iteration
  <2> QED
    BY <2>1 DEF Iterates
<1>3. Is(f)
  <2> DEFINE e == [c \in 0..m |-> IF c = 0 THEN [next |-> k, values |-> <<>>]
                                  ELSE Writer!NextField(d, f[c - 1])]
  <2>1. \A n \in 0..m : f[n] = e[n]
    <3> TAKE n \in 0..m
    <3>1. CASE n = 0
      BY <1>2, <3>1
    <3>2. CASE n # 0
      <4>1. n \in 1..m /\ n - 1 \in 0..m
        BY <3>2
      <4>2. f[n] = Writer!NextField(d, f[n - 1])
        BY <1>2, <4>1
      <4> QED
        BY <3>2, <4>2
    <3> QED
      BY <3>1, <3>2
  <2>2. DOMAIN e = 0..m /\ DOMAIN f = 0..m
    BY <1>2
  <2> HIDE DEF e
  <2>3. e \in [0..m -> Spot]
    BY <1>2, <2>1, <2>2 DEF e
  <2>4. f = [n \in 0..m |-> f[n]] /\ e = [n \in 0..m |-> e[n]]
    BY <1>2, <2>3
  <2>5. [n \in 0..m |-> f[n]] = [n \in 0..m |-> e[n]]
    BY <2>1
  <2>6. f = e
    BY <2>4, <2>5, Zenon
  <2> QED
    BY <2>6 DEF e
<1>4. Is(h)
  <2> HIDE DEF Is
  <2> QED
    BY <1>3
<1>6. Writer!FieldsAt(d, k, m) = h[m]
  BY Zenon DEF Writer!FieldsAt
<1> HIDE DEF h
<1>5. Spotting(d, k, m, h)
  <2>1. DOMAIN h = 0..m /\ h[0] = a
    BY <1>4
  <2>2. \A n \in 1..m : h[n] = Writer!NextField(d, h[n - 1])
    <3> TAKE n \in 1..m
    <3>1. n \in 0..m /\ n # 0
      OBVIOUS
    <3> QED
      BY <1>4, <3>1
  <2> HIDE DEF h, Is
  <2>3. h = [n \in 0..m |-> h[n]]
    BY <1>4 DEF Is
  <2> DEFINE T == {n \in Nat : n <= m => h[n] \in Spot}
  <2>4. 0 \in T
    BY <1>1, <2>1
  <2>5. ASSUME NEW n \in Nat, n \in T PROVE n + 1 \in T
    <3> SUFFICES ASSUME n + 1 <= m PROVE h[n + 1] \in Spot
      OBVIOUS
    <3>1. n <= m /\ n + 1 \in 1..m /\ (n + 1) - 1 = n
      OBVIOUS
    <3>2. h[n] \in Spot
      BY <2>5, <3>1
    <3> QED
      BY <2>2, <3>1, <3>2, NextFieldIs
  <2> HIDE DEF T
  <2>6. \A n \in Nat : n \in T
    BY <2>4, <2>5, A!NatSetInduction
  <2>7. \A n \in 0..m : h[n] \in Spot
    BY <2>6 DEF T
  <2>8. h \in [0..m -> Spot]
    BY <2>3, <2>7
  <2> QED
    BY <2>1, <2>2, <2>8 DEF Spotting
<1> QED
  BY <1>5, <1>6

LEMMA SameField == \A v : Writer!Field(v) = Reader!Field(v)
BY DEF Writer!Field, Reader!Field, Writer!Token, Reader!Token, Writer!Null, Reader!Null

\* One field, and what comes of it.
LEMMA FieldBorne ==
  ASSUME NEW d \in Seq(Tokens), NEW p \in Nat, NEW v \in Cells, Bears(d, p, Reader!Field(v)),
         NEW r \in Spot, r.next = p + 1
  PROVE  Writer!NextField(d, r) =
           [next |-> p + 1 + Len(Reader!Field(v)), values |-> Append(r.values, v)]
<1> DEFINE f == Reader!Field(v)
           k == p + 1
<1>1. v \in Int /\ Len(d) \in Nat /\ DOMAIN d = 1..Len(d)
  BY DEF Cells
<1>2. CASE v = -1
  <2>1. f = <<[t |-> "len", n |-> -1]>>
    BY <1>2 DEF Reader!Field, Reader!Token, Reader!Null
  <2>2. Len(f) = 1 /\ f[1].t = "len" /\ f[1].n = -1
    BY <2>1
  <2> HIDE DEF f
  <2>3. p + 1 <= Len(d) /\ d[p + 1] = f[1]
    BY <2>2 DEF Bears, f
  <2>4. k \in DOMAIN d /\ d[k].t = "len" /\ d[k].n = -1
    BY <1>1, <2>2, <2>3
  <2>5. Writer!SizeAt(d, k) = 1 /\ Writer!ValueAt(d, k) = v
    BY <1>2, <2>4 DEF Writer!SizeAt, Writer!ValueAt, Writer!Null
  <2>6. Writer!WholeAt(d, k)
    BY <2>4, <2>5 DEF Writer!WholeAt, Writer!FieldAt
  <2> QED
    BY <2>2, <2>5, <2>6 DEF Writer!NextField, f
<1>3. CASE v # -1
  <2>1. f = <<[t |-> "len", n |-> 1], [t |-> "value", n |-> v]>>
    BY <1>3 DEF Reader!Field, Reader!Token, Reader!Null
  <2>2. Len(f) = 2 /\ f[1].t = "len" /\ f[1].n = 1 /\ f[2].t = "value" /\ f[2].n = v
    BY <2>1
  <2> HIDE DEF f
  <2>3. p + 2 <= Len(d) /\ d[p + 1] = f[1] /\ d[p + 2] = f[2]
    BY <2>2 DEF Bears, f
  <2>4. /\ k \in DOMAIN d /\ d[k].t = "len" /\ d[k].n = 1
        /\ k + 1 \in DOMAIN d /\ d[k + 1].t = "value" /\ d[k + 1].n = v
    <3>1. k \in 1..Len(d) /\ k + 1 \in 1..Len(d) /\ k + 1 = p + 2
      BY <1>1, <2>3
    <3> QED
      BY <1>1, <2>2, <2>3, <3>1
  <2>5. Writer!SizeAt(d, k) = 2 /\ Writer!ValueAt(d, k) = v
    BY <2>4 DEF Writer!SizeAt, Writer!ValueAt
  <2>6. Writer!WholeAt(d, k)
    BY <2>4 DEF Writer!WholeAt, Writer!FieldAt
  <2> QED
    BY <2>2, <2>5, <2>6 DEF Writer!NextField, f
<1> QED
  BY <1>2, <1>3

\* ss are the fields of the first of the cells; all of them are read.
Spells(ss, cells) == \A i \in 1..Len(ss) : ss[i] = Reader!Field(cells[i])
Spelled(F, k, ss, cells) ==
  \A i \in Nat : i <= Len(ss) =>
    F[i] = [next |-> k + Off(ss, i), values |-> [j \in 1..i |-> cells[j]]]

\* The fields of as many cells as ss has, end to end.
LEMMA FieldsBorne ==
  ASSUME NEW d \in Seq(Tokens), NEW p \in Nat, NEW k, k = p + 1,
         NEW m \in Nat, NEW F, Spotting(d, k, m, F),
         NEW cells \in TableRow, NEW ss \in Seq(Seq(Tokens)), Len(ss) <= m, Len(ss) <= Columns,
         Spells(ss, cells), Bears(d, p, A!FlattenSeq(ss))
  PROVE  Spelled(F, k, ss, cells)
<1>0. \A i \in 1..Len(ss) : ss[i] = Reader!Field(cells[i])
  BY DEF Spells
<1> DEFINE T == {i \in Nat : i <= Len(ss) =>
                   F[i] = [next |-> p + 1 + Off(ss, i), values |-> [j \in 1..i |-> cells[j]]]}
<1>1. Columns \in Nat \ {0} /\ Len(d) \in Nat /\ Len(ss) \in Nat
  BY ColumnsAre
<1>2. 0 \in T
  <2>1. Off(ss, 0) = 0
    BY OffIs
  <2>2. F[0] = [next |-> p + 1, values |-> <<>>] /\ p + 1 + 0 = p + 1
    BY DEF Spotting
  <2>3. [j \in 1..0 |-> cells[j]] = <<>>
    OBVIOUS
  <2> QED
    BY <2>1, <2>2, <2>3
<1>3. ASSUME NEW i \in Nat, i \in T PROVE i + 1 \in T
  <2> SUFFICES ASSUME i + 1 <= Len(ss)
               PROVE  F[i + 1] = [next |-> p + 1 + Off(ss, i + 1),
                                  values |-> [j \in 1..i + 1 |-> cells[j]]]
    OBVIOUS
  <2>1. /\ i <= Len(ss) /\ i + 1 \in 1..Len(ss) /\ i + 1 \in 1..m /\ i + 1 \in 1..Columns
        /\ (i + 1) - 1 = i /\ i \in 0..m
    BY <1>1
  <2>2. F[i] = [next |-> p + 1 + Off(ss, i), values |-> [j \in 1..i |-> cells[j]]]
    BY <1>3, <2>1
  <2> DEFINE o == Off(ss, i)
             v == cells[i + 1]
             lf == Len(ss[i + 1])
  <2>3. /\ o \in Nat /\ Off(ss, i + 1) = o + lf /\ lf \in Nat
        /\ Bears(d, p + o, ss[i + 1])
    BY BearsParts
  <2>4. v \in Cells /\ ss[i + 1] = Reader!Field(v)
    BY <1>0, <2>1 DEF TableRow
  <2>5. F[i] \in Spot
    BY <2>1 DEF Spotting
  <2>6. F[i + 1] = Writer!NextField(d, F[i])
    BY <2>1 DEF Spotting
  <2> HIDE DEF o, v, lf
  <2>7. p + o \in Nat /\ F[i].next = (p + o) + 1 /\ F[i].values = [j \in 1..i |-> cells[j]]
    BY <2>2, <2>3 DEF o
  <2>8. Bears(d, p + o, Reader!Field(v))
    BY <2>3, <2>4
  <2>9. F[i + 1] = [next |-> (p + o) + 1 + Len(Reader!Field(v)), values |-> Append(F[i].values, v)]
    BY <2>4, <2>5, <2>6, <2>7, <2>8, FieldBorne
  <2>10. (p + o) + 1 + Len(Reader!Field(v)) = p + 1 + Off(ss, i + 1)
    <3>1. Len(Reader!Field(v)) = lf
      BY <2>4 DEF lf
    <3> QED
      BY <2>3, <3>1
  <2>11. Append([j \in 1..i |-> cells[j]], v) = [j \in 1..i + 1 |-> cells[j]]
    <3> DEFINE s == [j \in 1..i |-> cells[j]]
               t == [j \in 1..i + 1 |-> cells[j]]
    <3>1. \A j \in 1..Columns : cells[j] \in Cells
      BY DEF TableRow
    <3>0. \A j \in 1..i + 1 : j \in 1..Columns
      BY <1>1, <2>1
    <3>8. 1..i \subseteq 1..i + 1
      OBVIOUS
    <3>2. s \in [1..i -> Cells] /\ t \in [1..i + 1 -> Cells]
      BY <3>0, <3>1, <3>8
    <3>3. s \in Seq(Cells) /\ Len(s) = i /\ t \in Seq(Cells) /\ Len(t) = i + 1
      BY <3>2, SeqDef
    <3>5. Append(s, v) \in Seq(Cells) /\ Len(Append(s, v)) = i + 1
      BY <2>4, <3>3
    <3>6. \A j \in 1..i + 1 : Append(s, v)[j] = t[j]
      BY <2>4, <3>3, AppendProperties DEF v
    <3> HIDE DEF s, t
    <3>7. Append(s, v) = t
      BY <3>3, <3>5, <3>6, SeqEqual
    <3> QED
      BY <3>7 DEF s, t
  <2> QED
    BY <2>7, <2>9, <2>10, <2>11
<1> HIDE DEF T
<1>4. \A i \in Nat : i \in T
  BY <1>2, <1>3, A!NatSetInduction
<1>5. \A i : k + Off(ss, i) = p + 1 + Off(ss, i)
  OBVIOUS
<1> QED
  BY <1>4, <1>5 DEF T, Spelled

\* Once a field is not there, none is.
LEMMA NoMoreFields ==
  ASSUME NEW d \in Seq(Tokens), NEW k \in Nat, NEW m \in Nat, NEW F, Spotting(d, k, m, F),
         NEW i \in 0..m, F[i].next = 0
  PROVE  F[m].next = 0
<1> DEFINE T == {n \in Nat : i <= n /\ n <= m => F[n].next = 0}
<1>1. 0 \in T
  OBVIOUS
<1>2. ASSUME NEW n \in Nat, n \in T PROVE n + 1 \in T
  <2> SUFFICES ASSUME i <= n + 1, n + 1 <= m PROVE F[n + 1].next = 0
    OBVIOUS
  <2>1. CASE i = n + 1
    BY <2>1
  <2>2. CASE i # n + 1
    <3>1. i <= n /\ n <= m /\ n + 1 \in 1..m /\ (n + 1) - 1 = n
      BY <2>2
    <3>2. F[n].next = 0
      BY <1>2, <3>1
    <3>3. ~Writer!WholeAt(d, F[n].next)
      BY <3>2 DEF Writer!WholeAt, Writer!FieldAt
    <3>4. F[n + 1] = Writer!NextField(d, F[n])
      BY <3>1 DEF Spotting
    <3> QED
      BY <3>3, <3>4 DEF Writer!NextField
  <2> QED
    BY <2>1, <2>2
<1> HIDE DEF T
<1>3. \A n \in Nat : n \in T
  BY <1>1, <1>2, A!NatSetInduction
<1>4. m \in T /\ i <= m
  BY <1>3
<1> QED
  BY <1>4 DEF T

\* A row, and what is left of one whose c-th value does not convert.
LEMMA EncodedIs ==
  ASSUME NEW cells \in TableRow
  PROVE  LET x == Writer!EncodedRow(cells)
         IN /\ x \in Seq(Tokens) /\ Len(RowFlat(cells)) \in Nat
            /\ Len(x) = 1 + Len(RowFlat(cells)) /\ x[1].t = "count"
            /\ \A j \in 1..Len(RowFlat(cells)) : x[1 + j] = RowFlat(cells)[j]
<1>1. Writer!EncodedRow(cells) = Reader!RowChunk(cells, FALSE)
  <2>1. Writer!FlattenSeq([c \in 1..Columns |-> Writer!Field(cells[c])])
          = Reader!FlattenSeq([c \in 1..Columns |-> Reader!Field(cells[c])])
    <3>1. \A ss : Writer!FlattenSeq(ss) = Reader!FlattenSeq(ss)
      BY DEF Writer!FlattenSeq, Reader!FlattenSeq
    <3>2. [c \in 1..Columns |-> Writer!Field(cells[c])] = [c \in 1..Columns |-> Reader!Field(cells[c])]
      BY SameField
    <3> QED
      BY <3>1, <3>2
  <2> QED
    BY <2>1 DEF Writer!EncodedRow, Writer!Fields, Reader!RowChunk, Writer!Token, Reader!Token
<1> DEFINE x == Reader!RowChunk(cells, FALSE)
<1>2. /\ x \in Seq(Tokens) /\ Len(x) = 1 + Len(RowFlat(cells)) /\ Len(RowFlat(cells)) \in Nat \ {0}
      /\ x[1] = [t |-> "count", n |-> CountIs(FALSE)]
      /\ \A j \in 1..Len(RowFlat(cells)) : x[1 + j] = RowFlat(cells)[j]
  BY RowChunkIs
<1> HIDE DEF x
<1>3. x[1].t = "count"
  BY <1>2
<1>4. Writer!EncodedRow(cells) = x
  BY <1>1 DEF x
<1> QED
  BY <1>2, <1>3, <1>4

LEMMA RowBorne ==
  ASSUME NEW d \in Seq(Tokens), NEW p \in Nat, NEW cells \in TableRow,
         Bears(d, p, Writer!EncodedRow(cells))
  PROVE  /\ p + 1 <= Len(d) /\ d[p + 1].t = "count"
         /\ Writer!FieldsAt(d, (p + 1) + 1, Columns) =
              [next |-> p + Len(Writer!EncodedRow(cells)) + 1, values |-> cells]
<1> DEFINE x == Writer!EncodedRow(cells)
           fl == RowFlat(cells)
           lx == Len(x)
           lf == Len(fl)
<1>1. /\ x \in Seq(Tokens) /\ lf \in Nat /\ lx = 1 + lf /\ x[1].t = "count"
      /\ \A j \in 1..lf : x[1 + j] = fl[j]
  BY EncodedIs
<1>2. p + lx <= Len(d) /\ (\A j \in 1..lx : d[p + j] = x[j]) /\ Len(d) \in Nat
  BY DEF Bears
<1> HIDE DEF x, lx
<1>3. Bears(d, p + 1, fl)
  <2>1. (p + 1) + lf <= Len(d)
    <3> HIDE DEF lf
    <3> QED
      BY <1>1, <1>2
  <2>2. ASSUME NEW j \in 1..lf PROVE d[(p + 1) + j] = fl[j]
    <3> HIDE DEF lf
    <3>1. 1 + j \in 1..lx /\ p + (1 + j) = (p + 1) + j
      BY <1>1
    <3>2. d[p + (1 + j)] = x[1 + j]
      BY <1>2, <3>1
    <3> QED
      BY <1>1, <3>1, <3>2
  <2> QED
    BY <2>1, <2>2 DEF Bears
<1>4. p + 1 <= Len(d) /\ d[p + 1].t = "count"
  <2> HIDE DEF lf
  <2>1. 1 \in 1..lx /\ p + 1 <= Len(d)
    BY <1>1, <1>2
  <2> QED
    BY <1>1, <1>2, <2>1
<1> DEFINE ss == Parts(cells)
<1>5. /\ ss \in Seq(Seq(Tokens)) /\ Len(ss) = Columns
      /\ \A i \in 1..Len(ss) : ss[i] = Reader!Field(cells[i])
      /\ Off(ss, Len(ss)) = lf
  <2>1. ss \in Seq(Seq(Tokens)) /\ Len(ss) = Columns
        /\ \A i \in 1..Columns : ss[i] = Reader!Field(cells[i])
    BY PartsAre
  <2>2. Off(ss, Len(ss)) = Len(A!FlattenSeq(ss))
    BY <2>1, OffIs
  <2> QED
    BY <2>1, <2>2 DEF RowFlat
<1>6. Columns \in Nat /\ p + 1 \in Nat /\ (p + 1) + 1 \in Nat
  BY ColumnsAre
<1>7. PICK F : Spotting(d, (p + 1) + 1, Columns, F) /\ Writer!FieldsAt(d, (p + 1) + 1, Columns) = F[Columns]
  BY <1>6, SpotsAre
<1>8. Bears(d, p + 1, A!FlattenSeq(ss))
  BY <1>3 DEF RowFlat
<1> HIDE DEF ss
<1>9. F[Columns] = [next |-> (p + 1) + 1 + Off(ss, Columns), values |-> [j \in 1..Columns |-> cells[j]]]
  <2>1. Len(ss) <= Columns /\ Columns <= Len(ss)
    BY <1>5, <1>6
  <2>2. \A i \in Nat : i <= Len(ss) =>
           F[i] = [next |-> (p + 1) + 1 + Off(ss, i), values |-> [j \in 1..i |-> cells[j]]]
    <3> DEFINE pp == p + 1
               k == pp + 1
    <3>1. /\ Spotting(d, k, Columns, F) /\ k = pp + 1 /\ pp \in Nat /\ Bears(d, pp, A!FlattenSeq(ss))
          /\ ss \in Seq(Seq(Tokens)) /\ Spells(ss, cells)
      BY <1>5, <1>6, <1>7, <1>8 DEF Spells
    <3> HIDE DEF k, pp
    <3>2. Spelled(F, k, ss, cells)
      BY <1>6, <2>1, <3>1, FieldsBorne
    <3> QED
      BY <3>2 DEF k, pp, Spelled
  <2> QED
    BY <1>6, <2>1, <2>2
<1>10. [j \in 1..Columns |-> cells[j]] = cells
  BY DEF TableRow
<1>11. (p + 1) + 1 + Off(ss, Columns) = p + lx + 1
  <2>1. Off(ss, Columns) = lf
    BY <1>5
  <2> HIDE DEF lf
  <2> QED
    BY <1>1, <2>1
<1> QED
  BY <1>4, <1>7, <1>9, <1>10, <1>11 DEF lx, x

Remnant(cells, c, partial, n) ==
  <<Writer!Token("count", Columns)>> \o Writer!Fields(cells, c - 1) \o <<Writer!Token("len", 0)>>
    \o (IF partial THEN <<Writer!Token("value", n)>> ELSE <<>>)

LEMMA RemnantIs ==
  ASSUME NEW cells \in TableRow, NEW c \in 1..Columns, NEW partial \in BOOLEAN, NEW n \in Int
  PROVE  /\ Remnant(cells, c, partial, n) \in Seq(Tokens)
         /\ Len(Remnant(cells, c, partial, n)) \in Nat /\ Len(Remnant(cells, c, partial, n)) >= 1
         /\ Remnant(cells, c, partial, n)[1].t = "count"
         /\ \E ss \in Seq(Seq(Tokens)) :
              /\ Len(ss) = c - 1 /\ \A i \in 1..Len(ss) : ss[i] = Reader!Field(cells[i])
              /\ Remnant(cells, c, partial, n) =
                   ((<<Writer!Token("count", Columns)>> \o A!FlattenSeq(ss))
                      \o <<Writer!Token("len", 0)>>)
                        \o (IF partial THEN <<Writer!Token("value", n)>> ELSE <<>>)
<1> DEFINE ss == [i \in 1..c - 1 |-> Reader!Field(cells[i])]
           a == Writer!Token("count", Columns)
           z == Writer!Token("len", 0)
           fl == A!FlattenSeq(ss)
           y == IF partial THEN <<Writer!Token("value", n)>> ELSE <<>>
           u == <<a>>
           v == <<z>>
           x == ((u \o fl) \o v) \o y
<1>1. Columns \in Nat \ {0} /\ c \in Nat /\ c - 1 \in Nat
  BY ColumnsAre
<1>2. ss \in Seq(Seq(Tokens)) /\ Len(ss) = c - 1 /\ \A i \in 1..Len(ss) : ss[i] = Reader!Field(cells[i])
  <2>1. \A i \in 1..c - 1 : Reader!Field(cells[i]) \in Seq(Tokens)
    <3> TAKE i \in 1..c - 1
    <3>1. i \in 1..Columns
      BY <1>1
    <3>2. cells[i] \in Cells
      BY <3>1 DEF TableRow
    <3> QED
      BY <3>2, FieldIs
  <2>2. ss \in [1..c - 1 -> Seq(Tokens)]
    BY <2>1
  <2>3. \A i \in 1..c - 1 : ss[i] = Reader!Field(cells[i])
    OBVIOUS
  <2> HIDE DEF ss
  <2>4. ss \in Seq(Seq(Tokens)) /\ Len(ss) = c - 1
    BY <1>1, <2>2, SeqDef
  <2> QED
    BY <2>3, <2>4
<1>3. Writer!Fields(cells, c - 1) = fl
  <2>1. \A tt : Writer!FlattenSeq(tt) = A!FlattenSeq(tt)
    BY DEF Writer!FlattenSeq, A!FlattenSeq
  <2>2. [i \in 1..c - 1 |-> Writer!Field(cells[i])] = ss
    BY SameField
  <2> HIDE DEF ss
  <2> QED
    BY <2>1, <2>2 DEF Writer!Fields
<1> HIDE DEF ss
<1>4. fl \in Seq(Tokens)
  BY <1>2, A!FlattenType
<1> HIDE DEF fl
<1>5. /\ a \in Tokens /\ a.t = "count" /\ z \in Tokens
      /\ Writer!Token("value", n) \in Tokens
  <2>1. Columns \in Int /\ 0 \in Int
    BY <1>1
  <2> QED
    BY <2>1 DEF Writer!Token, Tokens, Names
<1>6. y \in Seq(Tokens)
  <2> HIDE DEF a, z
  <2>1. CASE partial
    BY <1>5, <2>1
  <2>2. CASE ~partial
    BY <2>2
  <2> QED
    BY <2>1, <2>2
<1> HIDE DEF y, a, z
<1>7. u \in Seq(Tokens) /\ Len(u) = 1 /\ u[1] = a /\ v \in Seq(Tokens)
  BY <1>5
<1> HIDE DEF u, v
<1>8. u \o fl \in Seq(Tokens) /\ Len(u \o fl) = 1 + Len(fl) /\ (u \o fl)[1] = a /\ Len(fl) \in Nat
  <2>1. 1 \in 1..Len(u)
    BY <1>7
  <2>2. /\ u \o fl \in Seq(Tokens) /\ Len(u \o fl) = Len(u) + Len(fl) /\ Len(fl) \in Nat
        /\ \A i \in 1..Len(u) : (u \o fl)[i] = u[i]
    BY <1>4, <1>7, TokensConcat
  <2> QED
    BY <1>7, <2>1, <2>2
<1> DEFINE s == u \o fl
<1> HIDE DEF s
<1>9. s \in Seq(Tokens) /\ Len(s) \in Nat /\ Len(s) >= 1 /\ s[1] = a
  BY <1>8 DEF s
<1>10. /\ s \o v \in Seq(Tokens) /\ Len(s \o v) \in Nat /\ Len(s \o v) >= 1 /\ (s \o v)[1] = a
  <2>1. /\ s \o v \in Seq(Tokens) /\ Len(s \o v) = Len(s) + Len(v) /\ Len(v) \in Nat
        /\ \A i \in 1..Len(s) : (s \o v)[i] = s[i]
    BY <1>7, <1>9, TokensConcat
  <2>2. 1 \in 1..Len(s)
    BY <1>9
  <2> DEFINE ls == Len(s)
             lv == Len(v)
  <2>3. ls \in Nat /\ ls >= 1 /\ lv \in Nat /\ Len(s \o v) = ls + lv
    BY <1>9, <2>1
  <2> HIDE DEF ls, lv
  <2>4. Len(s \o v) \in Nat /\ Len(s \o v) >= 1
    BY <2>3
  <2> QED
    BY <1>9, <2>1, <2>2, <2>4
<1> DEFINE r == s \o v
<1> HIDE DEF r
<1>11. r \in Seq(Tokens) /\ Len(r) \in Nat /\ Len(r) >= 1 /\ r[1] = a
  BY <1>10 DEF r
<1>12. /\ r \o y \in Seq(Tokens) /\ Len(r \o y) \in Nat /\ Len(r \o y) >= 1 /\ (r \o y)[1] = a
  <2>1. /\ r \o y \in Seq(Tokens) /\ Len(r \o y) = Len(r) + Len(y) /\ Len(y) \in Nat
        /\ \A i \in 1..Len(r) : (r \o y)[i] = r[i]
    BY <1>6, <1>11, TokensConcat
  <2>2. 1 \in 1..Len(r)
    BY <1>11
  <2> DEFINE ls == Len(r)
             lv == Len(y)
  <2>3. ls \in Nat /\ ls >= 1 /\ lv \in Nat /\ Len(r \o y) = ls + lv
    BY <1>11, <2>1
  <2> HIDE DEF ls, lv
  <2>4. Len(r \o y) \in Nat /\ Len(r \o y) >= 1
    BY <2>3
  <2> QED
    BY <1>11, <2>1, <2>2, <2>4
<1>13. x = r \o y
  BY DEF r, s
<1>14. Remnant(cells, c, partial, n) = x
  BY <1>3 DEF Remnant, u, v, a, z, y
<1> HIDE DEF x
<1>15. x = ((<<a>> \o fl) \o <<z>>) \o y
  BY DEF x, u, v
<1>16. /\ Remnant(cells, c, partial, n) \in Seq(Tokens)
       /\ Len(Remnant(cells, c, partial, n)) \in Nat /\ Len(Remnant(cells, c, partial, n)) >= 1
       /\ Remnant(cells, c, partial, n)[1].t = "count"
  BY <1>5, <1>12, <1>13, <1>14
<1>17. /\ ss \in Seq(Seq(Tokens))
       /\ Len(ss) = c - 1 /\ \A i \in 1..Len(ss) : ss[i] = Reader!Field(cells[i])
       /\ Remnant(cells, c, partial, n) =
            ((<<Writer!Token("count", Columns)>> \o A!FlattenSeq(ss))
               \o <<Writer!Token("len", 0)>>)
                 \o (IF partial THEN <<Writer!Token("value", n)>> ELSE <<>>)
  BY <1>2, <1>14, <1>15 DEF a, z, y, fl
<1> QED
  BY <1>16, <1>17

\* One is told from a row: something of it is missing before its last value, or there
\* is more of it than its last length.
Told(c, partial) == c < Columns \/ partial
\* The fields do not go on after the first e tokens.
NoFieldAfter(d, e) == e = Len(d) \/ d[e + 1].t # "len"

\* A part of a row runs into what follows it, unless its last value is the only one missing.
LEMMA RemnantBorne ==
  ASSUME NEW d \in Seq(Tokens), NEW p \in Nat, NEW cells \in TableRow, NEW c \in 1..Columns,
         NEW partial \in BOOLEAN, NEW n \in Int, Told(c, partial),
         Bears(d, p, Remnant(cells, c, partial, n)),
         NEW e, e = p + Len(Remnant(cells, c, partial, n)), NoFieldAfter(d, e)
  PROVE  LET f == Writer!FieldsAt(d, (p + 1) + 1, Columns)
         IN f.next = 0 \/ (f.next \in DOMAIN d /\ d[f.next].t = "value")
<1> DEFINE a == Writer!Token("count", Columns)
           z == Writer!Token("len", 0)
           y == IF partial THEN <<Writer!Token("value", n)>> ELSE <<>>
           u == <<a>>
           v == <<z>>
<1>1. PICK ss \in Seq(Seq(Tokens)) :
        /\ Len(ss) = c - 1 /\ \A i \in 1..Len(ss) : ss[i] = Reader!Field(cells[i])
        /\ Remnant(cells, c, partial, n) = ((u \o A!FlattenSeq(ss)) \o v) \o y
  BY RemnantIs
<1> DEFINE fl == A!FlattenSeq(ss)
<1>2. Columns \in Nat \ {0} /\ c \in Nat /\ c - 1 \in Nat /\ c <= Columns /\ Len(d) \in Nat
      /\ DOMAIN d = 1..Len(d)
  BY ColumnsAre
<1>3. fl \in Seq(Tokens)
  BY A!FlattenType
<1>4. /\ a \in Tokens /\ z \in Tokens /\ z.t = "len" /\ z.n = 0
      /\ Writer!Token("value", n) \in Tokens /\ Writer!Token("value", n).t = "value"
  <2>1. Columns \in Int /\ 0 \in Int
    BY <1>2
  <2>2. a \in Tokens /\ z \in Tokens /\ Writer!Token("value", n) \in Tokens
    BY <2>1 DEF Writer!Token, Tokens, Names
  <2>3. z.t = "len" /\ z.n = 0 /\ Writer!Token("value", n).t = "value"
    BY DEF Writer!Token
  <2> QED
    BY <2>2, <2>3
<1>5. y \in Seq(Tokens) /\ (partial => Len(y) = 1 /\ y[1].t = "value") /\ (~partial => Len(y) = 0)
  <2>1. CASE partial
    BY <1>4, <2>1
  <2>2. CASE ~partial
    BY <2>2
  <2> QED
    BY <2>1, <2>2
<1>6. u \in Seq(Tokens) /\ Len(u) = 1 /\ v \in Seq(Tokens) /\ Len(v) = 1 /\ v[1] = z
  BY <1>4
<1> HIDE DEF y, a, z, u, v, fl
<1> DEFINE s == u \o fl
           r == s \o v
           lf == Len(fl)
<1>7. s \in Seq(Tokens) /\ r \in Seq(Tokens)
  <2>1. s \in Seq(Tokens)
    BY <1>3, <1>6, TokensConcat
  <2> HIDE DEF s
  <2> QED
    BY <1>6, <2>1, TokensConcat
<1>8. Remnant(cells, c, partial, n) = r \o y /\ Bears(d, p, r \o y)
  BY <1>1 DEF fl
<1>9. /\ Bears(d, p, r) /\ Bears(d, p + Len(r), y) /\ Len(r \o y) = Len(r) + Len(y) /\ Len(r) \in Nat
      /\ Len(y) \in Nat
  <2> HIDE DEF r
  <2> QED
    BY <1>5, <1>7, <1>8, BearsBoth
<1>10. Bears(d, p, s) /\ Bears(d, p + Len(s), v) /\ Len(r) = Len(s) + 1 /\ Len(s) \in Nat
  <2>1. Bears(d, p, s \o v)
    BY <1>9
  <2> HIDE DEF s, r
  <2>2. /\ Bears(d, p, s) /\ Bears(d, p + Len(s), v) /\ Len(s \o v) = Len(s) + Len(v)
        /\ Len(s) \in Nat /\ Len(v) \in Nat
    <3>1. v \in Seq(Tokens) /\ s \in Seq(Tokens) /\ d \in Seq(Tokens) /\ p \in Nat
      BY <1>6, <1>7
    <3> QED
      BY ONLY <2>1, <3>1, BearsBoth
  <2> QED
    BY <1>6, <2>2 DEF r
<1>11. Bears(d, p + 1, fl) /\ Len(s) = 1 + lf /\ lf \in Nat
  BY <1>3, <1>6, <1>10, BearsBoth
<1> HIDE DEF s, r, lf
<1> DEFINE q == (p + 1) + 1 + lf
<1>12. q \in 1..Len(d) /\ d[q] = z
  <2>1. (p + Len(s)) + Len(v) <= Len(d) /\ \A j \in 1..Len(v) : d[(p + Len(s)) + j] = v[j]
    BY <1>10 DEF Bears
  <2>2. 1 \in 1..Len(v) /\ (p + Len(s)) + 1 = q /\ q \in 1..Len(d)
    BY <1>2, <1>6, <1>10, <1>11, <2>1
  <2> QED
    BY <1>6, <2>1, <2>2
<1>13. partial => q + 1 \in 1..Len(d) /\ d[q + 1].t = "value"
  <2> SUFFICES ASSUME partial PROVE q + 1 \in 1..Len(d) /\ d[q + 1].t = "value"
    OBVIOUS
  <2>1. (p + Len(r)) + Len(y) <= Len(d) /\ \A j \in 1..Len(y) : d[(p + Len(r)) + j] = y[j]
    BY <1>9 DEF Bears
  <2>2. 1 \in 1..Len(y) /\ (p + Len(r)) + 1 = q + 1 /\ q + 1 \in 1..Len(d)
    <3>1. Len(y) = 1 /\ Len(r) = lf + 2 /\ Len(d) \in Nat
      BY <1>2, <1>5, <1>10, <1>11
    <3>2. (p + (lf + 2)) + 1 <= Len(d)
      BY <2>1, <3>1
    <3> QED
      BY <1>11, <3>1, <3>2
  <2> QED
    BY <1>5, <2>1, <2>2
<1>14. ~partial => q = Len(d) \/ d[q + 1].t # "len"
  <2> SUFFICES ASSUME ~partial PROVE q = Len(d) \/ d[q + 1].t # "len"
    OBVIOUS
  <2>1. e = q
    <3>1. Len(y) = 0
      BY <1>5
    <3> QED
      BY <1>8, <1>9, <1>10, <1>11, <3>1
  <2> QED
    BY <2>1 DEF NoFieldAfter
<1>15. (p + 1) + 1 \in Nat /\ p + 1 \in Nat
  OBVIOUS
<1>16. PICK F : Spotting(d, (p + 1) + 1, Columns, F) /\ Writer!FieldsAt(d, (p + 1) + 1, Columns) = F[Columns]
  BY <1>2, <1>15, SpotsAre
<1>17. F[c - 1].next = q
  <2> DEFINE i == c - 1
  <2>0. i \in Nat /\ i <= Columns /\ Len(ss) = i
    <3>1. Len(ss) = i
      BY <1>1
    <3> QED
      BY <1>2, <3>1
  <2> HIDE DEF i
  <2>1. /\ Len(ss) <= Columns /\ i <= Len(ss) /\ Columns \in Nat
        /\ \A j \in 1..Len(ss) : ss[j] = Reader!Field(cells[j])
    BY <1>1, <1>2, <2>0
  <2>2. Bears(d, p + 1, A!FlattenSeq(ss)) /\ Spotting(d, (p + 1) + 1, Columns, F)
    BY <1>11, <1>16 DEF fl
  <2>3. F[i] = [next |-> (p + 1) + 1 + Off(ss, i), values |-> [j \in 1..i |-> cells[j]]]
    <3> DEFINE pp == p + 1
               k == pp + 1
    <3>1. /\ Spotting(d, k, Columns, F) /\ k = pp + 1 /\ pp \in Nat /\ Bears(d, pp, A!FlattenSeq(ss))
          /\ Spells(ss, cells) /\ Len(ss) <= Columns /\ Columns \in Nat
      BY <1>15, <2>1, <2>2 DEF Spells
    <3> HIDE DEF k, pp
    <3>2. Spelled(F, k, ss, cells)
      BY <3>1, FieldsBorne
    <3> QED
      BY <2>0, <2>1, <3>2 DEF k, pp, Spelled
  <2>4. Off(ss, i) = lf
    BY <2>0, OffIs DEF lf, fl
  <2>5. F[i].next = q
    BY <2>3, <2>4
  <2> QED
    BY <2>5 DEF i
<1>18. F[c].next = q + 1
  <2>1. F[c] = Writer!NextField(d, F[c - 1])
    BY <1>2, <1>16 DEF Spotting
  <2>2. d[q].t = "len" /\ d[q].n = 0 /\ q \in DOMAIN d
    BY <1>2, <1>4, <1>12
  <2>3. Writer!SizeAt(d, q) = 1
    BY <2>2 DEF Writer!SizeAt
  <2>4. Writer!WholeAt(d, q)
    BY <2>2, <2>3 DEF Writer!WholeAt, Writer!FieldAt
  <2> HIDE DEF q
  <2> QED
    BY <1>17, <2>1, <2>3, <2>4 DEF Writer!NextField
<1>19. CASE c = Columns
  <2>1. partial
    <3>1. ~(c < Columns)
      BY <1>2, <1>19
    <3> QED
      BY <3>1 DEF Told
  <2> QED
    BY <1>2, <1>13, <1>16, <1>18, <1>19, <2>1
<1>20. CASE c # Columns
  <2>1. c + 1 \in 1..Columns /\ (c + 1) - 1 = c /\ c + 1 \in 0..Columns
    BY <1>2, <1>20
  <2>2. F[c + 1] = Writer!NextField(d, F[c])
    BY <1>16, <2>1 DEF Spotting
  <2>3. ~Writer!FieldAt(d, q + 1)
    <3>1. CASE partial
      BY <1>13, <3>1 DEF Writer!FieldAt
    <3>2. CASE ~partial
      <4>1. CASE q = Len(d)
        <5>1. q + 1 \notin DOMAIN d
          <6>1. Len(d) \in Nat /\ DOMAIN d = 1..Len(d) /\ q = Len(d)
            BY <1>2, <4>1
          <6> HIDE DEF q
          <6>2. q + 1 \notin 1..Len(d)
            BY <6>1
          <6> QED
            BY <6>1, <6>2
        <5> QED
          BY <5>1 DEF Writer!FieldAt
      <4>2. CASE d[q + 1].t # "len"
        BY <4>2 DEF Writer!FieldAt
      <4> QED
        BY <1>14, <3>2, <4>1, <4>2
    <3> QED
      BY <3>1, <3>2
  <2> HIDE DEF q
  <2>4. F[c + 1].next = 0
    BY <1>18, <2>2, <2>3 DEF Writer!NextField, Writer!WholeAt
  <2>5. F[Columns].next = 0
    BY <1>2, <1>15, <1>16, <2>1, <2>4, NoMoreFields
  <2> QED
    BY <1>16, <2>5
<1> QED
  BY <1>19, <1>20

\* What a binary writer sends is made of these: the header, whole rows, what a conversion
\* that failed left of a row, and trailers.
Piece == [kind : {"header", "row", "part", "trailer"}, w : Nat, cells : TableRow,
          c : 1..Columns, partial : BOOLEAN]
Enc(x) ==
  CASE x.kind = "header" -> <<Writer!Header>>
    [] x.kind = "trailer" -> <<Writer!Trailer>>
    [] x.kind = "row" -> Writer!EncodedRow(x.cells)
    [] OTHER -> Remnant(x.cells, x.c, x.partial, x.w)
Encs(P) == [i \in 1..Len(P) |-> Enc(P[i])]
Bytes(P) == A!FlattenSeq(Encs(P))

LEMMA PieceIs ==
  ASSUME NEW x \in Piece
  PROVE  /\ Enc(x) \in Seq(Tokens) /\ Len(Enc(x)) \in Nat /\ Len(Enc(x)) >= 1
         /\ x.kind = "header" => Enc(x) = <<Writer!Header>>
         /\ x.kind = "trailer" => Enc(x) = <<Writer!Trailer>>
         /\ x.kind = "row" => Enc(x) = Writer!EncodedRow(x.cells)
         /\ x.kind = "part" => Enc(x) = Remnant(x.cells, x.c, x.partial, x.w)
         /\ Enc(x)[1].t \in {"header", "count", "trailer"}
         /\ Enc(x)[1] = Writer!Header => x.kind = "header"
<1>0. /\ x.kind \in {"header", "row", "part", "trailer"} /\ x.w \in Int /\ x.cells \in TableRow
      /\ x.c \in 1..Columns /\ x.partial \in BOOLEAN
  BY DEF Piece
<1>1. CASE x.kind = "header"
  <2>1. Writer!Header \in Tokens /\ Writer!Header.t = "header"
    BY DEF Writer!Header, Writer!Token, Tokens, Names
  <2>2. Enc(x) = <<Writer!Header>>
    BY <1>1 DEF Enc
  <2> QED
    BY <1>1, <2>1, <2>2
<1>2. CASE x.kind = "trailer"
  <2>1. Writer!Trailer \in Tokens /\ Writer!Trailer.t = "trailer"
    BY DEF Writer!Trailer, Writer!Token, Tokens, Names
  <2>2. Enc(x) = <<Writer!Trailer>>
    BY <1>2 DEF Enc
  <2>3. Writer!Trailer # Writer!Header
    BY DEF Writer!Trailer, Writer!Header, Writer!Token
  <2> QED
    BY <1>2, <2>1, <2>2, <2>3
<1>3. CASE x.kind = "row"
  <2>1. Enc(x) = Writer!EncodedRow(x.cells)
    BY <1>3 DEF Enc
  <2> DEFINE y == Writer!EncodedRow(x.cells)
             n == Len(RowFlat(x.cells))
  <2>2. y \in Seq(Tokens) /\ n \in Nat /\ Len(y) = 1 + n /\ y[1].t = "count"
    BY <1>0, EncodedIs
  <2> HIDE DEF y, n
  <2>3. Len(y) \in Nat /\ Len(y) >= 1 /\ Enc(x) = y
    BY <2>1, <2>2 DEF y
  <2>4. y[1] # Writer!Header
    BY <2>2 DEF Writer!Header, Writer!Token
  <2> QED
    BY <1>3, <2>1, <2>2, <2>3, <2>4
<1>4. CASE x.kind = "part"
  <2> DEFINE y == Remnant(x.cells, x.c, x.partial, x.w)
  <2>1. Enc(x) = y
    BY <1>4 DEF Enc
  <2>2. y \in Seq(Tokens) /\ Len(y) \in Nat /\ Len(y) >= 1 /\ y[1].t = "count"
    BY <1>0, RemnantIs
  <2> HIDE DEF y
  <2>3. y[1] # Writer!Header
    BY <2>2 DEF Writer!Header, Writer!Token
  <2>4. x.kind = "part" => Enc(x) = Remnant(x.cells, x.c, x.partial, x.w)
    BY <2>1 DEF y
  <2> QED
    BY <1>4, <2>1, <2>2, <2>3, <2>4
<1> QED
  BY <1>0, <1>1, <1>2, <1>3, <1>4

\* Where the pieces are in what they make.
At(P, i) == Off(Encs(P), i)

LEMMA EncsAre ==
  ASSUME NEW P \in Seq(Piece)
  PROVE  /\ Encs(P) \in Seq(Seq(Tokens)) /\ Len(Encs(P)) = Len(P) /\ Len(P) \in Nat
         /\ \A i \in 1..Len(P) : Encs(P)[i] = Enc(P[i])
         /\ Bytes(P) \in Seq(Tokens) /\ Len(Bytes(P)) \in Nat
         /\ At(P, 0) = 0 /\ At(P, Len(P)) = Len(Bytes(P))
<1> DEFINE ss == Encs(P)
<1>1. Len(P) \in Nat /\ \A i \in 1..Len(P) : P[i] \in Piece
  OBVIOUS
<1>2. ss \in [1..Len(P) -> Seq(Tokens)] /\ \A i \in 1..Len(P) : ss[i] = Enc(P[i])
  <2>1. \A i \in 1..Len(P) : Enc(P[i]) \in Seq(Tokens)
    BY <1>1, PieceIs
  <2> QED
    BY <2>1 DEF Encs
<1> HIDE DEF ss
<1>3. ss \in Seq(Seq(Tokens)) /\ Len(ss) = Len(P)
  BY <1>1, <1>2, SeqDef
<1>4. A!FlattenSeq(ss) \in Seq(Tokens)
  BY <1>3, A!FlattenType
<1>5. Off(ss, 0) = 0 /\ Off(ss, Len(ss)) = Len(A!FlattenSeq(ss))
  BY <1>3, OffIs
<1>6. Len(A!FlattenSeq(ss)) \in Nat
  BY <1>4
<1> QED
  BY <1>1, <1>2, <1>3, <1>4, <1>5, <1>6 DEF ss, Bytes, At

LEMMA PieceAt ==
  ASSUME NEW P \in Seq(Piece), NEW i \in Nat, i + 1 <= Len(P)
  PROVE  /\ At(P, i) \in Nat /\ At(P, i) >= i
         /\ At(P, i + 1) = At(P, i) + Len(Enc(P[i + 1])) /\ At(P, i + 1) <= Len(Bytes(P))
         /\ Bears(Bytes(P), At(P, i), Enc(P[i + 1]))
<1> DEFINE ss == Encs(P)
           d == Bytes(P)
<1>1. /\ ss \in Seq(Seq(Tokens)) /\ Len(ss) = Len(P) /\ Len(P) \in Nat
      /\ (\A k \in 1..Len(P) : ss[k] = Enc(P[k])) /\ d \in Seq(Tokens) /\ Len(d) \in Nat
      /\ d = A!FlattenSeq(ss)
  BY EncsAre DEF Bytes
<1>2. Bears(d, 0, A!FlattenSeq(ss))
  <2> HIDE DEF d, ss
  <2>1. 0 + Len(d) <= Len(d) /\ \A j \in 1..Len(d) : d[0 + j] = d[j]
    BY <1>1
  <2> QED
    BY <1>1, <2>1 DEF Bears
<1> HIDE DEF ss, d
<1>3. ASSUME NEW k \in Nat, k + 1 <= Len(P)
      PROVE  /\ Off(ss, k) \in Nat /\ Off(ss, k + 1) = Off(ss, k) + Len(ss[k + 1])
             /\ ss[k + 1] = Enc(P[k + 1]) /\ Len(ss[k + 1]) \in Nat /\ Len(ss[k + 1]) >= 1
             /\ Off(ss, k + 1) <= Len(d) /\ Bears(d, 0 + Off(ss, k), ss[k + 1])
  <2>1. k + 1 \in 1..Len(P) /\ k + 1 <= Len(ss)
    BY <1>1, <1>3
  <2>2. P[k + 1] \in Piece
    BY <2>1
  <2>3. /\ Off(ss, k) \in Nat /\ Off(ss, k + 1) = Off(ss, k) + Len(ss[k + 1])
        /\ Off(ss, k + 1) <= Len(A!FlattenSeq(ss))
    BY <1>1, <2>1, FlatAt
  <2>4. Bears(d, 0 + Off(ss, k), ss[k + 1])
    BY <1>1, <1>2, <2>1, BearsParts
  <2>5. ss[k + 1] = Enc(P[k + 1])
    BY <1>1, <2>1
  <2> QED
    BY <1>1, <2>2, <2>3, <2>4, <2>5, PieceIs
<1> DEFINE T == {k \in Nat : k + 1 <= Len(P) => Off(ss, k) >= k}
<1>4. 0 \in T
  <2>1. 0 + 1 <= Len(P) => Off(ss, 0) \in Nat
    BY <1>3
  <2> QED
    BY <2>1
<1>5. ASSUME NEW k \in Nat, k \in T PROVE k + 1 \in T
  <2> SUFFICES ASSUME (k + 1) + 1 <= Len(P) PROVE Off(ss, k + 1) >= k + 1
    OBVIOUS
  <2>1. k + 1 <= Len(P)
    BY <1>1
  <2>2. Off(ss, k) >= k
    BY <1>5, <2>1
  <2> DEFINE x == Off(ss, k)
             y == Off(ss, k + 1)
             l == Len(ss[k + 1])
  <2>3. x \in Nat /\ y = x + l /\ l \in Nat /\ l >= 1 /\ x >= k
    BY <1>3, <2>1, <2>2
  <2> HIDE DEF x, y, l
  <2>4. y >= k + 1
    BY <2>3
  <2> QED
    BY <2>4 DEF y
<1> HIDE DEF T
<1>6. \A k \in Nat : k \in T
  BY <1>4, <1>5, A!NatSetInduction
<1>7. Off(ss, i) >= i
  BY <1>6 DEF T
<1>8. 0 + Off(ss, i) = Off(ss, i)
  BY <1>3
<1>9. /\ Off(ss, i) \in Nat /\ Off(ss, i + 1) = Off(ss, i) + Len(Enc(P[i + 1]))
      /\ Off(ss, i + 1) <= Len(d) /\ Bears(d, Off(ss, i), Enc(P[i + 1]))
  BY <1>3, <1>8
<1> QED
  BY <1>7, <1>9 DEF ss, d, At

-----------------------------------------------------------------------------
(* One row after another.                                                  *)

RowsState == [next : Nat, rows : Seq(Seq(Int)), end : {"none", "good", "bad"}]

LEMMA RowAfterIs ==
  ASSUME NEW d \in Seq(Tokens), NEW s \in RowsState
  PROVE  Writer!RowAfter(d, s) \in RowsState
<1> DEFINE f == Writer!FieldsAt(d, s.next + 1, Columns)
<1>1. s.next \in Nat /\ s.rows \in Seq(Seq(Int)) /\ s.end \in {"none", "good", "bad"}
      /\ Columns \in Nat /\ s.next + 1 \in Nat
  BY ColumnsAre DEF RowsState
<1>2. f \in Spot
  <2>1. PICK F : Spotting(d, s.next + 1, Columns, F) /\ f = F[Columns]
    BY <1>1, SpotsAre
  <2>2. F \in [0..Columns -> Spot] /\ Columns \in 0..Columns
    BY <1>1, <2>1 DEF Spotting
  <2> QED
    BY <2>1, <2>2
<1> HIDE DEF f
<1>3. [s EXCEPT !.end = "bad"] \in RowsState /\ [s EXCEPT !.end = "good"] \in RowsState
  BY DEF RowsState
<1>4. f.next \in Nat /\ Append(s.rows, f.values) \in Seq(Seq(Int))
  BY <1>1, <1>2 DEF Spot
<1>5. [next |-> f.next, rows |-> Append(s.rows, f.values), end |-> "none"] \in RowsState
  BY <1>4 DEF RowsState
<1>6. \/ Writer!RowAfter(d, s) \in {s, [s EXCEPT !.end = "bad"], [s EXCEPT !.end = "good"]}
      \/ Writer!RowAfter(d, s) = [next |-> f.next, rows |-> Append(s.rows, f.values), end |-> "none"]
  BY DEF Writer!RowAfter, f
<1> QED
  BY <1>3, <1>5, <1>6

\* The states in which d is read row by row from k on.
Rowing(d, k, R) ==
  /\ R \in [0..Len(d) -> RowsState]
  /\ R[0] = [next |-> k, rows |-> <<>>, end |-> "none"]
  /\ \A n \in 1..Len(d) : R[n] = Writer!RowAfter(d, R[n - 1])

LEMMA RowsAre ==
  ASSUME NEW d \in Seq(Tokens), NEW k \in Nat
  PROVE  \E R : Rowing(d, k, R) /\ Writer!RowsAt(d, k) = R[Len(d)]
<1> DEFINE m == Len(d)
           a == [next |-> k, rows |-> <<>>, end |-> "none"]
           g == [r \in RowsState |-> Writer!RowAfter(d, r)]
           Is(F) == F = [n \in 0..Len(d) |->
                           IF n = 0 THEN [next |-> k, rows |-> <<>>, end |-> "none"]
                           ELSE Writer!RowAfter(d, F[n - 1])]
           h == CHOOSE F : Is(F)
<1>0. m \in Nat
  OBVIOUS
<1>1. a \in RowsState /\ g \in [RowsState -> RowsState]
  BY RowAfterIs DEF RowsState
<1> HIDE DEF m
<1>2. PICK f \in [0..m -> RowsState] : f[0] = a /\ \A n \in 1..m : f[n] = g[f[n - 1]]
  <2> HIDE DEF a, g
  <2>1. \E f : Iterates(RowsState, a, g, m, f)
    BY <1>0, <1>1, Iteration
  <2> QED
    BY <2>1 DEF Iterates
<1>3. Is(f)
  <2> DEFINE e == [n \in 0..m |-> IF n = 0 THEN [next |-> k, rows |-> <<>>, end |-> "none"]
                                  ELSE Writer!RowAfter(d, f[n - 1])]
  <2>1. \A n \in 0..m : f[n] = e[n]
    <3> TAKE n \in 0..m
    <3>1. CASE n = 0
      BY <1>2, <3>1
    <3>2. CASE n # 0
      <4>1. n \in 1..m /\ n - 1 \in 0..m
        BY <1>0, <3>2
      <4>2. f[n] = Writer!RowAfter(d, f[n - 1])
        BY <1>2, <4>1
      <4> QED
        BY <3>2, <4>2
    <3> QED
      BY <3>1, <3>2
  <2>2. DOMAIN e = 0..m /\ DOMAIN f = 0..m
    BY <1>2
  <2> HIDE DEF e
  <2>3. e \in [0..m -> RowsState]
    BY <1>2, <2>1, <2>2 DEF e
  <2>4. f = [n \in 0..m |-> f[n]] /\ e = [n \in 0..m |-> e[n]]
    BY <1>2, <2>3
  <2>5. [n \in 0..m |-> f[n]] = [n \in 0..m |-> e[n]]
    BY <2>1
  <2>6. f = e
    BY <2>4, <2>5, Zenon
  <2> QED
    BY <2>6 DEF e, m
<1>4. Is(h)
  <2> HIDE DEF Is
  <2> QED
    BY <1>3
<1>6. Writer!RowsAt(d, k) = h[Len(d)]
  BY Zenon DEF Writer!RowsAt
<1> HIDE DEF h
<1>5. Rowing(d, k, h)
  <2>1. DOMAIN h = 0..m /\ h[0] = a
    BY <1>0, <1>4 DEF m
  <2>2. \A n \in 1..m : h[n] = Writer!RowAfter(d, h[n - 1])
    <3> TAKE n \in 1..m
    <3>1. n \in 0..m /\ n # 0
      BY <1>0
    <3> QED
      BY <1>4, <3>1 DEF m
  <2> HIDE DEF h, Is
  <2>3. h = [n \in 0..m |-> h[n]]
    BY <1>4 DEF Is, m
  <2> DEFINE T == {n \in Nat : n <= m => h[n] \in RowsState}
  <2>4. 0 \in T
    BY <1>1, <2>1
  <2>5. ASSUME NEW n \in Nat, n \in T PROVE n + 1 \in T
    <3> SUFFICES ASSUME n + 1 <= m PROVE h[n + 1] \in RowsState
      OBVIOUS
    <3>1. n <= m /\ n + 1 \in 1..m /\ (n + 1) - 1 = n
      BY <1>0
    <3>2. h[n] \in RowsState
      BY <2>5, <3>1
    <3> QED
      BY <2>2, <3>1, <3>2, RowAfterIs
  <2> HIDE DEF T
  <2>6. \A n \in Nat : n \in T
    BY <2>4, <2>5, A!NatSetInduction
  <2>7. \A n \in 0..m : h[n] \in RowsState
    BY <1>0, <2>6 DEF T
  <2>8. h \in [0..m -> RowsState]
    BY <2>3, <2>7
  <2> QED
    BY <2>1, <2>2, <2>8 DEF Rowing, m
<1> QED
  BY <1>5, <1>6

\* Every part of a row can be told from one.
Telling(P) == \A i \in 1..Len(P) : P[i].kind = "part" => Told(P[i].c, P[i].partial)
\* A header, rows and a trailer.
Proper(P) ==
  /\ Len(P) >= 2 /\ P[1].kind = "header" /\ P[Len(P)].kind = "trailer"
  /\ \A i \in 1..Len(P) : 1 < i /\ i < Len(P) => P[i].kind = "row"
RowsOf(P, n) == [i \in 1..n |-> P[i + 1].cells]

\* The first n pieces after the header are rows, and that is how far they are read.
StillReads(P, n) ==
  n + 1 <= Len(P) /\ \A i \in 1..Len(P) : 1 < i /\ i <= n + 1 => P[i].kind = "row"
RunState(P, n) == [next |-> At(P, n + 1) + 1, rows |-> RowsOf(P, n), end |-> "none"]
Stuck(d, r) == r.end = "none" /\ r.next \in DOMAIN d /\ d[r.next].t = "value"
Reached(P, d, n, r) ==
  \/ StillReads(P, n) /\ r = RunState(P, n)
  \/ ~Proper(P) /\ (Stuck(d, r) \/ r.end = "bad")
  \/ Proper(P) /\ r.end = "good" /\ r.rows = RowsOf(P, Len(P) - 2)

LEMMA RunningOut ==
  ASSUME NEW P \in Seq(Piece), NEW n \in Nat, StillReads(P, n), n + 1 = Len(P)
  PROVE  ~Proper(P)
<1> SUFFICES ASSUME Proper(P) PROVE FALSE
  OBVIOUS
<1>1. Len(P) \in 1..Len(P) /\ 1 < Len(P) /\ Len(P) <= n + 1 /\ P[Len(P)].kind = "trailer"
  BY DEF Proper
<1>2. P[Len(P)].kind = "row"
  BY <1>1 DEF StillReads
<1> QED
  BY <1>1, <1>2

LEMMA NotARow ==
  ASSUME NEW P \in Seq(Piece), NEW n \in Nat, n + 2 <= Len(P), P[n + 2].kind # "row",
         (n + 2 = Len(P) => P[n + 2].kind # "trailer")
  PROVE  ~Proper(P)
<1> SUFFICES ASSUME Proper(P) PROVE FALSE
  OBVIOUS
<1>1. n + 2 \in 1..Len(P) /\ 1 < n + 2 /\ Len(P) \in Nat
  OBVIOUS
<1>2. CASE n + 2 = Len(P)
  BY <1>2 DEF Proper
<1>3. CASE n + 2 < Len(P)
  BY <1>1, <1>3 DEF Proper
<1> QED
  BY <1>1, <1>2, <1>3

\* The piece after the n rows.
LEMMA NextPiece ==
  ASSUME NEW P \in Seq(Piece), NEW n \in Nat, n + 2 <= Len(P),
         NEW d, d = Bytes(P), NEW e, e = At(P, n + 1), NEW x, x = P[n + 2]
  PROVE  /\ x \in Piece /\ d \in Seq(Tokens) /\ Len(d) \in Nat /\ e \in Nat
         /\ Bears(d, e, Enc(x)) /\ e + 1 <= Len(d) /\ d[e + 1] = Enc(x)[1]
         /\ At(P, n + 2) = e + Len(Enc(x)) /\ Len(Enc(x)) \in Nat /\ Len(Enc(x)) >= 1
         /\ NoFieldAfter(d, e + Len(Enc(x)))
         /\ (n + 2 = Len(P)) <=> (e + Len(Enc(x)) = Len(d))
<1> DEFINE k == n + 1
           l == Len(Enc(x))
<1>1. k \in Nat /\ k + 1 = n + 2 /\ k + 1 <= Len(P) /\ k + 1 \in 1..Len(P) /\ Len(P) \in Nat
  OBVIOUS
<1>2. x \in Piece /\ x = P[k + 1]
  BY <1>1
<1>3. /\ d \in Seq(Tokens) /\ Len(d) \in Nat /\ At(P, Len(P)) = Len(d)
  BY EncsAre
<1> HIDE DEF k
<1>4. /\ e \in Nat /\ At(P, k + 1) = e + Len(Enc(P[k + 1])) /\ At(P, k + 1) <= Len(d)
      /\ Bears(d, e, Enc(P[k + 1]))
  <2>1. e = At(P, k)
    BY DEF k
  <2> QED
    BY <1>1, <2>1, PieceAt
<1>5. Enc(x) \in Seq(Tokens) /\ l \in Nat /\ l >= 1
  BY <1>2, PieceIs
<1>6. e + 1 <= Len(d) /\ d[e + 1] = Enc(x)[1] /\ At(P, n + 2) = e + l
  <2>1. e + l <= Len(d) /\ \A j \in 1..l : d[e + j] = Enc(x)[j]
    BY <1>2, <1>4 DEF Bears
  <2> HIDE DEF l
  <2>2. 1 \in 1..l /\ e + 1 <= Len(d)
    BY <1>3, <1>4, <1>5, <2>1
  <2>3. At(P, n + 2) = e + l
    BY <1>1, <1>2, <1>4 DEF l
  <2> QED
    BY <2>1, <2>2, <2>3
<1>7. CASE n + 2 = Len(P)
  <2>1. e + l = Len(d)
    BY <1>3, <1>6, <1>7
  <2> QED
    BY <1>2, <1>3, <1>4, <1>5, <1>6, <1>7, <2>1 DEF NoFieldAfter
<1>8. CASE n + 2 # Len(P)
  <2> DEFINE y == P[n + 3]
             m == n + 2
             o == At(P, m)
             ly == Len(Enc(y))
  <2>1. m \in Nat /\ m + 1 <= Len(P) /\ n + 3 \in 1..Len(P) /\ m + 1 = n + 3
    BY <1>1, <1>8
  <2>2. y \in Piece
    BY <2>1
  <2>3. o = e + l
    BY <1>6
  <2> HIDE DEF m
  <2>4. At(P, m + 1) = o + Len(Enc(P[m + 1])) /\ At(P, m + 1) <= Len(d) /\ Bears(d, o, Enc(P[m + 1]))
    BY <2>1, PieceAt
  <2>5. Enc(y) \in Seq(Tokens) /\ ly \in Nat /\ ly >= 1 /\ Enc(y)[1].t \in {"header", "count", "trailer"}
    BY <2>2, PieceIs
  <2>6. o + ly <= Len(d) /\ \A j \in 1..ly : d[o + j] = Enc(y)[j]
    BY <2>1, <2>4 DEF Bears
  <2> HIDE DEF o, ly, l, y
  <2>7. 1 \in 1..ly /\ o # Len(d)
    BY <1>3, <1>4, <1>5, <2>3, <2>5, <2>6
  <2>8. d[o + 1].t # "len"
    BY <2>5, <2>6, <2>7
  <2>9. NoFieldAfter(d, e + l) /\ e + l # Len(d)
    BY <2>3, <2>7, <2>8 DEF NoFieldAfter
  <2> QED
    BY <1>2, <1>3, <1>4, <1>5, <1>6, <1>8, <2>9 DEF l
<1> QED
  BY <1>7, <1>8

LEMMA RowsMore ==
  ASSUME NEW P \in Seq(Piece), NEW n \in Nat, n + 2 <= Len(P)
  PROVE  Append(RowsOf(P, n), P[n + 2].cells) = RowsOf(P, n + 1)
<1> DEFINE s == RowsOf(P, n)
           t == RowsOf(P, n + 1)
           v == P[n + 2].cells
<1>1. \A i \in 1..n + 1 : P[i + 1].cells \in TableRow
  <2> TAKE i \in 1..n + 1
  <2>1. i + 1 \in 1..Len(P)
    OBVIOUS
  <2>2. P[i + 1] \in Piece
    BY <2>1
  <2> QED
    BY <2>2 DEF Piece
<1>2. v \in TableRow /\ 1..n \subseteq 1..n + 1
  <2>1. n + 1 \in 1..n + 1 /\ (n + 1) + 1 = n + 2
    OBVIOUS
  <2>2. P[(n + 1) + 1].cells \in TableRow
    BY <1>1, <2>1
  <2> QED
    BY <2>1, <2>2
<1>3. s \in [1..n -> TableRow] /\ t \in [1..n + 1 -> TableRow]
  BY <1>1, <1>2 DEF RowsOf
<1>4. s \in Seq(TableRow) /\ Len(s) = n /\ t \in Seq(TableRow) /\ Len(t) = n + 1
  BY <1>3, SeqDef
<1>5. Append(s, v) \in Seq(TableRow) /\ Len(Append(s, v)) = n + 1
  BY <1>2, <1>4
<1>6. \A j \in 1..n + 1 : Append(s, v)[j] = t[j]
  <2> TAKE j \in 1..n + 1
  <2>1. t[j] = P[j + 1].cells
    BY DEF RowsOf
  <2>2. CASE j \in 1..n
    <3>1. s[j] = P[j + 1].cells
      BY <2>2 DEF RowsOf
    <3> HIDE DEF s, t
    <3>2. Append(s, v)[j] = s[j]
      BY <1>2, <1>4, <2>2, AppendProperties
    <3> QED
      BY <2>1, <3>1, <3>2
  <2>3. CASE j = n + 1
    <3>1. j + 1 = n + 2
      BY <2>3
    <3> HIDE DEF s, t
    <3>2. Append(s, v)[j] = v
      <4> HIDE DEF v
      <4> QED
        BY <1>2, <1>4, <2>3, AppendProperties
    <3> QED
      BY <2>1, <3>1, <3>2
  <2>4. j \in 1..n \/ j = n + 1
    OBVIOUS
  <2> HIDE DEF s, t, v
  <2> QED
    BY <2>2, <2>3, <2>4
<1> HIDE DEF s, t, v
<1>7. Append(s, v) = t
  BY <1>4, <1>5, <1>6, SeqEqual
<1> QED
  BY <1>7 DEF s, t, v

LEMMA RunNext ==
  ASSUME NEW P \in Seq(Piece), Telling(P), NEW n \in Nat, StillReads(P, n),
         P # <<>>, P[1].kind = "header"
  PROVE  Reached(P, Bytes(P), n + 1, Writer!RowAfter(Bytes(P), RunState(P, n)))
<1> DEFINE d == Bytes(P)
           s == RunState(P, n)
           e == At(P, n + 1)
           x == P[n + 2]
           l == Len(Enc(x))
<1>1. s.next = e + 1 /\ s.rows = RowsOf(P, n) /\ s.end = "none" /\ n + 1 <= Len(P) /\ Len(P) \in Nat
  BY DEF RunState, StillReads
<1>2. CASE n + 1 = Len(P)
  <2>1. ~Proper(P)
    BY <1>2, RunningOut
  <2>2. e = Len(d) /\ Len(d) \in Nat
    BY <1>2, EncsAre
  <2>3. s.next > Len(d)
    <3> HIDE DEF e, d, s
    <3> QED
      BY <1>1, <2>2
  <2> HIDE DEF s, d
  <2>4. Writer!RowAfter(d, s).end = "bad"
    <3>1. Writer!RowAfter(d, s) = [s EXCEPT !.end = "bad"]
      BY <1>1, <2>3 DEF Writer!RowAfter
    <3>2. s = [next |-> e + 1, rows |-> RowsOf(P, n), end |-> "none"]
      BY DEF s, RunState
    <3> QED
      BY <3>1, <3>2
  <2>5. Reached(P, d, n + 1, Writer!RowAfter(d, s))
    BY <2>1, <2>4 DEF Reached
  <2> QED
    BY <2>5 DEF s, d
<1>3. CASE n + 1 # Len(P)
  <2>1. n + 2 <= Len(P) /\ n + 2 \in 1..Len(P)
    BY <1>1, <1>3
  <2>2. /\ x \in Piece /\ d \in Seq(Tokens) /\ Len(d) \in Nat /\ e \in Nat
        /\ Bears(d, e, Enc(x)) /\ e + 1 <= Len(d) /\ d[e + 1] = Enc(x)[1]
        /\ At(P, n + 2) = e + l /\ l \in Nat /\ l >= 1
        /\ NoFieldAfter(d, e + l)
        /\ ((n + 2 = Len(P)) <=> (e + l = Len(d)))
    BY <2>1, NextPiece
  <2>3. x.kind \in {"header", "row", "part", "trailer"} /\ x.w \in Int /\ x.cells \in TableRow
        /\ x.c \in 1..Columns /\ x.partial \in BOOLEAN
    <3> HIDE DEF x
    <3>1. x \in Piece
      BY <2>2
    <3> QED
      BY <3>1 DEF Piece
  <2>4. s = [next |-> e + 1, rows |-> RowsOf(P, n), end |-> "none"]
    BY DEF RunState
  <2>5. x.kind # "row" /\ (n + 2 = Len(P) => x.kind # "trailer") => ~Proper(P)
    BY <2>1, NotARow
  <2>6. Telling(P) /\ x.kind = "part" => Told(x.c, x.partial)
    BY <2>1 DEF Telling
  <2>7. Append(RowsOf(P, n), x.cells) = RowsOf(P, n + 1)
    BY <2>1, RowsMore
  <2>8. s.next \in DOMAIN d /\ ~(s.next > Len(d))
    <3> HIDE DEF d, e, s
    <3> QED
      BY <1>1, <2>2
  <2> HIDE DEF d, s, e, x, l
  <2>9. CASE x.kind = "header"
    <3>1. d[e + 1].t = "header"
      <4>1. Enc(x) = <<Writer!Header>>
        BY <2>2, <2>9, PieceIs
      <4> QED
        BY <2>2, <4>1 DEF Writer!Header, Writer!Token
    <3>2. Writer!RowAfter(d, s) = [s EXCEPT !.end = "bad"]
      BY <1>1, <3>1 DEF Writer!RowAfter
    <3>3. Writer!RowAfter(d, s).end = "bad"
      BY <2>4, <3>2
    <3>4. Reached(P, d, n + 1, Writer!RowAfter(d, s))
      BY <2>5, <2>9, <3>3 DEF Reached
    <3> QED
      BY <3>4 DEF d, s
  <2>10. CASE x.kind = "trailer"
    <3>1. Enc(x) = <<Writer!Trailer>>
      BY <2>2, <2>10, PieceIs
    <3>2. l = 1 /\ d[e + 1].t = "trailer"
      BY <2>2, <3>1 DEF l, Writer!Trailer, Writer!Token
    <3>3. CASE n + 2 = Len(P)
      <4>1. s.next = Len(d)
        BY <1>1, <2>2, <3>2, <3>3
      <4>2. Writer!RowAfter(d, s) = [s EXCEPT !.end = "good"]
        BY <1>1, <2>8, <3>2, <4>1 DEF Writer!RowAfter
      <4>3. Writer!RowAfter(d, s).end = "good" /\ Writer!RowAfter(d, s).rows = RowsOf(P, n)
        BY <2>4, <4>2
      <4>4. Proper(P) /\ Len(P) - 2 = n
        <5>1. Len(P) >= 2 /\ P[Len(P)].kind = "trailer" /\ Len(P) - 2 = n
          BY <1>1, <2>10, <3>3 DEF x
        <5>2. ASSUME NEW i \in 1..Len(P), 1 < i, i < Len(P) PROVE P[i].kind = "row"
          <6>1. i <= n + 1
            BY <3>3, <5>2
          <6> QED
            BY <5>2, <6>1 DEF StillReads
        <5> QED
          BY <5>1, <5>2 DEF Proper
      <4>5. Reached(P, d, n + 1, Writer!RowAfter(d, s))
        BY <4>3, <4>4 DEF Reached
      <4> QED
        BY <4>5 DEF d, s
    <3>4. CASE n + 2 # Len(P)
      <4>1. s.next # Len(d)
        BY <1>1, <2>2, <3>2, <3>4
      <4>2. Writer!RowAfter(d, s) = [s EXCEPT !.end = "bad"]
        BY <1>1, <2>8, <3>2, <4>1 DEF Writer!RowAfter
      <4>3. Writer!RowAfter(d, s).end = "bad"
        BY <2>4, <4>2
      <4>4. Reached(P, d, n + 1, Writer!RowAfter(d, s))
        BY <2>5, <2>10, <3>4, <4>3 DEF Reached
      <4> QED
        BY <4>4 DEF d, s
    <3> QED
      BY <3>3, <3>4
  <2>11. CASE x.kind = "row"
    <3>1. Enc(x) = Writer!EncodedRow(x.cells)
      BY <2>2, <2>11, PieceIs
    <3>2. /\ d[e + 1].t = "count"
          /\ Writer!FieldsAt(d, (e + 1) + 1, Columns) = [next |-> e + l + 1, values |-> x.cells]
      <4>1. Bears(d, e, Writer!EncodedRow(x.cells)) /\ l = Len(Writer!EncodedRow(x.cells))
        BY <2>2, <3>1 DEF l
      <4> QED
        BY <2>2, <2>3, <4>1, RowBorne
    <3>3. e + l + 1 # 0 /\ At(P, (n + 1) + 1) + 1 = e + l + 1
      <4>1. (n + 1) + 1 = n + 2
        OBVIOUS
      <4> QED
        BY <2>2, <4>1
    <3>4. Writer!RowAfter(d, s) =
            [next |-> e + l + 1, rows |-> Append(RowsOf(P, n), x.cells), end |-> "none"]
      <4>1. s.next + 1 = (e + 1) + 1 /\ s.next = e + 1
        BY <1>1
      <4>2. Writer!FieldsAt(d, s.next + 1, Columns) = [next |-> e + l + 1, values |-> x.cells]
        BY <3>2, <4>1
      <4>3. d[s.next].t = "count" /\ s.end = "none" /\ s.rows = RowsOf(P, n)
        BY <1>1, <3>2
      <4> DEFINE g == Writer!FieldsAt(d, s.next + 1, Columns)
      <4>4. g.next = e + l + 1 /\ g.values = x.cells
        BY <4>2
      <4> HIDE DEF g
      <4>5. Writer!RowAfter(d, s) = [next |-> g.next, rows |-> Append(s.rows, g.values), end |-> "none"]
        BY <2>8, <3>3, <4>3, <4>4 DEF Writer!RowAfter, g
      <4> QED
        BY <4>3, <4>4, <4>5
    <3>5. Writer!RowAfter(d, s) = RunState(P, n + 1)
      BY <2>7, <3>3, <3>4 DEF RunState
    <3>6. StillReads(P, n + 1)
      <4>1. (n + 1) + 1 <= Len(P)
        BY <2>1
      <4>2. ASSUME NEW i \in 1..Len(P), 1 < i, i <= (n + 1) + 1 PROVE P[i].kind = "row"
        <5>1. CASE i <= n + 1
          BY <4>2, <5>1 DEF StillReads
        <5>2. CASE ~(i <= n + 1)
          <6>1. i = n + 2
            BY <4>2, <5>2
          <6> QED
            BY <2>11, <6>1 DEF x
        <5> QED
          BY <5>1, <5>2
      <4> QED
        BY <4>1, <4>2 DEF StillReads
    <3>7. Reached(P, d, n + 1, Writer!RowAfter(d, s))
      BY <3>5, <3>6 DEF Reached
    <3> QED
      BY <3>7 DEF d, s
  <2>12. CASE x.kind = "part"
    <3> DEFINE f == Writer!FieldsAt(d, (e + 1) + 1, Columns)
    <3>1. Enc(x) = Remnant(x.cells, x.c, x.partial, x.w)
      BY <2>2, <2>12, PieceIs
    <3>2. f.next = 0 \/ (f.next \in DOMAIN d /\ d[f.next].t = "value")
      <4> DEFINE cs == x.cells
                 cc == x.c
                 pp == x.partial
                 ww == x.w
                 ee == e + l
      <4>1. /\ Bears(d, e, Remnant(cs, cc, pp, ww)) /\ ee = e + Len(Remnant(cs, cc, pp, ww))
            /\ Told(cc, pp) /\ NoFieldAfter(d, ee)
        BY <2>2, <2>6, <2>12, <3>1 DEF l
      <4>2. cs \in TableRow /\ cc \in 1..Columns /\ pp \in BOOLEAN /\ ww \in Int
        BY <2>3
      <4> HIDE DEF cs, cc, pp, ww, ee
      <4> QED
        BY <2>2, <4>1, <4>2, RemnantBorne
    <3>3. d[e + 1].t = "count"
      <4>1. Enc(x)[1].t = "count"
        <5> DEFINE cs == x.cells
                   cc == x.c
                   pp == x.partial
                   ww == x.w
        <5>1. cs \in TableRow /\ cc \in 1..Columns /\ pp \in BOOLEAN /\ ww \in Int
          BY <2>3
        <5> HIDE DEF cs, cc, pp, ww
        <5>2. Remnant(cs, cc, pp, ww)[1].t = "count"
          BY <5>1, RemnantIs
        <5> QED
          BY <3>1, <5>2 DEF cs, cc, pp, ww
      <4> QED
        BY <2>2, <4>1
    <3>4. ~Proper(P)
      BY <2>5, <2>12
    <3> HIDE DEF f
    <3>5. CASE f.next = 0
      <4>1. Writer!RowAfter(d, s) = [s EXCEPT !.end = "bad"]
        BY <1>1, <2>8, <3>3, <3>5 DEF Writer!RowAfter, f
      <4>2. Writer!RowAfter(d, s).end = "bad"
        BY <2>4, <4>1
      <4>3. Reached(P, d, n + 1, Writer!RowAfter(d, s))
        BY <3>4, <4>2 DEF Reached
      <4> QED
        BY <4>3 DEF d, s
    <3>6. CASE f.next # 0
      <4>1. Writer!RowAfter(d, s) = [next |-> f.next, rows |-> Append(s.rows, f.values), end |-> "none"]
        BY <1>1, <2>8, <3>3, <3>6 DEF Writer!RowAfter, f
      <4>2. Stuck(d, Writer!RowAfter(d, s))
        BY <3>2, <3>6, <4>1 DEF Stuck
      <4>3. Reached(P, d, n + 1, Writer!RowAfter(d, s))
        BY <3>4, <4>2 DEF Reached
      <4> QED
        BY <4>3 DEF d, s
    <3> QED
      BY <3>5, <3>6
  <2> QED
    BY <2>3, <2>9, <2>10, <2>11, <2>12
<1> QED
  BY <1>2, <1>3

LEMMA ReachedNext ==
  ASSUME NEW P \in Seq(Piece), Telling(P), NEW n \in Nat, P # <<>>, P[1].kind = "header",
         NEW r \in RowsState, Reached(P, Bytes(P), n, r)
  PROVE  Reached(P, Bytes(P), n + 1, Writer!RowAfter(Bytes(P), r))
<1> DEFINE d == Bytes(P)
<1>0. d \in Seq(Tokens) /\ Len(d) \in Nat
  BY EncsAre
<1> HIDE DEF d
<1>1. CASE StillReads(P, n) /\ r = RunState(P, n)
  BY <1>1, RunNext
<1>2. CASE r.end # "none"
  <2>1. Writer!RowAfter(d, r) = r
    BY <1>2 DEF Writer!RowAfter
  <2>2. ~(r = RunState(P, n))
    BY <1>2 DEF RunState
  <2>3. Reached(P, d, n + 1, r)
    BY <1>2, <2>2 DEF Reached, d
  <2>4. Reached(P, d, n + 1, Writer!RowAfter(d, r))
    BY <2>1, <2>3
  <2> QED
    BY <2>4 DEF d
<1>3. CASE ~Proper(P) /\ Stuck(d, r)
  <2>1. r.end = "none" /\ d[r.next].t \notin {"count", "trailer"}
    BY <1>3 DEF Stuck
  <2>2. Writer!RowAfter(d, r) = [r EXCEPT !.end = "bad"]
    BY <2>1 DEF Writer!RowAfter
  <2>3. Writer!RowAfter(d, r).end = "bad"
    BY <2>2 DEF RowsState
  <2>4. Reached(P, d, n + 1, Writer!RowAfter(d, r))
    BY <1>3, <2>3 DEF Reached
  <2> QED
    BY <2>4 DEF d
<1> QED
  BY <1>1, <1>2, <1>3 DEF Reached, d

\* What makes sense of the pieces: no more and no less than a header, rows and a trailer,
\* and then those rows.
LEMMA PiecesRead ==
  ASSUME NEW P \in Seq(Piece), Telling(P), P # <<>>, P[1].kind = "header"
  PROVE  /\ Writer!RowsAt(Bytes(P), 2).end = "good" <=> Proper(P)
         /\ Proper(P) => Writer!RowsAt(Bytes(P), 2).rows = RowsOf(P, Len(P) - 2)
<1> DEFINE d == Bytes(P)
<1>1. d \in Seq(Tokens) /\ Len(d) \in Nat /\ At(P, 0) = 0 /\ Len(P) \in Nat /\ At(P, Len(P)) = Len(d)
  BY EncsAre
<1>2. PICK R : Rowing(d, 2, R) /\ Writer!RowsAt(d, 2) = R[Len(d)]
  <2> HIDE DEF d
  <2> QED
    BY <1>1, RowsAre
<1> HIDE DEF d
<1>3. /\ R \in [0..Len(d) -> RowsState] /\ R[0] = [next |-> 2, rows |-> <<>>, end |-> "none"]
      /\ \A n \in 1..Len(d) : R[n] = Writer!RowAfter(d, R[n - 1])
  BY <1>2 DEF Rowing
<1> DEFINE T == {n \in Nat : n <= Len(d) => Reached(P, d, n, R[n])}
<1>4. 0 \in T
  <2>1. Len(P) >= 1
    BY <1>1
  <2>2. StillReads(P, 0)
    <3>1. 0 + 1 <= Len(P) /\ \A i \in 1..Len(P) : ~(1 < i /\ i <= 0 + 1)
      BY <1>1, <2>1
    <3> QED
      BY <3>1 DEF StillReads
  <2>3. At(P, 0 + 1) = 1
    <3>1. At(P, 0 + 1) = At(P, 0) + Len(Enc(P[0 + 1]))
      BY <2>1, PieceAt
    <3>2. P[1] \in Piece
      BY <1>1, <2>1
    <3>3. Enc(P[1]) = <<Writer!Header>>
      BY <3>2, PieceIs
    <3>4. Len(Enc(P[1])) = 1
      BY <3>3
    <3>5. 0 + 1 = 1 /\ At(P, 0 + 1) = 0 + Len(Enc(P[1]))
      BY <1>1, <3>1
    <3> QED
      BY <3>4, <3>5
  <2>4. RowsOf(P, 0) = <<>>
    BY DEF RowsOf
  <2>5. RunState(P, 0) = [next |-> 2, rows |-> <<>>, end |-> "none"]
    BY <2>3, <2>4 DEF RunState
  <2> QED
    BY <1>3, <2>2, <2>5 DEF Reached
<1>5. ASSUME NEW n \in Nat, n \in T PROVE n + 1 \in T
  <2> SUFFICES ASSUME n + 1 <= Len(d) PROVE Reached(P, d, n + 1, R[n + 1])
    OBVIOUS
  <2>1. n <= Len(d) /\ n \in 0..Len(d) /\ n + 1 \in 1..Len(d) /\ (n + 1) - 1 = n
    BY <1>1
  <2>2. Reached(P, d, n, R[n]) /\ R[n] \in RowsState
    BY <1>3, <1>5, <2>1
  <2>3. R[n + 1] = Writer!RowAfter(d, R[n])
    BY <1>3, <2>1
  <2> QED
    BY <2>2, <2>3, ReachedNext DEF d
<1> HIDE DEF T
<1>6. Len(d) \in T
  BY <1>1, <1>4, <1>5, A!NatSetInduction
<1>7. Reached(P, d, Len(d), R[Len(d)])
  BY <1>1, <1>6 DEF T
<1>8. ~StillReads(P, Len(d))
  <2> SUFFICES ASSUME Len(d) + 1 <= Len(P) PROVE FALSE
    BY DEF StillReads
  <2> DEFINE k == Len(P) - 1
  <2>1. k \in Nat /\ k + 1 = Len(P) /\ k >= Len(d)
    BY <1>1
  <2> HIDE DEF k
  <2>2. /\ At(P, k) \in Nat /\ At(P, k) >= k /\ At(P, k + 1) = At(P, k) + Len(Enc(P[k + 1]))
        /\ At(P, k + 1) <= Len(Bytes(P))
    BY <2>1, PieceAt
  <2>3. P[k + 1] \in Piece
    <3>1. k + 1 \in 1..Len(P)
      BY <2>1
    <3> QED
      BY <3>1
  <2>4. Len(Enc(P[k + 1])) \in Nat /\ Len(Enc(P[k + 1])) >= 1
    BY <2>3, PieceIs
  <2> QED
    BY <1>1, <2>1, <2>2, <2>4 DEF d
<1>9. /\ R[Len(d)].end = "good" <=> Proper(P)
      /\ Proper(P) => R[Len(d)].rows = RowsOf(P, Len(P) - 2)
  <2>1. \/ ~Proper(P) /\ (Stuck(d, R[Len(d)]) \/ R[Len(d)].end = "bad")
        \/ Proper(P) /\ R[Len(d)].end = "good" /\ R[Len(d)].rows = RowsOf(P, Len(P) - 2)
    BY <1>7, <1>8 DEF Reached
  <2>2. Stuck(d, R[Len(d)]) => R[Len(d)].end # "good"
    BY DEF Stuck
  <2> QED
    BY <2>1, <2>2
<1> QED
  BY <1>2, <1>9 DEF d

-----------------------------------------------------------------------------
(* Sequences end to end.                                                   *)

LEMMA Regroup ==
  ASSUME NEW S, NEW s \in Seq(S), NEW t \in Seq(S), NEW u \in Seq(S)
  PROVE  (s \o t) \o u = s \o (t \o u) /\ s \o t \in Seq(S) /\ s \o <<>> = s /\ <<>> \o s = s
BY ConcatAssociative, ConcatEmptySeq, ConcatProperties

LEMMA AppendJoined ==
  ASSUME NEW S, NEW s \in Seq(S), NEW t \in Seq(S), NEW x \in S
  PROVE  /\ s \o Append(t, x) = Append(s \o t, x) /\ Append(t, x) = t \o <<x>>
         /\ Append(t, x) \in Seq(S) /\ <<x>> \in Seq(S) /\ s \o t \in Seq(S)
<1>1. <<x>> \in Seq(S) /\ s \o t \in Seq(S)
  BY ConcatProperties
<1>2. Append(t, x) = t \o <<x>> /\ Append(s \o t, x) = (s \o t) \o <<x>>
  BY <1>1, AppendIsConcat
<1>3. (s \o t) \o <<x>> = s \o (t \o <<x>>)
  BY <1>1, ConcatAssociative
<1> QED
  BY <1>1, <1>2, <1>3, AppendProperties

LEMMA FlattenOne ==
  ASSUME NEW S, NEW s \in Seq(S)
  PROVE  A!FlattenSeq(<<s>>) = s
<1>1. <<>> \in Seq(Seq(S)) /\ Append(<<>>, s) = <<s>>
  BY EmptySeq
<1>2. A!FlattenSeq(Append(<<>>, s)) = A!FlattenSeq(<<>>) \o s
  BY <1>1, A!FlattenAppend
<1>3. A!FlattenSeq(<<>>) = <<>> /\ <<>> \o s = s
  BY A!FlattenEmpty, ConcatEmptySeq
<1> QED
  BY <1>1, <1>2, <1>3

-----------------------------------------------------------------------------
(* What is on its way to the server.                                       *)

Messages == {m \in [type : {"data", "done"}, data : Seq(Tokens)] : m.type = "done" => m.data = <<>>}
DataOf(ch) == [i \in 1..Len(ch) |-> ch[i].data]
Carried(ch) == A!FlattenSeq(DataOf(ch))
\* The data of the wire, of the channel and of the sink.
Passed(w, ch, sb) == (w \o Carried(ch)) \o sb

LEMMA DataAre ==
  ASSUME NEW ch \in Seq(Messages)
  PROVE  DataOf(ch) \in Seq(Seq(Tokens)) /\ Len(DataOf(ch)) = Len(ch) /\ Carried(ch) \in Seq(Tokens)
<1>1. \A i \in 1..Len(ch) : ch[i].data \in Seq(Tokens)
  <2> TAKE i \in 1..Len(ch)
  <2>1. ch[i] \in Messages
    OBVIOUS
  <2> QED
    BY <2>1 DEF Messages
<1>2. DataOf(ch) \in [1..Len(ch) -> Seq(Tokens)] /\ Len(ch) \in Nat
  BY <1>1 DEF DataOf
<1>3. DataOf(ch) \in Seq(Seq(Tokens)) /\ Len(DataOf(ch)) = Len(ch)
  BY <1>2, SeqDef
<1> QED
  BY <1>3, A!FlattenType DEF Carried

LEMMA CarriedNothing == Carried(<<>>) = <<>>
<1>1. DataOf(<<>>) = <<>>
  BY DEF DataOf
<1> QED
  BY <1>1, A!FlattenEmpty DEF Carried

LEMMA CarriedMore ==
  ASSUME NEW ch \in Seq(Messages), NEW m \in Messages
  PROVE  /\ Append(ch, m) \in Seq(Messages) /\ m.data \in Seq(Tokens)
         /\ Carried(Append(ch, m)) = Carried(ch) \o m.data
<1> DEFINE a == Append(ch, m)
           s == DataOf(ch)
           x == m.data
<1>1. m.data \in Seq(Tokens)
  BY DEF Messages
<1>2. /\ a \in Seq(Messages) /\ Len(a) = Len(ch) + 1 /\ Len(ch) \in Nat
      /\ \A i \in 1..Len(ch) : a[i] = ch[i]
      /\ a[Len(ch) + 1] = m
  BY AppendProperties
<1>3. s \in Seq(Seq(Tokens)) /\ Len(s) = Len(ch) /\ \A i \in 1..Len(ch) : s[i] = ch[i].data
  BY DataAre DEF DataOf
<1>4. DataOf(a) \in Seq(Seq(Tokens)) /\ Len(DataOf(a)) = Len(a) /\ \A i \in 1..Len(a) : DataOf(a)[i] = a[i].data
  BY <1>2, DataAre DEF DataOf
<1> HIDE DEF a, s, x
<1>5. /\ Append(s, x) \in Seq(Seq(Tokens)) /\ Len(Append(s, x)) = Len(s) + 1
      /\ \A i \in 1..Len(s) : Append(s, x)[i] = s[i]
      /\ Append(s, x)[Len(s) + 1] = x
  BY <1>1, <1>3, AppendProperties DEF x
<1> DEFINE t == DataOf(a)
           r == Append(s, x)
<1> HIDE DEF t, r
<1>6. ASSUME NEW i \in 1..Len(t) PROVE t[i] = r[i]
  <2>1. CASE i \in 1..Len(ch)
    BY <1>2, <1>3, <1>4, <1>5, <2>1 DEF t, r
  <2>2. CASE i = Len(ch) + 1
    BY <1>2, <1>3, <1>4, <1>5, <2>2 DEF t, r, x
  <2>3. i \in 1..Len(ch) \/ i = Len(ch) + 1
    BY <1>2, <1>4 DEF t
  <2> QED
    BY <2>1, <2>2, <2>3
<1>7. t = r
  <2>1. t \in Seq(Seq(Tokens)) /\ r \in Seq(Seq(Tokens)) /\ Len(t) = Len(r)
    BY <1>2, <1>3, <1>4, <1>5 DEF t, r
  <2> QED
    BY <1>6, <2>1, SeqEqual
<1>8. A!FlattenSeq(Append(s, x)) = A!FlattenSeq(s) \o x
  BY <1>1, <1>3, A!FlattenAppend DEF x
<1> QED
  BY <1>1, <1>2, <1>7, <1>8 DEF Carried, t, r, s, x, a

LEMMA CarriedLess ==
  ASSUME NEW ch \in Seq(Messages), ch # <<>>
  PROVE  /\ Tail(ch) \in Seq(Messages) /\ Head(ch) \in Messages /\ Head(ch).data \in Seq(Tokens)
         /\ Carried(ch) = Head(ch).data \o Carried(Tail(ch))
<1> DEFINE h == Head(ch)
           t == Tail(ch)
           x == h.data
           s == DataOf(t)
           u == <<x>> \o s
<1>1. /\ h \in Messages /\ h = ch[1] /\ t \in Seq(Messages) /\ Len(t) = Len(ch) - 1 /\ Len(ch) \in Nat
      /\ Len(ch) >= 1 /\ \A i \in 1..Len(t) : t[i] = ch[i + 1]
  BY HeadTailProperties, EmptySeq
<1>2. x \in Seq(Tokens)
  BY <1>1 DEF Messages
<1> HIDE DEF h, t
<1>3. s \in Seq(Seq(Tokens)) /\ Len(s) = Len(t) /\ \A i \in 1..Len(t) : s[i] = t[i].data
  BY <1>1, DataAre DEF DataOf
<1>4. DataOf(ch) \in Seq(Seq(Tokens)) /\ Len(DataOf(ch)) = Len(ch)
      /\ \A i \in 1..Len(ch) : DataOf(ch)[i] = ch[i].data
  BY DataAre DEF DataOf
<1> HIDE DEF s, x
<1>5. <<x>> \in Seq(Seq(Tokens)) /\ Len(<<x>>) = 1 /\ <<x>>[1] = x
  BY <1>2
<1>6. /\ u \in Seq(Seq(Tokens)) /\ Len(u) = 1 + Len(s)
      /\ \A i \in 1..1 + Len(s) : u[i] = IF i <= 1 THEN <<x>>[i] ELSE s[i - 1]
  BY <1>3, <1>5, ConcatProperties
<1> HIDE DEF u
<1>7. DataOf(ch) = u
  <2> DEFINE v == DataOf(ch)
  <2> HIDE DEF v
  <2>1. ASSUME NEW i \in 1..Len(v) PROVE v[i] = u[i]
    <3>1. Len(v) = Len(ch) /\ v[i] = ch[i].data
      BY <1>4 DEF v
    <3>2. CASE i = 1
      BY <1>1, <1>5, <1>6, <3>1, <3>2 DEF x
    <3>3. CASE i # 1
      <4>1. i \in 1..1 + Len(s) /\ ~(i <= 1) /\ i - 1 \in 1..Len(t) /\ (i - 1) + 1 = i
        BY <1>1, <1>3, <3>1, <3>3
      <4>2. u[i] = s[i - 1] /\ s[i - 1] = t[i - 1].data /\ t[i - 1] = ch[(i - 1) + 1]
        BY <1>1, <1>3, <1>6, <4>1
      <4> QED
        BY <3>1, <4>1, <4>2
    <3> QED
      BY <3>2, <3>3
  <2>2. v \in Seq(Seq(Tokens)) /\ Len(v) = Len(u)
    BY <1>1, <1>3, <1>4, <1>6 DEF v
  <2>3. v = u
    BY <1>6, <2>1, <2>2, SeqEqual
  <2> QED
    BY <2>3 DEF v
<1>8. A!FlattenSeq(<<x>> \o s) = A!FlattenSeq(<<x>>) \o A!FlattenSeq(s)
  BY <1>3, <1>5, A!FlattenConcat
<1>9. A!FlattenSeq(<<x>>) = x
  BY <1>2, FlattenOne
<1> QED
  BY <1>1, <1>2, <1>7, <1>8, <1>9 DEF Carried, u, s, x, t, h

\* The sink's data goes into the channel, more is buffered, and the server is sent some:
\* nothing is lost or overtaken on the way.
LEMMA PassedOn ==
  ASSUME NEW w \in Seq(Tokens), NEW ch \in Seq(Messages), NEW sb \in Seq(Tokens), NEW y \in Seq(Tokens)
  PROVE  /\ Passed(w, ch, sb) \in Seq(Tokens)
         /\ Passed(w, ch, sb \o y) = Passed(w, ch, sb) \o y
         /\ \A m \in Messages : m.data = sb => Passed(w, Append(ch, m), <<>>) = Passed(w, ch, sb)
         /\ ch # <<>> => Passed(w \o Head(ch).data, Tail(ch), sb) = Passed(w, ch, sb)
<1> DEFINE c == Carried(ch)
<1>1. c \in Seq(Tokens)
  BY DataAre
<1> HIDE DEF c
<1>2. w \o c \in Seq(Tokens) /\ (w \o c) \o sb \in Seq(Tokens)
  BY <1>1, ConcatProperties
<1>3. Passed(w, ch, sb \o y) = Passed(w, ch, sb) \o y
  <2> DEFINE p == w \o c
  <2>1. p \in Seq(Tokens)
    BY <1>2
  <2> HIDE DEF p
  <2>2. (p \o sb) \o y = p \o (sb \o y)
    BY <2>1, Regroup
  <2> QED
    BY <2>2 DEF Passed, c, p
<1>4. ASSUME NEW m \in Messages, m.data = sb
      PROVE  Passed(w, Append(ch, m), <<>>) = Passed(w, ch, sb)
  <2>1. Carried(Append(ch, m)) = c \o sb
    BY <1>4, CarriedMore DEF c
  <2>2. c \o sb \in Seq(Tokens)
    BY <1>1, ConcatProperties
  <2>3. w \o (c \o sb) = (w \o c) \o sb /\ w \o (c \o sb) \in Seq(Tokens)
    BY <1>1, <2>2, Regroup
  <2>4. (w \o (c \o sb)) \o <<>> = w \o (c \o sb)
    BY <2>3, Regroup
  <2> QED
    BY <2>1, <2>3, <2>4 DEF Passed, c
<1>5. ASSUME ch # <<>> PROVE Passed(w \o Head(ch).data, Tail(ch), sb) = Passed(w, ch, sb)
  <2> DEFINE x == Head(ch).data
             r == Carried(Tail(ch))
  <2>1. x \in Seq(Tokens) /\ Tail(ch) \in Seq(Messages) /\ c = x \o r
    BY <1>5, CarriedLess DEF c
  <2>2. r \in Seq(Tokens)
    BY <2>1, DataAre
  <2> HIDE DEF x, r
  <2>3. (w \o x) \o r = w \o (x \o r)
    BY <2>1, <2>2, Regroup
  <2> QED
    BY <2>1, <2>3 DEF Passed, c, x, r
<1> QED
  BY <1>2, <1>3, <1>4, <1>5 DEF Passed, c

-----------------------------------------------------------------------------
(* Pieces end to end.                                                      *)

LEMMA BytesJoined ==
  ASSUME NEW s \in Seq(Piece), NEW t \in Seq(Piece)
  PROVE  /\ s \o t \in Seq(Piece) /\ Bytes(s \o t) = Bytes(s) \o Bytes(t)
<1> DEFINE r == s \o t
           a == Encs(s)
           b == Encs(t)
           e == Encs(r)
           u == a \o b
<1>1. /\ r \in Seq(Piece) /\ Len(s) \in Nat /\ Len(t) \in Nat /\ Len(r) = Len(s) + Len(t)
      /\ \A i \in 1..Len(s) + Len(t) : r[i] = IF i <= Len(s) THEN s[i] ELSE t[i - Len(s)]
  BY ConcatProperties
<1>2. /\ a \in Seq(Seq(Tokens)) /\ Len(a) = Len(s) /\ \A i \in 1..Len(s) : a[i] = Enc(s[i])
  BY EncsAre
<1>3. /\ b \in Seq(Seq(Tokens)) /\ Len(b) = Len(t) /\ \A i \in 1..Len(t) : b[i] = Enc(t[i])
  BY EncsAre
<1>4. /\ e \in Seq(Seq(Tokens)) /\ Len(e) = Len(r) /\ \A i \in 1..Len(r) : e[i] = Enc(r[i])
  BY <1>1, EncsAre
<1> HIDE DEF r, a, b, e
<1>5. /\ u \in Seq(Seq(Tokens)) /\ Len(u) = Len(a) + Len(b)
      /\ \A i \in 1..Len(a) + Len(b) : u[i] = IF i <= Len(a) THEN a[i] ELSE b[i - Len(a)]
  <2>1. a \in Seq(Seq(Tokens)) /\ b \in Seq(Seq(Tokens))
    BY <1>2, <1>3
  <2> QED
    BY ONLY <2>1, ConcatProperties DEF u
<1> HIDE DEF u
<1>6. ASSUME NEW i \in 1..Len(e) PROVE e[i] = u[i]
  <2>0. i \in 1..Len(s) + Len(t) /\ i \in 1..Len(r)
    BY <1>1, <1>4
  <2>1. CASE i <= Len(s)
    <3>1. i \in 1..Len(s)
      BY <1>1, <2>0, <2>1
    <3> QED
      BY <1>1, <1>2, <1>3, <1>4, <1>5, <2>0, <2>1, <3>1
  <2>2. CASE ~(i <= Len(s))
    <3>1. i - Len(s) \in 1..Len(t)
      BY <1>1, <2>0, <2>2
    <3> QED
      BY <1>1, <1>2, <1>3, <1>4, <1>5, <2>0, <2>2, <3>1
  <2> QED
    BY <2>1, <2>2
<1>7. e = u
  <2>1. Len(e) = Len(u)
    BY <1>1, <1>2, <1>3, <1>4, <1>5
  <2> QED
    BY <1>4, <1>5, <1>6, <2>1, SeqEqual
<1>8. A!FlattenSeq(a \o b) = A!FlattenSeq(a) \o A!FlattenSeq(b)
  BY <1>2, <1>3, A!FlattenConcat
<1> QED
  BY <1>1, <1>7, <1>8 DEF Bytes, e, u, a, b, r

LEMMA BytesOne ==
  ASSUME NEW x \in Piece
  PROVE  <<x>> \in Seq(Piece) /\ Bytes(<<x>>) = Enc(x)
<1>1. Encs(<<x>>) = <<Enc(x)>>
  BY DEF Encs
<1>2. Enc(x) \in Seq(Tokens)
  BY PieceIs
<1> QED
  BY <1>1, <1>2, FlattenOne DEF Bytes

LEMMA BytesMore ==
  ASSUME NEW s \in Seq(Piece), NEW x \in Piece
  PROVE  Append(s, x) \in Seq(Piece) /\ Bytes(Append(s, x)) = Bytes(s) \o Enc(x)
<1>1. Append(s, x) = s \o <<x>>
  BY AppendIsConcat
<1> QED
  BY <1>1, BytesOne, BytesJoined

LEMMA BytesNone == Bytes(<<>>) = <<>> /\ <<>> \in Seq(Piece)
<1>1. Encs(<<>>) = <<>>
  BY DEF Encs
<1> QED
  BY <1>1, A!FlattenEmpty, EmptySeq DEF Bytes

\* The rows among the pieces are in the order in which they were written.
Els(P) == {P[i] : i \in 1..Len(P)}
InOrder(x, y) == x.kind = "row" /\ y.kind = "row" => x.w < y.w
Ordered(P) == \A i, j \in 1..Len(P) : i < j => InOrder(P[i], P[j])
Precedes(s, t) == \A x \in Els(s) : \A y \in Els(t) : InOrder(x, y)

LEMMA ElsJoined ==
  ASSUME NEW s \in Seq(Piece), NEW t \in Seq(Piece)
  PROVE  /\ s \o t \in Seq(Piece) /\ Els(s \o t) = Els(s) \cup Els(t)
         /\ Ordered(s) /\ Ordered(t) /\ Precedes(s, t) => Ordered(s \o t)
<1> DEFINE r == s \o t
           n == Len(s)
           m == Len(t)
<1>1. /\ r \in Seq(Piece) /\ n \in Nat /\ m \in Nat /\ Len(r) = n + m
      /\ \A i \in 1..n + m : r[i] = IF i <= n THEN s[i] ELSE t[i - n]
  BY ConcatProperties
<1> HIDE DEF r, n, m
<1>2. Els(r) \subseteq Els(s) \cup Els(t)
  <2> SUFFICES ASSUME NEW i \in 1..Len(r) PROVE r[i] \in Els(s) \cup Els(t)
    BY DEF Els
  <2>0. i \in 1..n + m
    BY <1>1
  <2>1. CASE i <= n
    <3>1. i \in 1..n /\ r[i] = s[i]
      BY <1>1, <2>0, <2>1
    <3> QED
      BY <3>1 DEF Els, n
  <2>2. CASE ~(i <= n)
    <3>1. i - n \in 1..m /\ r[i] = t[i - n]
      BY <1>1, <2>0, <2>2
    <3> QED
      BY <3>1 DEF Els, m
  <2> QED
    BY <2>1, <2>2
<1>3. Els(s) \subseteq Els(r)
  <2> SUFFICES ASSUME NEW i \in 1..n PROVE s[i] \in Els(r)
    BY DEF Els, n
  <2>1. i \in 1..n + m /\ i <= n
    BY <1>1
  <2>2. r[i] = s[i] /\ i \in 1..Len(r)
    BY <1>1, <2>1
  <2> QED
    BY <2>2 DEF Els
<1>4. Els(t) \subseteq Els(r)
  <2> SUFFICES ASSUME NEW i \in 1..m PROVE t[i] \in Els(r)
    BY DEF Els, m
  <2>1. n + i \in 1..n + m /\ ~(n + i <= n) /\ (n + i) - n = i
    BY <1>1
  <2>2. r[n + i] = t[i] /\ n + i \in 1..Len(r)
    BY <1>1, <2>1
  <2> QED
    BY <2>2 DEF Els
<1>5. ASSUME Ordered(s), Ordered(t), Precedes(s, t) PROVE Ordered(r)
  <2> SUFFICES ASSUME NEW i \in 1..Len(r), NEW j \in 1..Len(r), i < j PROVE InOrder(r[i], r[j])
    BY DEF Ordered
  <2>0. i \in 1..n + m /\ j \in 1..n + m
    BY <1>1
  <2>1. CASE j <= n
    <3>1. i \in 1..n /\ j \in 1..n /\ r[i] = s[i] /\ r[j] = s[j]
      BY <1>1, <2>0, <2>1
    <3> QED
      BY <1>5, <3>1 DEF Ordered, n
  <2>2. CASE ~(i <= n)
    <3>1. i - n \in 1..m /\ j - n \in 1..m /\ i - n < j - n /\ r[i] = t[i - n] /\ r[j] = t[j - n]
      BY <1>1, <2>0, <2>2
    <3> QED
      BY <1>5, <3>1 DEF Ordered, m
  <2>3. CASE i <= n /\ ~(j <= n)
    <3>1. i \in 1..n /\ j - n \in 1..m /\ r[i] = s[i] /\ r[j] = t[j - n]
      BY <1>1, <2>0, <2>3
    <3>2. s[i] \in Els(s) /\ t[j - n] \in Els(t)
      BY <3>1 DEF Els, n, m
    <3> QED
      BY <1>5, <3>1, <3>2 DEF Precedes
  <2> QED
    BY <2>1, <2>2, <2>3
<1> QED
  BY <1>1, <1>2, <1>3, <1>4, <1>5 DEF r

LEMMA ElsOne == \A x : Els(<<x>>) = {x} /\ Ordered(<<x>>) /\ Els(<<>>) = {} /\ Ordered(<<>>)
<1> TAKE x
<1>1. Els(<<x>>) = {x}
  BY DEF Els
<1>2. Ordered(<<x>>)
  <2> SUFFICES ASSUME NEW i \in 1..1, NEW j \in 1..1, i < j PROVE FALSE
    BY DEF Ordered
  <2> QED
    OBVIOUS
<1> QED
  BY <1>1, <1>2 DEF Els, Ordered

LEMMA ElsMore ==
  ASSUME NEW s \in Seq(Piece), NEW x \in Piece
  PROVE  /\ Append(s, x) \in Seq(Piece) /\ Els(Append(s, x)) = Els(s) \cup {x}
         /\ Ordered(s) /\ (\A y \in Els(s) : InOrder(y, x)) => Ordered(Append(s, x))
<1>1. Append(s, x) = s \o <<x>> /\ <<x>> \in Seq(Piece)
  BY AppendIsConcat, BytesOne
<1>2. (\A y \in Els(s) : InOrder(y, x)) => Precedes(s, <<x>>)
  BY ElsOne DEF Precedes
<1> QED
  BY <1>1, <1>2, ElsOne, ElsJoined

-----------------------------------------------------------------------------
(* What the pieces say of the rows written and of what went wrong: those   *)
(* that have left for the server, the ones the call in progress sends, and *)
(* the ones that wait in the buffer.                                       *)

All(g, h, k) == Els(g) \cup Els(h) \cup Els(k)
InPlace(g, h, k) ==
  /\ Ordered(g) /\ Ordered(h) /\ Ordered(k)
  /\ Precedes(g, h) /\ Precedes(g, k) /\ Precedes(h, k)
\* Each is of a row that was written, or of a value that failed.
OfRows(xs, rows, fs) ==
  \A x \in xs :
    /\ x.kind = "row" => x.w \in 1..Len(rows) /\ rows[x.w] = x.cells
    /\ x.kind = "part" => (IF Told(x.c, x.partial) THEN "failed" ELSE "last") \in fs
\* A value that failed has left its part.
Shown(xs, fs) == "failed" \in fs /\ "cancelled" \notin fs => \E x \in xs : x.kind = "part"
\* When nothing went wrong: the header, every row, and the trailer in the end.
WholeCopy(P, rows, fin) ==
  /\ Len(P) = (IF fin THEN 2 ELSE 1) + Len(rows) /\ P[1].kind = "header"
  /\ \A i \in 1..Len(rows) : P[i + 1].kind = "row" /\ P[i + 1].cells = rows[i]
  /\ fin => P[Len(P)].kind = "trailer"
Clean(fs) == fs \cap {"cancelled", "failed", "last"} = {}

Lawful(g, h, k, rows, fs, fin) ==
  /\ InPlace(g, h, k)
  /\ OfRows(All(g, h, k), rows, fs)
  /\ Shown(All(g, h, k), fs)
  /\ Clean(fs) => WholeCopy((g \o h) \o k, rows, fin)

LEMMA LawfulNew ==
  ASSUME NEW x \in Piece, x.kind = "header", NEW fs, fs \subseteq {"dropped"}
  PROVE  Lawful(<<>>, <<>>, <<x>>, <<>>, fs, FALSE)
<1>1. All(<<>>, <<>>, <<x>>) = {x}
  BY ElsOne DEF All
<1>2. InPlace(<<>>, <<>>, <<x>>)
  BY ElsOne DEF InPlace, Precedes
<1>3. OfRows({x}, <<>>, fs) /\ Shown({x}, fs)
  BY DEF OfRows, Shown
<1>4. (<<>> \o <<>>) \o <<x>> = <<x>>
  BY BytesNone, BytesOne, Regroup
<1>5. WholeCopy(<<x>>, <<>>, FALSE)
  BY DEF WholeCopy
<1> QED
  BY <1>1, <1>2, <1>3, <1>4, <1>5 DEF Lawful

LEMMA LawfulSent ==
  ASSUME NEW g \in Seq(Piece), NEW h \in Seq(Piece), NEW k \in Seq(Piece), NEW rows, NEW fs, NEW fin,
         Lawful(g, h, k, rows, fs, fin)
  PROVE  Lawful(g \o h, <<>>, k, rows, fs, fin) /\ g \o h \in Seq(Piece)
<1>1. /\ g \o h \in Seq(Piece) /\ Els(g \o h) = Els(g) \cup Els(h)
      /\ InPlace(g, h, k) => Ordered(g \o h)
  BY ElsJoined DEF InPlace
<1>2. InPlace(g \o h, <<>>, k)
  BY <1>1, ElsOne DEF InPlace, Precedes, Lawful
<1>3. All(g \o h, <<>>, k) = All(g, h, k)
  BY <1>1, ElsOne DEF All
<1>4. (g \o h) \o <<>> = g \o h
  BY <1>1, Regroup
<1> QED
  BY <1>1, <1>2, <1>3, <1>4 DEF Lawful

LEMMA LawfulCancelled ==
  ASSUME NEW g \in Seq(Piece), NEW h \in Seq(Piece), NEW k \in Seq(Piece), NEW rows, NEW fs, NEW fin,
         Lawful(g, h, k, rows, fs, fin)
  PROVE  Lawful(g, <<>>, k, rows, fs \cup {"cancelled"}, FALSE)
<1>1. InPlace(g, <<>>, k)
  BY ElsOne DEF InPlace, Precedes, Lawful
<1>2. All(g, <<>>, k) \subseteq All(g, h, k)
  BY ElsOne DEF All
<1>3. OfRows(All(g, <<>>, k), rows, fs \cup {"cancelled"})
  BY <1>2 DEF Lawful, OfRows
<1>4. Shown(All(g, <<>>, k), fs \cup {"cancelled"}) /\ ~Clean(fs \cup {"cancelled"})
  BY DEF Shown, Clean
<1> QED
  BY <1>1, <1>3, <1>4 DEF Lawful

LEMMA LawfulMoved ==
  ASSUME NEW g \in Seq(Piece), NEW k \in Seq(Piece), NEW rows, NEW fs, NEW fin,
         Lawful(g, <<>>, k, rows, fs, fin)
  PROVE  Lawful(g, k, <<>>, rows, fs, fin)
<1>1. InPlace(g, k, <<>>)
  BY ElsOne DEF InPlace, Precedes, Lawful
<1>2. All(g, k, <<>>) = All(g, <<>>, k)
  BY ElsOne DEF All
<1>3. (g \o k) \o <<>> = (g \o <<>>) \o k
  BY Regroup
<1> QED
  BY <1>1, <1>2, <1>3 DEF Lawful

LEMMA WholeRow ==
  ASSUME NEW P \in Seq(Piece), NEW rows \in Seq(TableRow), NEW x \in Piece, x.kind = "row",
         WholeCopy(P, rows, FALSE)
  PROVE  WholeCopy(Append(P, x), Append(rows, x.cells), FALSE)
<1> DEFINE Q == Append(P, x)
           v == x.cells
           rs == Append(rows, v)
<1>1. v \in TableRow
  BY DEF Piece
<1>2. /\ Len(P) \in Nat /\ Len(Q) = Len(P) + 1 /\ Q[Len(P) + 1] = x
      /\ \A i \in 1..Len(P) : Q[i] = P[i]
  BY AppendProperties
<1> HIDE DEF v
<1>3. /\ Len(rows) \in Nat /\ Len(rs) = Len(rows) + 1 /\ rs[Len(rows) + 1] = v
      /\ \A i \in 1..Len(rows) : rs[i] = rows[i]
  BY <1>1, AppendProperties
<1>4. /\ Len(P) = 1 + Len(rows) /\ P[1].kind = "header"
      /\ \A i \in 1..Len(rows) : P[i + 1].kind = "row" /\ P[i + 1].cells = rows[i]
  BY DEF WholeCopy
<1> HIDE DEF Q, rs
<1>5. Len(Q) = 1 + Len(rs) /\ Q[1].kind = "header"
  <2>1. 1 \in 1..Len(P)
    BY <1>3, <1>4
  <2> QED
    BY <1>2, <1>3, <1>4, <2>1
<1>6. ASSUME NEW i \in 1..Len(rs) PROVE Q[i + 1].kind = "row" /\ Q[i + 1].cells = rs[i]
  <2>1. CASE i <= Len(rows)
    <3>1. i \in 1..Len(rows) /\ i + 1 \in 1..Len(P)
      BY <1>3, <1>4, <2>1
    <3> QED
      BY <1>2, <1>3, <1>4, <3>1
  <2>2. CASE ~(i <= Len(rows))
    <3>1. i = Len(rows) + 1 /\ i + 1 = Len(P) + 1
      BY <1>3, <1>4, <2>2
    <3> QED
      BY <1>2, <1>3, <3>1 DEF v
  <2> QED
    BY <2>1, <2>2
<1>7. WholeCopy(Q, rs, FALSE)
  BY <1>5, <1>6 DEF WholeCopy
<1> QED
  BY <1>7 DEF Q, rs, v

LEMMA WholeTrailer ==
  ASSUME NEW P \in Seq(Piece), NEW rows \in Seq(TableRow), NEW x \in Piece, x.kind = "trailer",
         WholeCopy(P, rows, FALSE)
  PROVE  WholeCopy(Append(P, x), rows, TRUE)
<1> DEFINE Q == Append(P, x)
<1>2. /\ Len(P) \in Nat /\ Len(Q) = Len(P) + 1 /\ Q[Len(P) + 1] = x
      /\ \A i \in 1..Len(P) : Q[i] = P[i]
  BY AppendProperties
<1>3. Len(rows) \in Nat
  OBVIOUS
<1>4. /\ Len(P) = 1 + Len(rows) /\ P[1].kind = "header"
      /\ \A i \in 1..Len(rows) : P[i + 1].kind = "row" /\ P[i + 1].cells = rows[i]
  BY DEF WholeCopy
<1> HIDE DEF Q
<1>5. Len(Q) = 2 + Len(rows) /\ Q[1].kind = "header" /\ Q[Len(Q)].kind = "trailer"
  <2>1. 1 \in 1..Len(P)
    BY <1>3, <1>4
  <2> QED
    BY <1>2, <1>3, <1>4, <2>1
<1>6. ASSUME NEW i \in 1..Len(rows) PROVE Q[i + 1].kind = "row" /\ Q[i + 1].cells = rows[i]
  <2>1. i + 1 \in 1..Len(P)
    BY <1>3, <1>4
  <2> QED
    BY <1>2, <1>4, <2>1
<1>7. WholeCopy(Q, rows, TRUE)
  BY <1>5, <1>6 DEF WholeCopy
<1> QED
  BY <1>7 DEF Q

LEMMA LawfulRow ==
  ASSUME NEW g \in Seq(Piece), NEW k \in Seq(Piece), NEW rows \in Seq(TableRow), NEW fs,
         Lawful(g, <<>>, k, rows, fs, FALSE),
         NEW x \in Piece, x.kind = "row", x.w = Len(rows) + 1
  PROVE  Lawful(g, <<>>, Append(k, x), Append(rows, x.cells), fs, FALSE)
<1> DEFINE rs == Append(rows, x.cells)
           xs == All(g, <<>>, k)
<1>1. /\ Len(rows) \in Nat /\ Len(rs) = Len(rows) + 1 /\ rs[Len(rows) + 1] = x.cells
      /\ \A i \in 1..Len(rows) : rs[i] = rows[i]
  <2>1. x.cells \in TableRow
    BY DEF Piece
  <2> QED
    BY <2>1, AppendProperties
<1> HIDE DEF rs
<1>2. InPlace(g, <<>>, k) /\ OfRows(xs, rows, fs) /\ Shown(xs, fs)
      /\ (Clean(fs) => WholeCopy((g \o <<>>) \o k, rows, FALSE))
  BY DEF Lawful
<1>3. \A y \in xs : InOrder(y, x)
  <2> TAKE y \in xs
  <2>1. y.kind = "row" => y.w \in 1..Len(rows)
    BY <1>2 DEF OfRows
  <2> QED
    BY <1>1, <2>1 DEF InOrder
<1>4. Append(k, x) \in Seq(Piece) /\ Els(Append(k, x)) = Els(k) \cup {x} /\ Ordered(Append(k, x))
  BY <1>2, <1>3, ElsMore DEF All, InPlace
<1>5. InPlace(g, <<>>, Append(k, x))
  BY <1>2, <1>3, <1>4, ElsOne DEF InPlace, Precedes, All
<1>6. All(g, <<>>, Append(k, x)) = xs \cup {x}
  BY <1>4 DEF All
<1> HIDE DEF xs
<1>7. OfRows(xs \cup {x}, rs, fs)
  <2> SUFFICES ASSUME NEW y \in xs \cup {x}
               PROVE  /\ y.kind = "row" => y.w \in 1..Len(rs) /\ rs[y.w] = y.cells
                      /\ y.kind = "part" => (IF Told(y.c, y.partial) THEN "failed" ELSE "last") \in fs
    BY DEF OfRows
  <2>1. CASE y \in xs
    <3>1. /\ y.kind = "row" => y.w \in 1..Len(rows) /\ rows[y.w] = y.cells
          /\ y.kind = "part" => (IF Told(y.c, y.partial) THEN "failed" ELSE "last") \in fs
      BY <1>2, <2>1 DEF OfRows
    <3> QED
      BY <1>1, <3>1
  <2>2. CASE y = x
    BY <1>1, <2>2
  <2> QED
    BY <2>1, <2>2
<1>8. Shown(xs \cup {x}, fs)
  BY <1>2 DEF Shown
<1>9. Clean(fs) => WholeCopy((g \o <<>>) \o Append(k, x), rs, FALSE)
  <2>1. (g \o <<>>) \o k \in Seq(Piece) /\ (g \o <<>>) \o Append(k, x) = Append((g \o <<>>) \o k, x)
    <3>1. g \o <<>> = g
      BY Regroup
    <3> QED
      BY <3>1, AppendJoined
  <2> QED
    BY <1>2, <2>1, WholeRow DEF rs
<1> QED
  BY <1>5, <1>6, <1>7, <1>8, <1>9 DEF Lawful, rs

LEMMA LawfulPart ==
  ASSUME NEW g \in Seq(Piece), NEW k \in Seq(Piece), NEW rows, NEW fs,
         Lawful(g, <<>>, k, rows, fs, FALSE), NEW x \in Piece, x.kind = "part",
         NEW f, f = IF Told(x.c, x.partial) THEN "failed" ELSE "last"
  PROVE  Lawful(g, <<>>, Append(k, x), rows, fs \cup {f}, FALSE)
<1> DEFINE xs == All(g, <<>>, k)
<1>1. InPlace(g, <<>>, k) /\ OfRows(xs, rows, fs) /\ Shown(xs, fs)
  BY DEF Lawful
<1>2. \A y : InOrder(y, x)
  BY DEF InOrder
<1>3. Append(k, x) \in Seq(Piece) /\ Els(Append(k, x)) = Els(k) \cup {x} /\ Ordered(Append(k, x))
  BY <1>1, <1>2, ElsMore DEF InPlace
<1>4. InPlace(g, <<>>, Append(k, x))
  BY <1>1, <1>2, <1>3, ElsOne DEF InPlace, Precedes
<1>5. All(g, <<>>, Append(k, x)) = xs \cup {x}
  BY <1>3 DEF All
<1> HIDE DEF xs
<1>6. OfRows(xs \cup {x}, rows, fs \cup {f})
  BY <1>1 DEF OfRows
<1>7. Shown(xs \cup {x}, fs \cup {f})
  BY DEF Shown
<1>8. ~Clean(fs \cup {f})
  BY DEF Clean
<1> QED
  BY <1>4, <1>5, <1>6, <1>7, <1>8 DEF Lawful

LEMMA LawfulTrailer ==
  ASSUME NEW g \in Seq(Piece), NEW k \in Seq(Piece), NEW rows \in Seq(TableRow), NEW fs,
         Lawful(g, <<>>, k, rows, fs, FALSE), NEW x \in Piece, x.kind = "trailer"
  PROVE  Lawful(g, <<>>, Append(k, x), rows, fs, TRUE)
<1> DEFINE xs == All(g, <<>>, k)
<1>1. InPlace(g, <<>>, k) /\ OfRows(xs, rows, fs) /\ Shown(xs, fs)
      /\ (Clean(fs) => WholeCopy((g \o <<>>) \o k, rows, FALSE))
  BY DEF Lawful
<1>2. \A y : InOrder(y, x)
  BY DEF InOrder
<1>3. Append(k, x) \in Seq(Piece) /\ Els(Append(k, x)) = Els(k) \cup {x} /\ Ordered(Append(k, x))
  BY <1>1, <1>2, ElsMore DEF InPlace
<1>4. InPlace(g, <<>>, Append(k, x))
  BY <1>1, <1>2, <1>3, ElsOne DEF InPlace, Precedes
<1>5. All(g, <<>>, Append(k, x)) = xs \cup {x}
  BY <1>3 DEF All
<1> HIDE DEF xs
<1>6. OfRows(xs \cup {x}, rows, fs) /\ Shown(xs \cup {x}, fs)
  BY <1>1 DEF OfRows, Shown
<1>7. Clean(fs) => WholeCopy((g \o <<>>) \o Append(k, x), rows, TRUE)
  <2>1. (g \o <<>>) \o k \in Seq(Piece) /\ (g \o <<>>) \o Append(k, x) = Append((g \o <<>>) \o k, x)
    <3>1. g \o <<>> = g
      BY Regroup
    <3> QED
      BY <3>1, AppendJoined
  <2> QED
    BY <1>1, <2>1, WholeTrailer
<1> QED
  BY <1>4, <1>5, <1>6, <1>7 DEF Lawful

-----------------------------------------------------------------------------
(* What the server makes of them, once all have come.                      *)

LEMMA CleanRead ==
  ASSUME NEW g \in Seq(Piece), NEW rows \in Seq(TableRow),
         Lawful(g, <<>>, <<>>, rows, {}, TRUE)
  PROVE  /\ g # <<>> /\ g[1].kind = "header" /\ Telling(g) /\ Proper(g)
         /\ RowsOf(g, Len(g) - 2) = rows
<1>1. (g \o <<>>) \o <<>> = g
  BY Regroup
<1>2. Clean({})
  BY DEF Clean
<1>3. /\ Len(g) = 2 + Len(rows) /\ g[1].kind = "header" /\ g[Len(g)].kind = "trailer"
      /\ \A i \in 1..Len(rows) : g[i + 1].kind = "row" /\ g[i + 1].cells = rows[i]
  BY <1>1, <1>2 DEF Lawful, WholeCopy
<1>4. Len(rows) \in Nat /\ Len(g) \in Nat
  OBVIOUS
<1>5. Telling(g)
  <2> SUFFICES ASSUME NEW i \in 1..Len(g), g[i].kind = "part" PROVE FALSE
    BY DEF Telling
  <2>1. g[i] \in All(g, <<>>, <<>>)
    BY DEF All, Els
  <2> QED
    BY <2>1 DEF Lawful, OfRows
<1>6. Proper(g)
  <2>1. ASSUME NEW i \in 1..Len(g), 1 < i, i < Len(g) PROVE g[i].kind = "row"
    <3>1. i - 1 \in 1..Len(rows) /\ (i - 1) + 1 = i
      BY <1>3, <1>4, <2>1
    <3> QED
      BY <1>3, <3>1
  <2> QED
    BY <1>3, <1>4, <2>1 DEF Proper
<1>7. RowsOf(g, Len(g) - 2) = rows
  <2>1. Len(g) - 2 = Len(rows)
    BY <1>3, <1>4
  <2>2. rows = [i \in 1..Len(rows) |-> rows[i]]
    OBVIOUS
  <2>3. RowsOf(g, Len(rows)) = [i \in 1..Len(rows) |-> rows[i]]
    BY <1>3 DEF RowsOf
  <2> QED
    BY <2>1, <2>2, <2>3
<1> QED
  BY <1>3, <1>4, <1>5, <1>6, <1>7

LEMMA CancelledRead ==
  ASSUME NEW g \in Seq(Piece), NEW rows \in Seq(TableRow), NEW fs, NEW fin,
         fs \subseteq {"cancelled"}, Lawful(g, <<>>, <<>>, rows, fs, fin)
  PROVE  /\ Telling(g)
         /\ Proper(g) => Writer!IsSubsequence(RowsOf(g, Len(g) - 2), rows)
<1>0. /\ \A i \in 1..Len(g) : g[i] \in All(g, <<>>, <<>>)
      /\ OfRows(All(g, <<>>, <<>>), rows, fs) /\ Ordered(g) /\ Len(g) \in Nat /\ Len(rows) \in Nat
  BY DEF All, Els, Lawful, InPlace
<1>1. Telling(g)
  <2> SUFFICES ASSUME NEW i \in 1..Len(g), g[i].kind = "part" PROVE FALSE
    BY DEF Telling
  <2> QED
    BY <1>0 DEF OfRows
<1>2. ASSUME Proper(g) PROVE Writer!IsSubsequence(RowsOf(g, Len(g) - 2), rows)
  <2> DEFINE n == Len(g) - 2
             s == RowsOf(g, n)
             f == [i \in 1..n |-> g[i + 1].w]
  <2>1. n \in Nat /\ n + 2 = Len(g)
    BY <1>0, <1>2 DEF Proper
  <2> HIDE DEF n
  <2>2. ASSUME NEW i \in 1..n
        PROVE  /\ i + 1 \in 1..Len(g) /\ g[i + 1].kind = "row"
               /\ g[i + 1].w \in 1..Len(rows) /\ rows[g[i + 1].w] = g[i + 1].cells
    <3>1. i + 1 \in 1..Len(g) /\ 1 < i + 1 /\ i + 1 < Len(g)
      BY <2>1
    <3>2. g[i + 1].kind = "row"
      BY <1>2, <3>1 DEF Proper
    <3> QED
      BY <1>0, <3>1, <3>2 DEF OfRows
  <2>3. DOMAIN s = 1..n /\ DOMAIN rows = 1..Len(rows) /\ \A i \in 1..n : s[i] = g[i + 1].cells
    BY DEF RowsOf
  <2>4. f \in [1..n -> 1..Len(rows)] /\ \A i \in 1..n : f[i] = g[i + 1].w
    BY <2>2
  <2> HIDE DEF s, f
  <2>5. ASSUME NEW i \in 1..n, NEW j \in 1..n, i < j PROVE f[i] < f[j]
    <3>1. i + 1 < j + 1 /\ i + 1 \in 1..Len(g) /\ j + 1 \in 1..Len(g)
      BY <2>1, <2>5
    <3>2. InOrder(g[i + 1], g[j + 1])
      BY <1>0, <3>1 DEF Ordered
    <3> QED
      BY <2>2, <2>4, <3>2 DEF InOrder
  <2>6. \A i \in 1..n : s[i] = rows[f[i]]
    BY <2>2, <2>3, <2>4
  <2>7. Writer!IsSubsequence(s, rows)
    <3>1. f \in [DOMAIN s -> DOMAIN rows]
      BY <2>3, <2>4
    <3>2. \A i, j \in DOMAIN s : i < j => f[i] < f[j]
      BY <2>3, <2>5
    <3>3. \A i \in DOMAIN s : s[i] = rows[f[i]]
      BY <2>3, <2>6
    <3> QED
      BY <3>1, <3>2, <3>3 DEF Writer!IsSubsequence
  <2> QED
    BY <2>7 DEF s, n
<1> QED
  BY <1>1, <1>2

LEMMA FailedRead ==
  ASSUME NEW g \in Seq(Piece), NEW rows, NEW fs, NEW fin,
         "failed" \in fs, "cancelled" \notin fs, "last" \notin fs, Lawful(g, <<>>, <<>>, rows, fs, fin)
  PROVE  Telling(g) /\ ~Proper(g)
<1>0. /\ OfRows(All(g, <<>>, <<>>), rows, fs) /\ Shown(All(g, <<>>, <<>>), fs)
      /\ All(g, <<>>, <<>>) = Els(g) /\ Len(g) \in Nat
  BY ElsOne DEF All, Lawful
<1>1. Telling(g)
  <2> SUFFICES ASSUME NEW i \in 1..Len(g), g[i].kind = "part" PROVE Told(g[i].c, g[i].partial)
    BY DEF Telling
  <2>1. g[i] \in Els(g)
    BY DEF Els
  <2> QED
    BY <1>0, <2>1 DEF OfRows
<1>2. PICK i \in 1..Len(g) : g[i].kind = "part"
  BY <1>0 DEF Shown, Els
<1>3. ~Proper(g)
  <2> SUFFICES ASSUME Proper(g) PROVE FALSE
    OBVIOUS
  <2>1. i = 1 \/ i = Len(g) \/ (1 < i /\ i < Len(g))
    BY <1>0
  <2> QED
    BY <1>2, <2>1 DEF Proper
<1> QED
  BY <1>1, <1>3

-----------------------------------------------------------------------------
(* The writer.                                                             *)

WriterTyped ==
  /\ writer \in {"raw", "binary"} /\ then \in {"out", "done", "extend"} /\ calls \in Nat
  /\ rawBuf \in Seq(Tokens) /\ rowBuf \in Seq(Tokens) /\ sinkBuf \in Seq(Tokens)
  /\ item \in Seq(Tokens) /\ wire \in Seq(Tokens) /\ chan \in Seq(Messages)

\* What the sink has been given: it is in it, in the channel, or with the server.
Sunk == Passed(wire, chan, sinkBuf)
Finishing == at \in {"done", "finished"} \/ (at \in {"ready", "flush"} /\ then = "done")

WriterFlow ==
  /\ at # "ready" => item = <<>>
  /\ at \in {"done", "finished"} => sinkBuf = <<>>
  /\ \A i \in 1..Len(chan) : chan[i].type = "done" => i = Len(chan) /\ at = "finished"
  /\ copy = "ended" => chan = <<>> /\ at = "finished"
  /\ writer = "binary" => at # "extend" /\ ~(at \in {"ready", "flush"} /\ then = "extend")

LEMMA LimitIs == Limit \in Nat \ {0}
BY BoundsAssumption

LEMMA SunkIs == WriterTyped => Sunk \in Seq(Tokens)
BY PassedOn, EmptySeq DEF WriterTyped, Sunk

\* A message more.
LEMMA Pushed ==
  ASSUME WriterTyped, NEW m \in Messages, chan' = Append(chan, m)
  PROVE  /\ chan' \in Seq(Messages) /\ Len(chan) \in Nat /\ Len(chan') = Len(chan) + 1
         /\ \A i \in 1..Len(chan) : chan'[i] = chan[i]
         /\ chan'[Len(chan) + 1] = m
<1>1. chan \in Seq(Messages)
  BY DEF WriterTyped
<1> QED
  BY <1>1, AppendProperties

LEMMA ReadyStep ==
  ASSUME WriterTyped, WriterFlow, Writer!Ready
  PROVE  WriterTyped' /\ WriterFlow' /\ Sunk' = Sunk \o item
<1>1. /\ at = "ready" /\ at' = "flush" /\ item' = <<>>
      /\ UNCHANGED <<writer, rawBuf, pinned, rowBuf, then, calls, written, faults, wire, copy>>
      /\ Writer!StartSend(item)
  BY DEF Writer!Ready, Writer!served
<1>2. /\ sinkBuf \in Seq(Tokens) /\ item \in Seq(Tokens) /\ wire \in Seq(Tokens) /\ chan \in Seq(Messages)
      /\ writer \in {"raw", "binary"} /\ then \in {"out", "done", "extend"} /\ calls \in Nat
      /\ rawBuf \in Seq(Tokens) /\ rowBuf \in Seq(Tokens)
  BY DEF WriterTyped
<1> DEFINE z == sinkBuf \o item
           m == [type |-> "data", data |-> z]
<1>3. z \in Seq(Tokens) /\ <<>> \in Seq(Tokens)
  BY <1>2, ConcatProperties, EmptySeq
<1>4. m \in Messages /\ m.data = z /\ m.type = "data"
  BY <1>3 DEF Messages
<1>5. Passed(wire, chan, z) = Passed(wire, chan, sinkBuf) \o item
  BY <1>2, PassedOn
<1>6. \/ chan' = Append(chan, m) /\ sinkBuf' = <<>>
      \/ sinkBuf' = z /\ chan' = chan
  BY <1>1 DEF Writer!StartSend, Writer!Push
<1> HIDE DEF z, m
<1>7. CASE chan' = Append(chan, m) /\ sinkBuf' = <<>>
  <2>1. /\ chan' \in Seq(Messages) /\ Len(chan) \in Nat /\ Len(chan') = Len(chan) + 1
        /\ \A i \in 1..Len(chan) : chan'[i] = chan[i]
        /\ chan'[Len(chan) + 1] = m
    BY <1>4, <1>7, Pushed
  <2>2. WriterTyped'
    BY <1>1, <1>2, <1>3, <1>7, <2>1 DEF WriterTyped
  <2>3. ASSUME NEW i \in 1..Len(chan'), chan'[i].type = "done" PROVE FALSE
    <3>1. CASE i \in 1..Len(chan)
      BY <1>1, <2>1, <2>3, <3>1 DEF WriterFlow
    <3>2. CASE i = Len(chan) + 1
      BY <1>4, <2>1, <2>3, <3>2
    <3>3. i \in 1..Len(chan) \/ i = Len(chan) + 1
      BY <2>1
    <3> QED
      BY <3>1, <3>2, <3>3
  <2>4. WriterFlow'
    BY <1>1, <2>3 DEF WriterFlow
  <2>5. Passed(wire, Append(chan, m), <<>>) = Passed(wire, chan, z)
    BY <1>2, <1>3, <1>4, PassedOn
  <2>6. Sunk' = Passed(wire, Append(chan, m), <<>>)
    BY <1>1, <1>7 DEF Sunk
  <2> QED
    BY <1>5, <2>2, <2>4, <2>5, <2>6 DEF Sunk
<1>8. CASE sinkBuf' = z /\ chan' = chan
  <2>1. WriterTyped'
    BY <1>1, <1>2, <1>3, <1>8 DEF WriterTyped
  <2>2. WriterFlow'
    BY <1>1, <1>8 DEF WriterFlow
  <2>3. Sunk' = Passed(wire, chan, z)
    BY <1>1, <1>8 DEF Sunk
  <2> QED
    BY <1>5, <2>1, <2>2, <2>3 DEF Sunk
<1> QED
  BY <1>6, <1>7, <1>8

LEMMA FlushStep ==
  ASSUME WriterTyped, WriterFlow, Writer!Flush
  PROVE  WriterTyped' /\ WriterFlow' /\ Sunk' = Sunk
<1>1. /\ at = "flush"
      /\ UNCHANGED <<writer, rawBuf, pinned, rowBuf, item, then, calls, written, faults, wire, copy>>
      /\ \/ /\ chan' = Append(chan, [type |-> "data", data |-> sinkBuf]) /\ sinkBuf' = <<>>
            /\ at' = at
         \/ sinkBuf = <<>> /\ UNCHANGED <<chan, sinkBuf>> /\ at' = then
  BY DEF Writer!Flush, Writer!served, Writer!sink, Writer!Push
<1>2. /\ sinkBuf \in Seq(Tokens) /\ item \in Seq(Tokens) /\ wire \in Seq(Tokens) /\ chan \in Seq(Messages)
      /\ writer \in {"raw", "binary"} /\ then \in {"out", "done", "extend"} /\ calls \in Nat
      /\ rawBuf \in Seq(Tokens) /\ rowBuf \in Seq(Tokens) /\ <<>> \in Seq(Tokens)
  BY EmptySeq DEF WriterTyped
<1> DEFINE m == [type |-> "data", data |-> sinkBuf]
<1>4. m \in Messages /\ m.data = sinkBuf /\ m.type = "data"
  BY <1>2 DEF Messages
<1>6. \/ chan' = Append(chan, m) /\ sinkBuf' = <<>> /\ at' = at
      \/ sinkBuf = <<>> /\ UNCHANGED <<chan, sinkBuf>> /\ at' = then
  BY <1>1
<1> HIDE DEF m
<1>7. CASE chan' = Append(chan, m) /\ sinkBuf' = <<>> /\ at' = at
  <2>1. /\ chan' \in Seq(Messages) /\ Len(chan) \in Nat /\ Len(chan') = Len(chan) + 1
        /\ \A i \in 1..Len(chan) : chan'[i] = chan[i]
        /\ chan'[Len(chan) + 1] = m
    BY <1>4, <1>7, Pushed
  <2>2. WriterTyped'
    BY <1>1, <1>2, <1>7, <2>1 DEF WriterTyped
  <2>3. ASSUME NEW i \in 1..Len(chan'), chan'[i].type = "done" PROVE FALSE
    <3>1. CASE i \in 1..Len(chan)
      BY <1>1, <2>1, <2>3, <3>1 DEF WriterFlow
    <3>2. CASE i = Len(chan) + 1
      BY <1>4, <2>1, <2>3, <3>2
    <3>3. i \in 1..Len(chan) \/ i = Len(chan) + 1
      BY <2>1
    <3> QED
      BY <3>1, <3>2, <3>3
  <2>4. WriterFlow'
    BY <1>1, <1>7, <2>3 DEF WriterFlow
  <2>5. Passed(wire, Append(chan, m), <<>>) = Passed(wire, chan, sinkBuf)
    BY <1>2, <1>4, PassedOn
  <2>6. Sunk' = Passed(wire, Append(chan, m), <<>>)
    BY <1>1, <1>7 DEF Sunk
  <2> QED
    BY <2>2, <2>4, <2>5, <2>6 DEF Sunk
<1>8. CASE sinkBuf = <<>> /\ UNCHANGED <<chan, sinkBuf>> /\ at' = then
  <2>1. WriterTyped'
    BY <1>1, <1>2, <1>8 DEF WriterTyped
  <2>2. WriterFlow'
    BY <1>1, <1>2, <1>8 DEF WriterFlow
  <2> QED
    BY <1>1, <1>8, <2>1, <2>2 DEF Sunk
<1> QED
  BY <1>6, <1>7, <1>8

LEMMA DoneStep ==
  ASSUME WriterTyped, WriterFlow, Writer!Done
  PROVE  WriterTyped' /\ WriterFlow' /\ Sunk' = Sunk
<1> DEFINE m == [type |-> "done", data |-> <<>>]
<1>1. /\ at = "done" /\ at' = "finished" /\ chan' = Append(chan, m)
      /\ UNCHANGED <<writer, rawBuf, pinned, rowBuf, sinkBuf, item, then, calls, written, faults,
                     wire, copy>>
  BY DEF Writer!Done, Writer!served, Writer!Push
<1>2. /\ sinkBuf \in Seq(Tokens) /\ item \in Seq(Tokens) /\ wire \in Seq(Tokens) /\ chan \in Seq(Messages)
      /\ writer \in {"raw", "binary"} /\ then \in {"out", "done", "extend"} /\ calls \in Nat
      /\ rawBuf \in Seq(Tokens) /\ rowBuf \in Seq(Tokens) /\ <<>> \in Seq(Tokens)
  BY EmptySeq DEF WriterTyped
<1>3. sinkBuf = <<>> /\ copy # "ended"
  BY <1>1 DEF WriterFlow
<1>4. m \in Messages /\ m.data = sinkBuf
  BY <1>2, <1>3 DEF Messages
<1> HIDE DEF m
<1>5. /\ chan' \in Seq(Messages) /\ Len(chan) \in Nat /\ Len(chan') = Len(chan) + 1
      /\ \A i \in 1..Len(chan) : chan'[i] = chan[i]
      /\ chan'[Len(chan) + 1] = m
  BY <1>1, <1>4, Pushed
<1>6. WriterTyped'
  BY <1>1, <1>2, <1>5 DEF WriterTyped
<1>7. ASSUME NEW i \in 1..Len(chan'), chan'[i].type = "done" PROVE i = Len(chan')
  <2>1. CASE i \in 1..Len(chan)
    BY <1>1, <1>5, <1>7, <2>1 DEF WriterFlow
  <2>2. i \in 1..Len(chan) \/ i = Len(chan) + 1
    BY <1>5
  <2> QED
    BY <1>5, <2>1, <2>2
<1>8. WriterFlow'
  BY <1>1, <1>3, <1>7 DEF WriterFlow
<1>9. Passed(wire, Append(chan, m), <<>>) = Passed(wire, chan, sinkBuf)
  BY <1>2, <1>4, PassedOn
<1>10. Sunk' = Passed(wire, Append(chan, m), <<>>)
  BY <1>1, <1>3 DEF Sunk
<1> QED
  BY <1>6, <1>8, <1>9, <1>10 DEF Sunk

LEMMA ReceiveStep ==
  ASSUME WriterTyped, WriterFlow, Writer!Receive
  PROVE  WriterTyped' /\ WriterFlow' /\ Sunk' = Sunk
<1> DEFINE h == Head(chan)
<1>1. /\ chan # <<>> /\ copy = "open" /\ chan' = Tail(chan)
      /\ UNCHANGED <<writer, rawBuf, pinned, rowBuf, sinkBuf, at, item, then, calls, written, faults>>
      /\ \/ h.type = "done" /\ copy' = "ended" /\ wire' = wire
         \/ h.type # "done" /\ wire' = wire \o h.data /\ copy' = copy
  BY DEF Writer!Receive
<1>2. /\ sinkBuf \in Seq(Tokens) /\ item \in Seq(Tokens) /\ wire \in Seq(Tokens) /\ chan \in Seq(Messages)
      /\ writer \in {"raw", "binary"} /\ then \in {"out", "done", "extend"} /\ calls \in Nat
      /\ rawBuf \in Seq(Tokens) /\ rowBuf \in Seq(Tokens) /\ <<>> \in Seq(Tokens)
  BY EmptySeq DEF WriterTyped
<1>3. /\ chan' \in Seq(Messages) /\ h \in Messages /\ h = chan[1] /\ h.data \in Seq(Tokens)
      /\ Len(chan') = Len(chan) - 1 /\ Len(chan) \in Nat /\ Len(chan) >= 1
      /\ \A i \in 1..Len(chan') : chan'[i] = chan[i + 1]
  BY <1>1, <1>2, CarriedLess, HeadTailProperties, EmptySeq
<1> HIDE DEF h
<1>4. wire \o h.data \in Seq(Tokens)
  BY <1>2, <1>3, ConcatProperties
<1>5. wire' = wire \o h.data
  <2>1. CASE h.type = "done"
    <3>1. h.data = <<>> /\ wire' = wire
      BY <1>1, <1>3, <2>1 DEF Messages
    <3> QED
      BY <1>2, <3>1, Regroup
  <2> QED
    BY <1>1, <2>1
<1>6. WriterTyped'
  BY <1>1, <1>2, <1>3, <1>4, <1>5 DEF WriterTyped
<1>7. Sunk' = Sunk
  <2>1. Passed(wire \o Head(chan).data, Tail(chan), sinkBuf) = Passed(wire, chan, sinkBuf)
    BY <1>1, <1>2, PassedOn
  <2> QED
    BY <1>1, <1>5, <2>1 DEF Sunk, h
<1> DEFINE lc == Len(chan)
           lt == Len(chan')
<1>11. lt = lc - 1 /\ lc \in Nat /\ lc >= 1
  BY <1>3
<1> HIDE DEF lc, lt
<1>8. ASSUME NEW i \in 1..lt, chan'[i].type = "done" PROVE i = lt /\ at' = "finished"
  <2>1. i + 1 \in 1..lc /\ chan[i + 1].type = "done"
    <3>1. i + 1 \in 1..lc
      BY <1>11
    <3> QED
      BY <1>3, <1>8, <3>1 DEF lt
  <2>2. i + 1 = lc /\ at = "finished"
    BY <2>1 DEF WriterFlow, lc
  <2>3. i = lt
    BY <1>11, <2>2
  <2> QED
    BY <1>1, <2>2, <2>3
<1>9. ASSUME copy' = "ended" PROVE chan' = <<>> /\ at' = "finished"
  <2>1. h.type = "done" /\ 1 \in 1..lc
    BY <1>1, <1>9, <1>11
  <2>2. 1 = lc /\ at = "finished"
    BY <1>3, <2>1 DEF WriterFlow, lc
  <2>3. Len(chan') = 0
    <3>1. lt = 0
      BY <1>11, <2>2
    <3> QED
      BY <3>1 DEF lt
  <2>4. chan' = <<>>
    BY <1>3, <2>3, EmptySeq
  <2> QED
    BY <1>1, <2>2, <2>4
<1>10. WriterFlow'
  BY <1>1, <1>8, <1>9 DEF WriterFlow, lt
<1> QED
  BY <1>6, <1>7, <1>10

LEMMA CancelStep ==
  ASSUME WriterTyped, WriterFlow, Writer!Cancel
  PROVE  WriterTyped' /\ WriterFlow' /\ Sunk' = Sunk
<1>1. /\ at \in {"ready", "flush", "done"} /\ at' = "out" /\ item' = <<>>
      /\ UNCHANGED <<writer, rawBuf, pinned, rowBuf, sinkBuf, chan, then, calls, written, wire, copy>>
  BY DEF Writer!Cancel, Writer!sink, Writer!served
<1>2. WriterTyped'
  BY <1>1, EmptySeq DEF WriterTyped
<1>3. WriterFlow'
  BY <1>1 DEF WriterFlow
<1> QED
  BY <1>1, <1>2, <1>3 DEF Sunk

\* The calls themselves touch neither the sink nor what is after it.
LEMMA CallStep ==
  ASSUME WriterTyped, WriterFlow, UNCHANGED <<sinkBuf, chan, wire, copy>>,
         writer' \in {"raw", "binary"}, then' \in {"out", "done", "extend"}, calls' \in Nat,
         rawBuf' \in Seq(Tokens), rowBuf' \in Seq(Tokens), item' \in Seq(Tokens),
         at' \in {"out", "ready", "flush", "extend"}, at' # "ready" => item' = <<>>,
         at \in {"out", "extend"},
         writer' = "binary" => at' # "extend" /\ ~(at' \in {"ready", "flush"} /\ then' = "extend")
  PROVE  WriterTyped' /\ WriterFlow' /\ Sunk' = Sunk
<1>1. WriterTyped'
  BY DEF WriterTyped
<1>2. WriterFlow'
  BY DEF WriterFlow
<1> QED
  BY <1>1, <1>2 DEF Sunk

\* The raw writer: what it was given is with the sink, in the send, or in the buffer.
RawState ==
  /\ faults = {} /\ written = (Sunk \o item) \o rawBuf
  /\ Finishing => rawBuf = <<>>
  /\ ~pinned => at = "out" /\ Sunk = <<>>

\* The binary writer: the same of whole pieces.
Holding(g, h, k, fin) ==
  /\ g \in Seq(Piece) /\ h \in Seq(Piece) /\ k \in Seq(Piece) /\ fin \in BOOLEAN
  /\ Sunk = Bytes(g) /\ item = Bytes(h) /\ rowBuf = Bytes(k)
  /\ at # "ready" => h = <<>>
  /\ fin = TRUE => k = <<>>
  /\ fin = TRUE <=> Finishing
  /\ Lawful(g, h, k, written, faults, fin)
BinaryState == written \in Seq(TableRow) /\ \E g, h, k, fin : Holding(g, h, k, fin)

WriterInv ==
  /\ WriterTyped /\ WriterFlow
  /\ writer = "raw" => RawState
  /\ writer = "binary" => BinaryState

LEMMA WriterStart == Writer!Init => WriterInv
<1> SUFFICES ASSUME Writer!Init PROVE WriterInv
  OBVIOUS
<1>1. /\ writer = "raw" /\ rawBuf = <<>> /\ pinned = FALSE /\ rowBuf = <<>>
      /\ sinkBuf = <<>> /\ chan = <<>> /\ at = "out" /\ item = <<>> /\ then = "out"
      /\ calls = 0 /\ written = <<>> /\ faults = {} /\ wire = <<>> /\ copy = "open"
  BY DEF Writer!Init
<1>2. WriterTyped
  BY <1>1, EmptySeq DEF WriterTyped
<1>3. WriterFlow
  BY <1>1 DEF WriterFlow
<1>4. Sunk = <<>>
  <2>1. Sunk = (<<>> \o <<>>) \o <<>>
    BY <1>1, CarriedNothing DEF Sunk, Passed
  <2> QED
    BY <2>1
<1>5. RawState
  <2>1. (<<>> \o <<>>) \o <<>> = <<>>
    OBVIOUS
  <2> QED
    BY <1>1, <1>4, <2>1 DEF RawState
<1> QED
  BY <1>1, <1>2, <1>3, <1>5 DEF WriterInv

-----------------------------------------------------------------------------
(* The raw writer.                                                         *)

\* What a raw writer is made of.
LEMMA RawParts ==
  ASSUME WriterTyped
  PROVE  /\ Sunk \in Seq(Tokens) /\ item \in Seq(Tokens) /\ rawBuf \in Seq(Tokens)
         /\ Sunk \o item \in Seq(Tokens) /\ <<>> \in Seq(Tokens)
         /\ (Sunk \o item) \o <<>> = Sunk \o item
         /\ (Sunk \o <<>>) \o rawBuf = (Sunk \o rawBuf) \o <<>>
BY SunkIs, Regroup, EmptySeq DEF WriterTyped

LEMMA RawDataIs == calls \in Nat => Writer!RawData \in Seq(Tokens)
<1> SUFFICES ASSUME calls \in Nat PROVE Writer!RawData \in Seq(Tokens)
  OBVIOUS
<1>1. Writer!Token("raw", calls + 1) \in Tokens
  BY DEF Writer!Token, Tokens, Names
<1>2. Writer!RawData \in [1..3 -> Tokens]
  BY <1>1 DEF Writer!RawData
<1> QED
  BY <1>2, SeqDef

LEMMA RawExtended ==
  ASSUME WriterTyped, RawState, at \in {"out", "extend"}, at' = "out", item' = item,
         rawBuf' = rawBuf \o Writer!RawData, written' = written \o Writer!RawData,
         pinned' = pinned, faults' = faults, Sunk' = Sunk
  PROVE  RawState'
<1> DEFINE s == Sunk \o item
           z == Writer!RawData
<1>1. s \in Seq(Tokens) /\ rawBuf \in Seq(Tokens) /\ z \in Seq(Tokens)
  BY RawParts, RawDataIs DEF WriterTyped
<1> HIDE DEF s, z
<1>2. (s \o rawBuf) \o z = s \o (rawBuf \o z)
  BY <1>1, Regroup
<1>3. written' = (Sunk' \o item') \o rawBuf'
  BY <1>2 DEF RawState, s, z
<1> QED
  BY <1>3 DEF RawState, Finishing

\* The buffer goes out.
LEMMA RawSent ==
  ASSUME WriterTyped, RawState, item = <<>>, at' = "ready", item' = rawBuf, rawBuf' = <<>>,
         pinned' = TRUE, written' = written, faults' = faults, Sunk' = Sunk
  PROVE  RawState'
<1>1. written = (Sunk \o <<>>) \o rawBuf
  BY DEF RawState
<1>2. written' = (Sunk' \o item') \o rawBuf'
  BY <1>1, RawParts
<1> QED
  BY <1>2 DEF RawState, Finishing

LEMMA RawCalls ==
  ASSUME WriterInv, writer = "raw",
         Writer!RawWrite \/ Writer!RawExtend \/ Writer!RawFlush \/ Writer!RawFinish
  PROVE  WriterInv'
<1>0. WriterTyped /\ WriterFlow /\ RawState
  BY DEF WriterInv
<1>1. /\ item = <<>> \/ at = "ready"
      /\ rawBuf \in Seq(Tokens) /\ rowBuf \in Seq(Tokens) /\ item \in Seq(Tokens) /\ calls \in Nat
      /\ then \in {"out", "done", "extend"} /\ <<>> \in Seq(Tokens)
  BY <1>0, EmptySeq DEF WriterFlow, WriterTyped
<1>2. rawBuf \o Writer!RawData \in Seq(Tokens)
  BY <1>1, RawDataIs, ConcatProperties
<1>3. ASSUME at \in {"out", "extend"}, at' \in {"out", "extend"}, calls' \in Nat,
             UNCHANGED <<writer, pinned, rowBuf, sinkBuf, chan, item, then, faults, wire, copy>>,
             rawBuf' = rawBuf \o Writer!RawData, written' = written \o Writer!RawData,
             at' = "out"
      PROVE  WriterInv'
  <2>1. item = <<>> /\ item' = <<>> /\ at' = "out"
    BY <1>1, <1>3
  <2>2. WriterTyped' /\ WriterFlow' /\ Sunk' = Sunk
    BY <1>0, <1>1, <1>2, <1>3, <2>1, CallStep
  <2>3. RawState'
    BY <1>0, <1>3, <2>2, RawExtended
  <2> QED
    BY <1>3, <2>2, <2>3 DEF WriterInv
<1>4. ASSUME at = "out", NEW x \in {"out", "done", "extend"}, then' = x,
             at' = "ready", item' = rawBuf, rawBuf' = <<>>, pinned' = TRUE,
             UNCHANGED <<writer, rowBuf, sinkBuf, chan, calls, written, faults, wire, copy>>
      PROVE  WriterInv'
  <2>1. item = <<>>
    BY <1>1, <1>4
  <2>2. WriterTyped' /\ WriterFlow' /\ Sunk' = Sunk
    BY <1>0, <1>1, <1>4, <2>1, CallStep
  <2>3. RawState'
    BY <1>0, <1>4, <2>1, <2>2, RawSent
  <2> QED
    BY <1>4, <2>2, <2>3 DEF WriterInv
<1>5. CASE Writer!RawWrite
  <2>1. /\ at = "out"
        /\ UNCHANGED <<writer, rowBuf, sinkBuf, chan, faults, wire, copy>>
        /\ IF Len(rawBuf) > Limit
             THEN Writer!FlushInner("extend") /\ UNCHANGED <<calls, written>>
             ELSE /\ rawBuf' = rawBuf \o Writer!RawData /\ written' = written \o Writer!RawData
                  /\ calls' = calls + 1 /\ UNCHANGED <<at, pinned, item, then>>
    BY <1>5 DEF Writer!RawWrite, Writer!sink, Writer!served
  <2>2. CASE Len(rawBuf) > Limit
    <3>1. rawBuf # <<>>
      <4>1. Limit \in Nat /\ Len(<<>>) = 0
        BY LimitIs
      <4> QED
        BY <2>2, <4>1
    <3>2. /\ at' = "ready" /\ item' = rawBuf /\ then' = "extend" /\ rawBuf' = <<>> /\ pinned' = TRUE
          /\ UNCHANGED <<calls, written>>
      BY <2>1, <2>2, <3>1 DEF Writer!FlushInner, Writer!Send
    <3> QED
      BY <1>4, <2>1, <3>2
  <2>3. CASE ~(Len(rawBuf) > Limit)
    <3>1. calls' \in Nat
      BY <1>1, <2>1, <2>3
    <3> QED
      BY <1>3, <2>1, <2>3, <3>1
  <2> QED
    BY <2>2, <2>3
<1>6. CASE Writer!RawExtend
  <2>1. /\ at = "extend" /\ at' = "out" /\ calls' = calls + 1
        /\ UNCHANGED <<writer, pinned, rowBuf, sinkBuf, chan, item, then, faults, wire, copy>>
        /\ rawBuf' = rawBuf \o Writer!RawData /\ written' = written \o Writer!RawData
    BY <1>6 DEF Writer!RawExtend, Writer!sink, Writer!served
  <2>2. calls' \in Nat
    BY <1>1, <2>1
  <2> QED
    BY <1>3, <2>1, <2>2
<1>7. CASE Writer!RawFlush
  <2>1. /\ at = "out" /\ rawBuf # <<>> /\ Writer!FlushInner("out")
        /\ UNCHANGED <<writer, rowBuf, sinkBuf, chan, calls, written, faults, wire, copy>>
    BY <1>7 DEF Writer!RawFlush, Writer!sink, Writer!served
  <2>2. at' = "ready" /\ item' = rawBuf /\ then' = "out" /\ rawBuf' = <<>> /\ pinned' = TRUE
    BY <2>1 DEF Writer!FlushInner, Writer!Send
  <2> QED
    BY <1>4, <2>1, <2>2
<1>8. CASE Writer!RawFinish
  <2>1. /\ at = "out"
        /\ UNCHANGED <<writer, rowBuf, sinkBuf, chan, calls, written, faults, wire, copy>>
        /\ IF rawBuf = <<>>
             THEN at' = "flush" /\ then' = "done" /\ pinned' = TRUE /\ UNCHANGED <<rawBuf, item>>
             ELSE Writer!FlushInner("done")
    BY <1>8 DEF Writer!RawFinish, Writer!sink, Writer!served
  <2>2. CASE rawBuf # <<>>
    <3>1. at' = "ready" /\ item' = rawBuf /\ then' = "done" /\ rawBuf' = <<>> /\ pinned' = TRUE
      BY <2>1, <2>2 DEF Writer!FlushInner, Writer!Send
    <3> QED
      BY <1>4, <2>1, <3>1
  <2>3. CASE rawBuf = <<>>
    <3>1. /\ at' = "flush" /\ then' = "done" /\ pinned' = TRUE /\ UNCHANGED <<rawBuf, item>>
          /\ item = <<>>
      BY <1>1, <2>1, <2>3
    <3>2. WriterTyped' /\ WriterFlow' /\ Sunk' = Sunk
      BY <1>0, <1>1, <2>1, <3>1, CallStep
    <3>3. RawState'
      BY <1>0, <2>1, <2>3, <3>1, <3>2 DEF RawState, Finishing
    <3> QED
      BY <2>1, <3>2, <3>3 DEF WriterInv
  <2> QED
    BY <2>2, <2>3
<1> QED
  BY <1>5, <1>6, <1>7, <1>8

-----------------------------------------------------------------------------
(* The binary writer.                                                      *)

LEMMA SomePiece ==
  /\ [i \in 1..Columns |-> -1] \in TableRow /\ 1 \in 1..Columns
  /\ \A kind \in {"header", "trailer"} :
       [kind |-> kind, w |-> 0, cells |-> [i \in 1..Columns |-> -1], c |-> 1, partial |-> FALSE] \in Piece
<1>1. Columns \in Nat \ {0}
  BY ColumnsAre
<1>2. -1 \in Cells
  BY DEF Cells, Reader!Short
<1>3. [i \in 1..Columns |-> -1] \in TableRow /\ 1 \in 1..Columns
  BY <1>1, <1>2 DEF TableRow
<1> QED
  BY <1>3 DEF Piece

LEMMA BinaryNewStep ==
  ASSUME WriterInv, Writer!BinaryNew
  PROVE  WriterInv'
<1>1. /\ writer = "raw" /\ at = "out" /\ ~pinned /\ writer' = "binary" /\ rowBuf' = <<Writer!Header>>
      /\ faults' = (IF rawBuf = <<>> THEN faults ELSE faults \cup {"dropped"})
      /\ rawBuf' = <<>> /\ written' = <<>>
      /\ UNCHANGED <<pinned, sinkBuf, chan, at, item, then, calls, wire, copy>>
  BY DEF Writer!BinaryNew, Writer!sink, Writer!served
<1>2. WriterTyped /\ WriterFlow /\ RawState
  BY <1>1 DEF WriterInv
<1>3. Sunk = <<>> /\ item = <<>> /\ faults' \subseteq {"dropped"} /\ ~Finishing'
  BY <1>1, <1>2 DEF RawState, WriterFlow, Finishing
<1> DEFINE x == [kind |-> "header", w |-> 0, cells |-> [i \in 1..Columns |-> -1], c |-> 1, partial |-> FALSE]
<1>4. x \in Piece /\ x.kind = "header"
  BY SomePiece
<1> HIDE DEF x
<1>5. <<x>> \in Seq(Piece) /\ Bytes(<<x>>) = <<Writer!Header>> /\ Enc(x) \in Seq(Tokens)
  BY <1>4, BytesOne, PieceIs
<1>6. rowBuf' \in Seq(Tokens)
  <2>1. Enc(x) = <<Writer!Header>>
    BY <1>4, PieceIs
  <2> QED
    BY <1>1, <1>5, <2>1
<1>7. WriterTyped' /\ WriterFlow' /\ Sunk' = Sunk
  <2>1. then \in {"out", "done", "extend"} /\ calls \in Nat /\ <<>> \in Seq(Tokens)
    BY <1>2, EmptySeq DEF WriterTyped
  <2> QED
    BY <1>1, <1>2, <1>3, <1>6, <2>1, CallStep
<1>8. Lawful(<<>>, <<>>, <<x>>, <<>>, faults', FALSE)
  BY <1>3, <1>4, LawfulNew
<1>9. Holding(<<>>, <<>>, <<x>>, FALSE)'
  BY <1>1, <1>3, <1>5, <1>7, <1>8, BytesNone DEF Holding
<1>10. written' \in Seq(TableRow)
  BY <1>1, EmptySeq
<1>11. BinaryState'
  BY <1>9, <1>10 DEF BinaryState
<1> QED
  BY <1>1, <1>7, <1>11 DEF WriterInv

LEMMA BinaryWriteStep ==
  ASSUME WriterInv, Writer!BinaryWrite
  PROVE  WriterInv'
<1>1. /\ writer = "binary" /\ at = "out" /\ calls' = calls + 1
      /\ UNCHANGED <<writer, rawBuf, pinned, sinkBuf, chan, faults, wire, copy>>
      /\ \E cells \in Writer!Rows :
           /\ written' = Append(written, cells)
           /\ IF Len(rowBuf \o Writer!EncodedRow(cells)) > Limit
                THEN Writer!Send(rowBuf \o Writer!EncodedRow(cells), "out") /\ rowBuf' = <<>>
                ELSE rowBuf' = rowBuf \o Writer!EncodedRow(cells) /\ UNCHANGED <<at, item, then>>
  BY DEF Writer!BinaryWrite, Writer!sink, Writer!served
<1>2. WriterTyped /\ WriterFlow /\ BinaryState
  BY <1>1 DEF WriterInv
<1>3. PICK cells \in Writer!Rows :
           /\ written' = Append(written, cells)
           /\ IF Len(rowBuf \o Writer!EncodedRow(cells)) > Limit
                THEN Writer!Send(rowBuf \o Writer!EncodedRow(cells), "out") /\ rowBuf' = <<>>
                ELSE rowBuf' = rowBuf \o Writer!EncodedRow(cells) /\ UNCHANGED <<at, item, then>>
  BY <1>1
<1>4. cells \in TableRow
  <2>1. calls \in Nat
    BY <1>2 DEF WriterTyped
  <2>2. -1 \in Cells /\ calls + 1 \in Cells
    BY <2>1 DEF Cells, Reader!Short
  <2> QED
    BY <2>2 DEF Writer!Rows, Writer!Null, TableRow
<1>5. PICK g, h, k, fin : Holding(g, h, k, fin)
  BY <1>2 DEF BinaryState
<1>6. /\ g \in Seq(Piece) /\ k \in Seq(Piece) /\ h = <<>> /\ fin = FALSE
      /\ Sunk = Bytes(g) /\ rowBuf = Bytes(k) /\ item = <<>>
      /\ Lawful(g, <<>>, k, written, faults, FALSE)
  BY <1>1, <1>5, BytesNone DEF Holding, Finishing
<1>7. written \in Seq(TableRow) /\ Len(written) \in Nat /\ Append(written, cells) \in Seq(TableRow)
  <2>1. written \in Seq(TableRow)
    BY <1>2 DEF BinaryState
  <2> QED
    BY <1>4, <2>1
<1> DEFINE x == [kind |-> "row", w |-> Len(written) + 1, cells |-> cells, c |-> 1, partial |-> FALSE]
           q == Append(k, x)
           b == rowBuf \o Writer!EncodedRow(cells)
<1>8. x \in Piece /\ x.kind = "row" /\ x.cells = cells /\ x.w = Len(written) + 1
  BY <1>4, <1>7, SomePiece DEF Piece
<1> HIDE DEF x
<1>9. q \in Seq(Piece) /\ Bytes(q) = b /\ b \in Seq(Tokens)
  <2>1. Enc(x) = Writer!EncodedRow(cells)
    BY <1>8, PieceIs
  <2>2. q \in Seq(Piece) /\ Bytes(q) = b
    BY <1>6, <1>8, <2>1, BytesMore
  <2> QED
    BY <2>2, EncsAre
<1>10. Lawful(g, <<>>, q, Append(written, cells), faults, FALSE)
  BY <1>6, <1>7, <1>8, LawfulRow
<1> HIDE DEF q, b
<1>15. PICK r : r = q
  OBVIOUS
<1>11. written' = Append(written, cells) /\ written' \in Seq(TableRow) /\ calls' \in Nat
  <2>1. calls \in Nat
    BY <1>2 DEF WriterTyped
  <2> QED
    BY <1>1, <1>3, <1>7, <2>1
<1>12. then \in {"out", "done", "extend"} /\ rawBuf \in Seq(Tokens) /\ <<>> \in Seq(Tokens)
  BY <1>2, EmptySeq DEF WriterTyped
<1>13. CASE at' = "ready" /\ item' = b /\ then' = "out" /\ rowBuf' = <<>>
  <2>1. WriterTyped' /\ WriterFlow' /\ Sunk' = Sunk
    BY <1>1, <1>2, <1>9, <1>11, <1>12, <1>13, CallStep
  <2>2. Lawful(g, q, <<>>, Append(written, cells), faults, FALSE)
    BY <1>6, <1>9, <1>10, LawfulMoved
  <2>3. Holding(g, r, <<>>, FALSE)'
    <3>1. /\ Sunk' = Bytes(g) /\ item' = Bytes(q) /\ rowBuf' = Bytes(<<>>) /\ ~Finishing' /\ at' = "ready"
          /\ <<>> \in Seq(Piece)
      BY <1>1, <1>6, <1>9, <1>13, <2>1, BytesNone DEF Finishing
    <3>2. Lawful(g, q, <<>>, written', faults', FALSE)
      BY <1>1, <1>11, <2>2
    <3> QED
      BY <1>6, <1>9, <1>15, <3>1, <3>2 DEF Holding
  <2>4. BinaryState'
    BY <1>11, <2>3 DEF BinaryState
  <2> QED
    BY <1>1, <2>1, <2>4 DEF WriterInv
<1>14. CASE rowBuf' = b /\ UNCHANGED <<at, item, then>>
  <2>1. WriterTyped' /\ WriterFlow' /\ Sunk' = Sunk
    BY <1>1, <1>2, <1>6, <1>9, <1>11, <1>12, <1>14, CallStep
  <2>2. Holding(g, <<>>, r, FALSE)'
    <3>1. /\ Sunk' = Bytes(g) /\ item' = Bytes(<<>>) /\ rowBuf' = Bytes(q) /\ ~Finishing'
          /\ <<>> \in Seq(Piece)
      BY <1>1, <1>6, <1>9, <1>14, <2>1, BytesNone DEF Finishing
    <3>2. Lawful(g, <<>>, q, written', faults', FALSE)
      BY <1>1, <1>10, <1>11
    <3> QED
      BY <1>6, <1>9, <1>15, <3>1, <3>2 DEF Holding
  <2>3. BinaryState'
    BY <1>11, <2>2 DEF BinaryState
  <2> QED
    BY <1>1, <2>1, <2>3 DEF WriterInv
<1> QED
  BY <1>3, <1>13, <1>14 DEF Writer!Send, b

LEMMA BinaryFailsStep ==
  ASSUME WriterInv, Writer!BinaryWriteFails
  PROVE  WriterInv'
<1>1. /\ writer = "binary" /\ at = "out" /\ calls' = calls + 1
      /\ UNCHANGED <<writer, rawBuf, pinned, sinkBuf, chan, at, item, then, written, wire, copy>>
      /\ \E cells \in Writer!Rows, c \in 1..Columns, partial \in BOOLEAN :
           /\ rowBuf' = rowBuf \o Writer!Remains(cells, c, partial)
           /\ faults' = faults \cup {IF c = Columns /\ ~partial THEN "last" ELSE "failed"}
  BY DEF Writer!BinaryWriteFails, Writer!sink, Writer!served
<1>2. WriterTyped /\ WriterFlow /\ BinaryState
  BY <1>1 DEF WriterInv
<1>3. PICK cells \in Writer!Rows, c \in 1..Columns, partial \in BOOLEAN :
           /\ rowBuf' = rowBuf \o Writer!Remains(cells, c, partial)
           /\ faults' = faults \cup {IF c = Columns /\ ~partial THEN "last" ELSE "failed"}
  BY <1>1
<1>0. calls \in Nat
  BY <1>2 DEF WriterTyped
<1>4. cells \in TableRow
  <2>2. -1 \in Cells /\ calls + 1 \in Cells
    BY <1>0 DEF Cells, Reader!Short
  <2> QED
    BY <2>2 DEF Writer!Rows, Writer!Null, TableRow
<1>5. PICK g, h, k, fin : Holding(g, h, k, fin)
  BY <1>2 DEF BinaryState
<1>6. /\ g \in Seq(Piece) /\ k \in Seq(Piece) /\ h = <<>> /\ fin = FALSE
      /\ Sunk = Bytes(g) /\ rowBuf = Bytes(k) /\ item = <<>>
      /\ Lawful(g, <<>>, k, written, faults, FALSE)
  BY <1>1, <1>5, BytesNone DEF Holding, Finishing
<1> DEFINE x == [kind |-> "part", w |-> calls + 1, cells |-> cells, c |-> c, partial |-> partial]
           q == Append(k, x)
           f == IF Told(c, partial) THEN "failed" ELSE "last"
<1>8. /\ x \in Piece /\ x.kind = "part" /\ x.cells = cells /\ x.w = calls + 1 /\ x.c = c
      /\ x.partial = partial
  BY <1>0, <1>4 DEF Piece
<1> HIDE DEF x
<1>9. q \in Seq(Piece) /\ Bytes(q) = rowBuf' /\ rowBuf' \in Seq(Tokens)
  <2>1. Enc(x) = Remnant(cells, c, partial, calls + 1)
    BY <1>8, PieceIs
  <2>2. Writer!Remains(cells, c, partial) = Remnant(cells, c, partial, calls + 1)
    BY DEF Writer!Remains, Remnant
  <2>3. q \in Seq(Piece) /\ Bytes(q) = rowBuf'
    BY <1>3, <1>6, <1>8, <2>1, <2>2, BytesMore
  <2>4. Bytes(q) \in Seq(Tokens)
    BY <2>3, EncsAre
  <2> QED
    BY <2>3, <2>4
<1>10. faults' = faults \cup {f}
  <2>1. Columns \in Nat /\ c \in Nat /\ c <= Columns
    BY ColumnsAre
  <2>2. CASE partial = TRUE
    BY <1>3, <2>2 DEF Told
  <2>3. CASE partial = FALSE
    <3>1. c = Columns <=> ~(c < Columns)
      BY <2>1
    <3>2. Told(c, partial) <=> c < Columns
      BY <2>3 DEF Told
    <3> QED
      BY <1>3, <2>3, <3>1, <3>2
  <2> QED
    BY <2>2, <2>3
<1> HIDE DEF f
<1>11. Lawful(g, <<>>, q, written, faults', FALSE)
  <2>1. f = IF Told(x.c, x.partial) THEN "failed" ELSE "last"
    BY <1>8 DEF f
  <2> QED
    BY <1>6, <1>8, <1>10, <2>1, LawfulPart
<1> HIDE DEF q
<1>16. PICK r : r = q
  OBVIOUS
<1>12. /\ then \in {"out", "done", "extend"} /\ rawBuf \in Seq(Tokens) /\ <<>> \in Seq(Tokens)
       /\ written \in Seq(TableRow) /\ calls' \in Nat
  BY <1>0, <1>1, <1>2, EmptySeq DEF WriterTyped, BinaryState
<1>13. WriterTyped' /\ WriterFlow' /\ Sunk' = Sunk
  BY <1>1, <1>2, <1>6, <1>9, <1>12, CallStep
<1>14. Holding(g, <<>>, r, FALSE)'
  <2>1. /\ Sunk' = Bytes(g) /\ item' = Bytes(<<>>) /\ rowBuf' = Bytes(q) /\ ~Finishing' /\ <<>> \in Seq(Piece)
    BY <1>1, <1>6, <1>9, <1>13, BytesNone DEF Finishing
  <2>2. Lawful(g, <<>>, q, written', faults', FALSE)
    BY <1>1, <1>11
  <2> QED
    BY <1>6, <1>9, <1>16, <2>1, <2>2 DEF Holding
<1>15. BinaryState'
  BY <1>1, <1>12, <1>14 DEF BinaryState
<1> QED
  BY <1>1, <1>13, <1>15 DEF WriterInv

LEMMA BinaryFinishStep ==
  ASSUME WriterInv, Writer!BinaryFinish
  PROVE  WriterInv'
<1>1. /\ writer = "binary" /\ at = "out" /\ calls' = calls + 1
      /\ rowBuf' = <<>> /\ at' = "ready" /\ item' = Append(rowBuf, Writer!Trailer) /\ then' = "done"
      /\ UNCHANGED <<writer, rawBuf, pinned, sinkBuf, chan, written, faults, wire, copy>>
  BY DEF Writer!BinaryFinish, Writer!sink, Writer!served, Writer!Send
<1>2. WriterTyped /\ WriterFlow /\ BinaryState
  BY <1>1 DEF WriterInv
<1>5. PICK g, h, k, fin : Holding(g, h, k, fin)
  BY <1>2 DEF BinaryState
<1>6. /\ g \in Seq(Piece) /\ k \in Seq(Piece) /\ h = <<>> /\ fin = FALSE
      /\ Sunk = Bytes(g) /\ rowBuf = Bytes(k) /\ item = <<>>
      /\ Lawful(g, <<>>, k, written, faults, FALSE)
  BY <1>1, <1>5, BytesNone DEF Holding, Finishing
<1>7. written \in Seq(TableRow) /\ calls' \in Nat /\ rowBuf \in Seq(Tokens) /\ rawBuf \in Seq(Tokens)
      /\ <<>> \in Seq(Tokens)
  <2>1. calls \in Nat
    BY <1>2 DEF WriterTyped
  <2> QED
    BY <1>1, <1>2, <2>1, EmptySeq DEF WriterTyped, BinaryState
<1> DEFINE x == [kind |-> "trailer", w |-> 0, cells |-> [i \in 1..Columns |-> -1], c |-> 1, partial |-> FALSE]
           q == Append(k, x)
<1>8. x \in Piece /\ x.kind = "trailer"
  BY SomePiece
<1> HIDE DEF x
<1>9. q \in Seq(Piece) /\ Bytes(q) = item' /\ item' \in Seq(Tokens)
  <2>1. Enc(x) = <<Writer!Trailer>> /\ Enc(x) \in Seq(Tokens)
    BY <1>8, PieceIs
  <2>2. q \in Seq(Piece) /\ Bytes(q) = rowBuf \o <<Writer!Trailer>>
    BY <1>6, <1>8, <2>1, BytesMore
  <2>3. Writer!Trailer \in Tokens
    BY <2>1
  <2>4. Append(rowBuf, Writer!Trailer) = rowBuf \o <<Writer!Trailer>>
    BY <1>7, <2>3, AppendIsConcat
  <2>5. Bytes(q) \in Seq(Tokens)
    BY <2>2, EncsAre
  <2> QED
    BY <1>1, <2>2, <2>4, <2>5
<1>10. Lawful(g, <<>>, q, written, faults, TRUE)
  BY <1>6, <1>7, <1>8, LawfulTrailer
<1> HIDE DEF q
<1>11. Lawful(g, q, <<>>, written, faults, TRUE)
  BY <1>6, <1>9, <1>10, LawfulMoved
<1>12. WriterTyped' /\ WriterFlow' /\ Sunk' = Sunk
  BY <1>1, <1>2, <1>7, <1>9, CallStep
<1>13. Holding(g, q, <<>>, TRUE)'
  BY <1>1, <1>6, <1>9, <1>11, <1>12, BytesNone DEF Holding, Finishing
<1>14. BinaryState'
  BY <1>1, <1>7, <1>13 DEF BinaryState
<1> QED
  BY <1>1, <1>12, <1>14 DEF WriterInv

\* The sink takes what `send' holds.
LEMMA ReadyKeeps ==
  ASSUME WriterInv, Writer!Ready
  PROVE  WriterInv'
<1>1. /\ at = "ready" /\ at' = "flush" /\ item' = <<>>
      /\ UNCHANGED <<writer, rawBuf, pinned, rowBuf, then, written, faults>>
  BY DEF Writer!Ready
<1>2. WriterTyped /\ WriterFlow
  BY DEF WriterInv
<1>3. WriterTyped' /\ WriterFlow' /\ Sunk' = Sunk \o item
  BY <1>2, ReadyStep
<1>4. Finishing' <=> Finishing
  BY <1>1 DEF Finishing
<1>5. ASSUME RawState PROVE RawState'
  <2>1. written' = (Sunk' \o item') \o rawBuf'
    BY <1>1, <1>2, <1>3, <1>5, RawParts DEF RawState
  <2>2. pinned' /\ faults' = {} /\ (Finishing' => rawBuf' = <<>>)
    BY <1>1, <1>4, <1>5 DEF RawState
  <2> QED
    BY <2>1, <2>2 DEF RawState
<1>6. ASSUME BinaryState PROVE BinaryState'
  <2>1. PICK g, h, k, fin : Holding(g, h, k, fin)
    BY <1>6 DEF BinaryState
  <2>2. /\ g \in Seq(Piece) /\ h \in Seq(Piece) /\ k \in Seq(Piece)
        /\ Sunk = Bytes(g) /\ item = Bytes(h) /\ rowBuf = Bytes(k)
        /\ Lawful(g, h, k, written, faults, fin)
    BY <2>1 DEF Holding
  <2>3. /\ g \o h \in Seq(Piece) /\ Bytes(g \o h) = Bytes(g) \o Bytes(h)
        /\ Lawful(g \o h, <<>>, k, written, faults, fin)
    BY <2>2, BytesJoined, LawfulSent
  <2>4. Sunk' = Bytes(g \o h) /\ item' = Bytes(<<>>) /\ rowBuf' = Bytes(k) /\ <<>> \in Seq(Piece)
    BY <1>1, <1>3, <2>2, <2>3, BytesNone
  <2>5. Lawful(g \o h, <<>>, k, written', faults', fin)
    BY <1>1, <2>3
  <2>6. fin \in BOOLEAN /\ (fin = TRUE => k = <<>>) /\ (fin = TRUE <=> Finishing')
    BY <1>4, <2>1 DEF Holding
  <2>7. Holding(g \o h, <<>>, k, fin)'
    BY <2>2, <2>3, <2>4, <2>5, <2>6 DEF Holding
  <2> QED
    BY <1>1, <1>6, <2>7 DEF BinaryState
<1> QED
  BY <1>1, <1>3, <1>5, <1>6 DEF WriterInv

\* What only moves on what the sink has.
LEMMA SinkKeeps ==
  ASSUME WriterInv, WriterTyped', WriterFlow', Sunk' = Sunk,
         UNCHANGED <<writer, rawBuf, pinned, rowBuf, item, written, faults>>,
         at' # "ready" \/ at = "ready", at = "out" => at' = "out", Finishing' <=> Finishing
  PROVE  WriterInv'
<1>5. ASSUME RawState PROVE RawState'
  BY <1>5 DEF RawState
<1>6. ASSUME BinaryState PROVE BinaryState'
  <2>1. PICK g, h, k, fin : Holding(g, h, k, fin)
    BY <1>6 DEF BinaryState
  <2>2. /\ g \in Seq(Piece) /\ h \in Seq(Piece) /\ k \in Seq(Piece) /\ fin \in BOOLEAN
        /\ Sunk = Bytes(g) /\ item = Bytes(h) /\ rowBuf = Bytes(k)
        /\ (fin = TRUE => k = <<>>) /\ (fin = TRUE <=> Finishing) /\ (at # "ready" => h = <<>>)
        /\ Lawful(g, h, k, written, faults, fin)
    BY <2>1 DEF Holding
  <2>3. at' # "ready" => h = <<>>
    <3>1. CASE at # "ready"
      BY <2>2, <3>1
    <3>2. CASE at = "ready" /\ at' # "ready"
      <4>1. item = <<>>
        BY <3>2 DEF WriterFlow
      <4>2. h = <<>>
        <5>1. Bytes(h) = <<>> /\ Len(Bytes(h)) = 0
          BY <2>2, <4>1
        <5>2. ASSUME h # <<>> PROVE FALSE
          <6>1. Len(h) \in Nat /\ 0 + 1 <= Len(h) /\ 1 \in 1..Len(h)
            BY <2>2, <5>2, EmptySeq
          <6>2. At(h, 0 + 1) = At(h, 0) + Len(Enc(h[0 + 1])) /\ At(h, 0 + 1) <= Len(Bytes(h))
                /\ At(h, 0) \in Nat
            BY <2>2, <6>1, PieceAt
          <6>3. h[1] \in Piece
            BY <2>2, <6>1
          <6>4. Len(Enc(h[1])) \in Nat /\ Len(Enc(h[1])) >= 1
            BY <6>3, PieceIs
          <6> QED
            BY <5>1, <6>2, <6>4
        <5> QED
          BY <5>2
      <4> QED
        BY <4>2
    <3> QED
      BY <3>1, <3>2
  <2>4. Holding(g, h, k, fin)'
    BY <2>2, <2>3 DEF Holding
  <2> QED
    BY <1>6, <2>4 DEF BinaryState
<1> QED
  BY <1>5, <1>6 DEF WriterInv

LEMMA CancelKeeps ==
  ASSUME WriterInv, Writer!Cancel
  PROVE  WriterInv'
<1>1. /\ writer = "binary" /\ at' = "out" /\ item' = <<>> /\ faults' = faults \cup {"cancelled"}
      /\ UNCHANGED <<writer, rowBuf, written>>
  BY DEF Writer!Cancel
<1>2. WriterTyped /\ WriterFlow /\ BinaryState
  BY <1>1 DEF WriterInv
<1>3. WriterTyped' /\ WriterFlow' /\ Sunk' = Sunk
  BY <1>2, CancelStep
<1>4. PICK g, h, k, fin : Holding(g, h, k, fin)
  BY <1>2 DEF BinaryState
<1>5. /\ g \in Seq(Piece) /\ h \in Seq(Piece) /\ k \in Seq(Piece)
      /\ Sunk = Bytes(g) /\ rowBuf = Bytes(k) /\ Lawful(g, h, k, written, faults, fin)
  BY <1>4 DEF Holding
<1>6. Lawful(g, <<>>, k, written', faults', FALSE)
  BY <1>1, <1>5, LawfulCancelled
<1>7. /\ Sunk' = Bytes(g) /\ item' = Bytes(<<>>) /\ rowBuf' = Bytes(k) /\ ~Finishing'
      /\ <<>> \in Seq(Piece)
  BY <1>1, <1>3, <1>5, BytesNone DEF Finishing
<1>8. Holding(g, <<>>, k, FALSE)'
  BY <1>5, <1>6, <1>7 DEF Holding
<1>9. BinaryState'
  BY <1>1, <1>2, <1>8 DEF BinaryState
<1> QED
  BY <1>1, <1>3, <1>9 DEF WriterInv

LEMMA WriterNext == ASSUME WriterInv, Writer!Next \/ UNCHANGED Writer!vars PROVE WriterInv'
<1>0. WriterTyped /\ WriterFlow /\ writer \in {"raw", "binary"} /\ then \in {"out", "done", "extend"}
  BY DEF WriterInv, WriterTyped
<1>1. CASE Writer!Ready
  BY <1>1, ReadyKeeps
<1>2. CASE Writer!Flush
  <2>1. WriterTyped' /\ WriterFlow' /\ Sunk' = Sunk
    BY <1>0, <1>2, FlushStep
  <2>2. /\ at = "flush" /\ at' \in {"flush", then}
        /\ UNCHANGED <<writer, rawBuf, pinned, rowBuf, item, then, written, faults>>
    BY <1>2 DEF Writer!Flush
  <2>3. Finishing' <=> Finishing
    BY <1>0, <2>2 DEF Finishing
  <2>4. at' # "ready" /\ at # "out"
    BY <1>0, <2>2
  <2> QED
    BY <2>1, <2>2, <2>3, <2>4, SinkKeeps
<1>3. CASE Writer!Done
  <2>1. WriterTyped' /\ WriterFlow' /\ Sunk' = Sunk
    BY <1>0, <1>3, DoneStep
  <2>2. /\ at = "done" /\ at' = "finished"
        /\ UNCHANGED <<writer, rawBuf, pinned, rowBuf, item, then, written, faults>>
    BY <1>3 DEF Writer!Done
  <2>3. Finishing' <=> Finishing
    BY <2>2 DEF Finishing
  <2> QED
    BY <2>1, <2>2, <2>3, SinkKeeps
<1>4. CASE Writer!Cancel
  BY <1>4, CancelKeeps
<1>5. CASE Writer!RawWrite \/ Writer!RawFlush \/ Writer!RawFinish
  <2>1. writer = "raw"
    BY <1>5 DEF Writer!RawWrite, Writer!RawFlush, Writer!RawFinish
  <2> QED
    BY <1>5, <2>1, RawCalls
<1>6. CASE Writer!RawExtend
  <2>1. at = "extend"
    BY <1>6 DEF Writer!RawExtend
  <2>2. writer = "raw"
    BY <1>0, <2>1 DEF WriterFlow
  <2> QED
    BY <1>6, <2>2, RawCalls
<1>7. CASE Writer!BinaryNew
  BY <1>7, BinaryNewStep
<1>8. CASE Writer!BinaryWrite
  BY <1>8, BinaryWriteStep
<1>9. CASE Writer!BinaryWriteFails
  BY <1>9, BinaryFailsStep
<1>10. CASE Writer!BinaryFinish
  BY <1>10, BinaryFinishStep
<1>11. CASE Writer!Receive
  <2>1. WriterTyped' /\ WriterFlow' /\ Sunk' = Sunk
    BY <1>0, <1>11, ReceiveStep
  <2>2. UNCHANGED <<writer, rawBuf, pinned, rowBuf, at, item, then, written, faults>>
    BY <1>11 DEF Writer!Receive
  <2>3. Finishing' <=> Finishing
    BY <2>2 DEF Finishing
  <2> QED
    BY <2>1, <2>2, <2>3, SinkKeeps
<1>12. CASE Writer!DropWriter
  <2>1. /\ at = "out" /\ copy' = "aborted"
        /\ UNCHANGED <<writer, rawBuf, pinned, rowBuf, sinkBuf, chan, at, item, then, calls, written,
                       faults, wire>>
    BY <1>12 DEF Writer!DropWriter, Writer!sink
  <2>2. WriterTyped'
    BY <1>0, <2>1 DEF WriterTyped
  <2>3. WriterFlow'
    BY <1>0, <2>1 DEF WriterFlow
  <2>4. Sunk' = Sunk /\ (Finishing' <=> Finishing)
    BY <2>1 DEF Sunk, Finishing
  <2> QED
    BY <2>1, <2>2, <2>3, <2>4, SinkKeeps
<1>13. CASE UNCHANGED Writer!vars
  <2>1. UNCHANGED <<writer, rawBuf, pinned, rowBuf, sinkBuf, chan, at, item, then, calls, written,
                    faults, wire, copy>>
    BY <1>13 DEF Writer!vars
  <2>2. WriterTyped'
    BY <1>0, <2>1 DEF WriterTyped
  <2>3. WriterFlow'
    BY <1>0, <2>1 DEF WriterFlow
  <2>4. Sunk' = Sunk /\ (Finishing' <=> Finishing)
    BY <2>1 DEF Sunk, Finishing
  <2> QED
    BY <2>1, <2>2, <2>3, <2>4, SinkKeeps
<1> QED
  BY <1>1, <1>2, <1>3, <1>4, <1>5, <1>6, <1>7, <1>8, <1>9, <1>10, <1>11, <1>12, <1>13 DEF Writer!Next

-----------------------------------------------------------------------------
(* A copy that has ended.                                                  *)

LEMMA WriterEnded ==
  ASSUME WriterInv, copy = "ended"
  PROVE  Sunk = wire /\ item = <<>> /\ Finishing
<1>1. chan = <<>> /\ at = "finished" /\ sinkBuf = <<>> /\ item = <<>> /\ wire \in Seq(Tokens)
  BY DEF WriterInv, WriterFlow, WriterTyped
<1>2. Sunk = wire
  BY <1>1, CarriedNothing, Regroup DEF Sunk, Passed
<1> QED
  BY <1>1, <1>2 DEF Finishing

LEMMA BinaryEnded ==
  ASSUME WriterInv, copy = "ended", writer = "binary"
  PROVE  \E g \in Seq(Piece) :
           /\ wire = Bytes(g) /\ written \in Seq(TableRow)
           /\ Lawful(g, <<>>, <<>>, written, faults, TRUE)
           /\ Writer!Accepted => g # <<>> /\ g[1].kind = "header"
           /\ g # <<>> /\ g[1].kind = "header" => wire # <<>> /\ wire[1] = Writer!Header
<1>1. Sunk = wire /\ item = <<>> /\ Finishing /\ at = "finished"
  BY WriterEnded DEF WriterInv, WriterFlow
<1>2. PICK g, h, k, fin : Holding(g, h, k, fin) /\ written \in Seq(TableRow)
  BY DEF WriterInv, BinaryState
<1>3. /\ g \in Seq(Piece) /\ wire = Bytes(g) /\ written \in Seq(TableRow)
      /\ Lawful(g, <<>>, <<>>, written, faults, TRUE)
  BY <1>1, <1>2 DEF Holding
<1>4. ASSUME g # <<>>
      PROVE  /\ wire # <<>> /\ wire[1] = Enc(g[1])[1] /\ g[1] \in Piece
  <2>1. Len(g) \in Nat /\ 0 + 1 <= Len(g) /\ 1 \in 1..Len(g)
    BY <1>3, <1>4, EmptySeq
  <2>2. Bears(Bytes(g), At(g, 0), Enc(g[0 + 1])) /\ At(g, 0) = 0
    BY <1>3, <2>1, PieceAt, EncsAre
  <2>3. g[1] \in Piece
    BY <1>3, <2>1
  <2>4. Len(Enc(g[1])) \in Nat /\ Len(Enc(g[1])) >= 1
    BY <2>3, PieceIs
  <2>5. 0 + Len(Enc(g[1])) <= Len(wire) /\ \A j \in 1..Len(Enc(g[1])) : wire[0 + j] = Enc(g[1])[j]
    BY <1>3, <2>2 DEF Bears
  <2>6. 1 \in 1..Len(Enc(g[1])) /\ 0 + 1 = 1
    BY <2>4
  <2>7. wire[1] = Enc(g[1])[1]
    BY <2>5, <2>6
  <2>8. wire # <<>>
    <3>1. Len(<<>>) = 0
      OBVIOUS
    <3> QED
      BY <2>4, <2>5, <3>1
  <2> QED
    BY <2>3, <2>7, <2>8
<1>5. Writer!Accepted => g # <<>> /\ g[1].kind = "header"
  <2> SUFFICES ASSUME Writer!Accepted PROVE g # <<>> /\ g[1].kind = "header"
    OBVIOUS
  <2>1. wire # <<>> /\ wire[1] = Writer!Header
    BY DEF Writer!Accepted
  <2>2. g # <<>>
    BY <1>3, <2>1, BytesNone
  <2> QED
    BY <1>4, <2>1, <2>2, PieceIs
<1>6. g # <<>> /\ g[1].kind = "header" => wire # <<>> /\ wire[1] = Writer!Header
  <2> SUFFICES ASSUME g # <<>>, g[1].kind = "header" PROVE wire # <<>> /\ wire[1] = Writer!Header
    OBVIOUS
  <2>1. wire # <<>> /\ wire[1] = Enc(g[1])[1] /\ g[1] \in Piece
    BY <1>4
  <2>2. Enc(g[1]) = <<Writer!Header>>
    BY <2>1, PieceIs
  <2> QED
    BY <2>1, <2>2
<1> QED
  BY <1>3, <1>5, <1>6

LEMMA WriterArrives == WriterInv => Writer!WrittenArrives
<1> SUFFICES ASSUME WriterInv, copy = "ended", faults = {}
             PROVE  IF writer = "raw" THEN wire = written
                    ELSE Writer!Inserted /\ Writer!Decoded = written
  BY DEF Writer!WrittenArrives
<1>1. Sunk = wire /\ item = <<>> /\ Finishing
  BY WriterEnded
<1>2. CASE writer = "raw"
  <2>1. written = (wire \o <<>>) \o <<>> /\ wire \in Seq(Tokens)
    BY <1>1, <1>2 DEF WriterInv, RawState, WriterTyped
  <2>2. wire \o <<>> = wire
    BY <2>1, Regroup
  <2> QED
    BY <1>2, <2>1, <2>2
<1>3. CASE writer # "raw"
  <2>0. writer = "binary"
    BY <1>3 DEF WriterInv, WriterTyped
  <2>1. PICK g \in Seq(Piece) :
          /\ wire = Bytes(g) /\ written \in Seq(TableRow)
          /\ Lawful(g, <<>>, <<>>, written, faults, TRUE)
          /\ Writer!Accepted => g # <<>> /\ g[1].kind = "header"
          /\ g # <<>> /\ g[1].kind = "header" => wire # <<>> /\ wire[1] = Writer!Header
    BY <2>0, BinaryEnded
  <2>2. /\ g # <<>> /\ g[1].kind = "header" /\ Telling(g) /\ Proper(g)
        /\ RowsOf(g, Len(g) - 2) = written
    BY <2>1, CleanRead
  <2>3. Writer!RowsAt(wire, 2).end = "good" /\ Writer!RowsAt(wire, 2).rows = written
    BY <2>1, <2>2, PiecesRead
  <2>4. Writer!Accepted /\ Writer!Decoded = written
    BY <2>1, <2>2, <2>3 DEF Writer!Accepted, Writer!Decoded
  <2> QED
    BY <1>3, <2>0, <2>4 DEF Writer!Inserted
<1> QED
  BY <1>2, <1>3

LEMMA WriterWholeRows == WriterInv => Writer!OnlyWholeRows
<1> SUFFICES ASSUME WriterInv, Writer!Inserted
             PROVE  /\ faults \subseteq {"cancelled"} => Writer!IsSubsequence(Writer!Decoded, written)
                    /\ "failed" \in faults => {"cancelled", "last"} \cap faults # {}
  BY DEF Writer!OnlyWholeRows
<1>1. writer = "binary" /\ copy = "ended" /\ Writer!Accepted
  BY DEF Writer!Inserted
<1>2. PICK g \in Seq(Piece) :
          /\ wire = Bytes(g) /\ written \in Seq(TableRow)
          /\ Lawful(g, <<>>, <<>>, written, faults, TRUE)
          /\ Writer!Accepted => g # <<>> /\ g[1].kind = "header"
          /\ g # <<>> /\ g[1].kind = "header" => wire # <<>> /\ wire[1] = Writer!Header
  BY <1>1, BinaryEnded
<1>3. g # <<>> /\ g[1].kind = "header" /\ Writer!RowsAt(wire, 2).end = "good"
  BY <1>1, <1>2 DEF Writer!Accepted
<1>4. ASSUME Telling(g)
      PROVE  Proper(g) /\ Writer!Decoded = RowsOf(g, Len(g) - 2)
  BY <1>2, <1>3, <1>4, PiecesRead DEF Writer!Decoded
<1>5. ASSUME faults \subseteq {"cancelled"} PROVE Writer!IsSubsequence(Writer!Decoded, written)
  <2>1. Telling(g) /\ (Proper(g) => Writer!IsSubsequence(RowsOf(g, Len(g) - 2), written))
    BY <1>2, <1>5, CancelledRead
  <2> QED
    BY <1>4, <2>1
<1>6. ASSUME "failed" \in faults, {"cancelled", "last"} \cap faults = {} PROVE FALSE
  <2>1. "cancelled" \notin faults /\ "last" \notin faults
    BY <1>6
  <2>2. Telling(g) /\ ~Proper(g)
    BY <1>2, <1>6, <2>1, FailedRead
  <2> QED
    BY <1>4, <2>2
<1> QED
  BY <1>5, <1>6
=============================================================================
