---------------------------- MODULE ClientDataProofs ---------------------------
(***************************************************************************)
(* The parts of the client data: passwords, where whoever is let in has    *)
(* the password that was stored and the two ends have seen one exchange;   *)
(* answers, by what AnswersProofs shows of one; messages from the server   *)
(* and both directions of a COPY, by what DataProofs shows of them.        *)
(***************************************************************************)
EXTENDS MCClientData, DataProofs, SequenceTheorems, TLAPS

-----------------------------------------------------------------------------
(* The invariant.                                                          *)

Sasl == peer.method = "sasl"

\* What neither end changes.
Ends ==
  /\ stored \in Login!Stored
  /\ faults \in Nat
  /\ DOMAIN peer = {"method", "plus", "nonce", "seen"}
  /\ peer.method \in Login!Methods(stored)
  /\ peer.plus \in BOOLEAN
  /\ DOMAIN client = {"password", "endpoint", "binding", "nonce", "state", "salted", "auth",
                      "message"}
  /\ client.password \in Login!Passwords
  /\ client.endpoint \in {"none", "own", "other"}
  /\ client.nonce = "n"

\* The answer to a request for the password.
Answered ==
  phase = "judged" =>
    \/ peer.method = "cleartext" /\ net = client.password
    \/ peer.method = "md5" /\ net = Login!Md5Answer(Login!User, client.password, "fresh")

\* The client's first message goes by a list of mechanisms, the server's own unless
\* that was altered.
Opened ==
  phase = "first" =>
    /\ Sasl
    /\ client.state = "update"
    /\ \E offer \in {{"scram"}, {"scram", "plus"}} :
         /\ client.binding = Login!Binding(client, offer)
         /\ net = <<Login!Mechanism(client, offer)>> \o Login!ClientFirst(client)
         /\ faults = 0 => offer = Login!Offer

\* From the server's first message on the two agree on the binding.
InExchange == phase \in {"continue", "proof", "final"}
SeenFirst == <<Login!Attr("r", peer.nonce), Login!Attr("s", stored.salt),
               Login!Attr("i", stored.count)>>
Bound ==
  InExchange =>
    /\ Sasl
    /\ client.binding = IF client.endpoint = "none" THEN "unsupported"
                        ELSE IF peer.plus THEN "endpoint" ELSE "unrequested"
    /\ peer.nonce = <<client.nonce, "s">>
    /\ peer.seen = [gs2 |-> Login!Gs2(client.binding), nonce |-> client.nonce,
                    first |-> SeenFirst]

Challenged ==
  phase = "continue" => client.state = "update" /\ (faults = 0 => net = SeenFirst)

\* What the client has made of the message it has read.
HasRead == client.auth[2]
ClientProof == Login!Xor(Login!ClientKey(client.salted),
                   Login!Hmac(Login!Hash(Login!ClientKey(client.salted)), client.auth))
Responded ==
  phase \in {"proof", "final"} =>
    /\ client.state = "finish"
    /\ client.salted = Login!Hi(Login!Normalize(client.password), Login!SaltOf(HasRead),
                                Login!CountOf(HasRead))
    /\ client.auth = Login!AuthMessage(client.nonce, HasRead,
                                       Login!Final(client, Login!NonceOf(HasRead)))
    /\ faults = 0 => HasRead = SeenFirst

Proving ==
  phase = "proof" =>
    net = <<Login!Attr("c", Login!CbindInput(client)),
            Login!Attr("r", Login!NonceOf(HasRead)), Login!Attr("p", ClientProof)>>

\* The exchange the server has seen, and what it verifies of it.
ServerAuth ==
  Login!AuthMessage(peer.seen.nonce, peer.seen.first,
                    Login!Final(client, Login!NonceOf(HasRead)))
Certified == client.binding = "endpoint" => client.endpoint = "own"
Verifies ==
  /\ Login!NonceOf(HasRead) = peer.nonce
  /\ Certified
  /\ Login!Hash(Login!ClientKey(client.salted)) = stored.storedKey
  /\ ClientProof = Login!Xor(Login!ClientKey(client.salted),
                       Login!Hmac(stored.storedKey, ServerAuth))

\* The server's last message is its own, or none that the client takes for it.
Concluded ==
  phase = "final" =>
    \/ Verifies /\ net = <<Login!Attr("v", Login!Hmac(stored.serverKey, ServerAuth))>>
    \/ /\ Login!FinalMessage(net) => net[1][2][2] = <<"another key">>
       /\ faults > 0 \/ ~Login!Shared \/ (client.endpoint = "other" /\ peer.plus)

LoginInv ==
  part = "scram" =>
    /\ phase \in {"ask", "judged", "first", "continue", "proof", "final", "accepted", "refused"}
    /\ Ends /\ Answered /\ Opened /\ Bound /\ Challenged
    /\ Responded /\ Proving /\ Concluded /\ Login!Agreement

-----------------------------------------------------------------------------
(* One part of a behaviour.                                                *)

\* A behaviour of the exchange starts and goes on as the exchange does.
LEMMA LoginStart == ASSUME Init, part = "scram" PROVE Login!Init
BY DEF Init

LEMMA LoginStep ==
  ASSUME [Next]_vars
  PROVE  /\ part' = part
         /\ part = "scram" =>
              \/ Login!Next
              \/ UNCHANGED <<stored, peer, client, net, faults, phase>>
<1>1. CASE Next
  BY <1>1 DEF Next
<1>2. CASE UNCHANGED vars
  BY <1>2 DEF vars, scramOnly
<1> QED
  BY <1>1, <1>2

-----------------------------------------------------------------------------
(* Hashes are terms.                                                       *)

LEMMA SameHash ==
  /\ \A x, y : Login!Hash(x) = Login!Hash(y) => x = y
  /\ \A k, x, l, y : Login!Hmac(k, x) = Login!Hmac(l, y) => k = l /\ x = y
  /\ \A k, x, l, y : Login!Xor(k, x) = Login!Xor(l, y) => k = l /\ x = y
  /\ \A p, s, i, q, t, j :
       Login!Hi(p, s, i) = Login!Hi(q, t, j) => p = q /\ s = t
BY DEF Login!Hash, Login!Hmac, Login!Xor, Login!Hi

LEMMA SameKey ==
  ASSUME NEW s, NEW t,
         Login!Hash(Login!ClientKey(s)) = Login!Hash(Login!ClientKey(t))
  PROVE  s = t
BY SameHash DEF Login!ClientKey

\* A message of three attributes and its first two.
LEMMA FirstTwo ==
  ASSUME NEW a, NEW b, NEW c
  PROVE  /\ SubSeq(<<a, b, c>>, 1, 2) = <<a, b>>
         /\ Append(<<a, b>>, c) = <<a, b, c>>
<1>1. /\ <<a, b>> \in Seq({a, b, c}) /\ <<a, b, c>> \in Seq({a, b, c})
      /\ Len(<<a, b>>) = 2 /\ Len(<<a, b, c>>) = 3
  OBVIOUS
<1> DEFINE s == SubSeq(<<a, b, c>>, 1, 2)
           t == Append(<<a, b>>, c)
<1>2. s \in Seq({a, b, c}) /\ Len(s) = 2 /\ s[1] = a /\ s[2] = b
  BY <1>1, SubSeqProperties
<1>3. t \in Seq({a, b, c}) /\ Len(t) = 3 /\ t[1] = a /\ t[2] = b /\ t[3] = c
  BY <1>1, AppendProperties
<1> HIDE DEF s, t
<1>4. s = <<a, b>>
  BY <1>1, <1>2, SeqEqual
<1>5. t = <<a, b, c>>
  BY <1>1, <1>3, SeqEqual
<1> QED
  BY <1>4, <1>5 DEF s, t

\* Two spellings of one password are normalised to one.
LEMMA SameSpelling ==
  ASSUME NEW p \in Login!Passwords, NEW q \in Login!Passwords
  PROVE  Login!Normalize(p) = Login!Normalize(q) <=>
           \E s \in Login!Spellings : {p, q} \subseteq s
BY DEF Login!Passwords, Login!Normalize, Login!Spellings

\* What is stored is a digest of a password.
LEMMA StoredIs ==
  ASSUME stored \in Login!Stored
  PROVE  \/ /\ stored.kind = "md5"
            /\ \E p \in Login!Passwords : stored = Login!EncryptMd5(p, Login!User)
         \/ /\ stored.kind = "scram"
            /\ \E p \in Login!Passwords, i \in Iterations :
                 stored = Login!EncryptScram(p, Login!Salt, i)
<1>1. CASE \E p \in Login!Passwords : stored = Login!EncryptMd5(p, Login!User)
  BY <1>1 DEF Login!EncryptMd5
<1>2. CASE \E p \in Login!Passwords, i \in Iterations :
             stored = Login!EncryptScram(p, Login!Salt, i)
  <2>1. stored.kind = "scram"
    BY <1>2 DEF Login!EncryptScram
  <2> QED
    BY <1>2, <2>1
<1> QED
  BY <1>1, <1>2 DEF Login!Stored

\* With MD5 the password is the one stored, as it was spelt.
LEMMA SharedMd5 ==
  ASSUME stored \in Login!Stored, stored.kind = "md5", client.password \in Login!Passwords
  PROVE  Login!Shared <=> stored = Login!EncryptMd5(client.password, Login!User)
<1>1. \A p \in Login!Passwords : stored = Login!EncryptMd5(p, Login!User) =>
        (Login!Same(p, client.password) <=> p = client.password)
  BY DEF Login!Same
<1>2. \A p, i : stored # Login!EncryptScram(p, Login!Salt, i)
  BY DEF Login!EncryptScram
<1> QED
  BY <1>1, <1>2 DEF Login!Shared, Login!Same

\* With SCRAM it is one that is normalised to the one stored.
LEMMA SharedScram ==
  ASSUME stored \in Login!Stored, stored.kind = "scram", client.password \in Login!Passwords
  PROVE  /\ stored.salt = Login!Salt
         /\ Login!Shared <=>
              stored = Login!EncryptScram(client.password, stored.salt, stored.count)
         /\ Login!Shared <=>
              stored.storedKey = Login!Hash(Login!ClientKey(
                Login!Hi(Login!Normalize(client.password), stored.salt, stored.count)))
<1> DEFINE q == client.password
           Key(p) == Login!Hash(Login!ClientKey(
                       Login!Hi(Login!Normalize(p), stored.salt, stored.count)))
<1>1. PICK p \in Login!Passwords, i \in Iterations :
        stored = Login!EncryptScram(p, Login!Salt, i)
  BY StoredIs
<1>2. /\ stored.salt = Login!Salt /\ stored.count = i
      /\ stored.storedKey = Key(p)
  BY <1>1 DEF Login!EncryptScram
<1>3. \A r \in Login!Passwords :
        Key(r) = Key(p) <=> Login!Normalize(r) = Login!Normalize(p)
  BY SameKey, SameHash
<1>4. \A r \in Login!Passwords : Login!Same(r, q) <=> Login!Normalize(r) = Login!Normalize(q)
  BY SameSpelling DEF Login!Same
<1>5. \A r : stored # Login!EncryptMd5(r, Login!User)
  BY DEF Login!EncryptMd5
<1>6. ASSUME Login!Shared PROVE Login!Normalize(q) = Login!Normalize(p)
  <2>1. PICK r \in Login!Passwords, j \in Iterations :
          Login!Same(r, q) /\ stored = Login!EncryptScram(r, Login!Salt, j)
    BY <1>6, <1>5 DEF Login!Shared
  <2>2. stored.storedKey = Key(r)
    BY <2>1 DEF Login!EncryptScram
  <2> QED
    BY <2>1, <2>2, <1>2, <1>3, <1>4
<1>7. ASSUME Login!Normalize(q) = Login!Normalize(p) PROVE Login!Shared
  BY <1>7, <1>1, <1>4 DEF Login!Shared
<1>8. Login!Normalize(q) = Login!Normalize(p) <=>
        stored = Login!EncryptScram(q, stored.salt, stored.count)
  <2>1. ASSUME stored = Login!EncryptScram(q, stored.salt, stored.count)
        PROVE  stored.storedKey = Key(q)
    BY <2>1 DEF Login!EncryptScram
  <2>2. ASSUME Login!Normalize(q) = Login!Normalize(p)
        PROVE  stored = Login!EncryptScram(q, stored.salt, stored.count)
    BY <2>2, <1>1, <1>2 DEF Login!EncryptScram
  <2> QED
    BY <2>1, <2>2, <1>2, <1>3
<1> QED
  BY <1>2, <1>3, <1>6, <1>7, <1>8

-----------------------------------------------------------------------------
(* The steps.                                                              *)

LoginState ==
  /\ phase \in {"ask", "judged", "first", "continue", "proof", "final", "accepted", "refused"}
  /\ Ends /\ Answered /\ Opened /\ Bound /\ Challenged
  /\ Responded /\ Proving /\ Concluded /\ Login!Agreement

LEMMA LoginInit == ASSUME Login!Init PROVE LoginState
BY DEF Login!Init, Login!NewClient, LoginState, Ends, Answered, Opened, Bound, InExchange,
       Challenged, Responded, Proving, Concluded, Login!Agreement

\* What a step leaves alone.
LEMMA SameEnds ==
  ASSUME LoginState, UNCHANGED <<stored, peer, client>>, faults' \in Nat
  PROVE  Ends'
BY DEF LoginState, Ends

LEMMA PasswordGiven ==
  ASSUME LoginState, Login!GivePassword \/ Login!GiveMd5 PROVE LoginState'
<1>1. Ends'
  BY SameEnds DEF Login!GivePassword, Login!GiveMd5, LoginState, Ends
<1>2. phase' = "judged" /\ Answered'
  BY DEF Login!GivePassword, Login!GiveMd5, Login!Goto, Answered
<1> QED
  BY <1>1, <1>2 DEF LoginState, Opened, Bound, InExchange,
       Challenged, Responded, Proving, Concluded, Login!Agreement

LEMMA KnownIsShared ==
  ASSUME LoginState, phase = "judged"
  PROVE  Login!Known <=> Login!Shared
<1> USE DEF LoginState, Ends, Answered
<1>1. CASE stored.kind = "md5" /\ peer.method = "md5"
  <2>1. net = Login!Md5Answer(Login!User, client.password, "fresh")
    BY <1>1
  <2>2. Login!Known <=> stored.digest = Login!Hash(<<client.password, Login!User>>)
    <3> DEFINE d == Login!Hash(<<client.password, Login!User>>)
    <3>1. Login!Known <=> Login!Hash(<<d, "fresh">>) = Login!Hash(<<stored.digest, "fresh">>)
      <4>1. net = Login!Hash(<<d, "fresh">>)
        BY <2>1 DEF Login!Md5Answer
      <4>2. peer.method = "md5"
        BY <1>1
      <4> HIDE DEF d, Ends, LoginState, Answered
      <4>3. ASSUME Login!Known PROVE net = Login!Hash(<<stored.digest, "fresh">>)
        BY <4>2, <4>3 DEF Login!Known
      <4>4. ASSUME net = Login!Hash(<<stored.digest, "fresh">>) PROVE Login!Known
        BY <4>2, <4>4 DEF Login!Known
      <4> QED
        BY <4>1, <4>3, <4>4
    <3>2. Login!Hash(<<d, "fresh">>) = Login!Hash(<<stored.digest, "fresh">>)
            => <<d, "fresh">> = <<stored.digest, "fresh">>
      BY SameHash
    <3> HIDE DEF d
    <3>3. Login!Known <=> stored.digest = d
      BY <3>1, <3>2
    <3> QED
      BY <3>3 DEF d
  <2>3. PICK p \in Login!Passwords : stored = Login!EncryptMd5(p, Login!User)
    BY <1>1, StoredIs
  <2> QED
    BY <1>1, <2>2, <2>3, SharedMd5 DEF Login!EncryptMd5
<1>2. CASE stored.kind = "md5" /\ peer.method # "md5"
  BY <1>2, SharedMd5 DEF Login!Known
<1>3. CASE stored.kind # "md5"
  <2>1. stored.kind = "scram"
    BY <1>3, StoredIs
  <2>2. peer.method # "md5"
    BY <1>3 DEF Login!Methods
  <2>3. net = client.password
    BY <2>2
  <2>4. Login!Known <=> Login!EncryptScram(net, stored.salt, stored.count) = stored
    BY <1>3, <2>2 DEF Login!Known
  <2> QED
    BY <2>1, <2>3, <2>4, SharedScram
<1> QED
  BY <1>1, <1>2, <1>3

LEMMA Judged ==
  ASSUME LoginState, Login!Judge PROVE LoginState'
<1>1. phase = "judged" /\ UNCHANGED <<stored, peer, client, faults>>
      /\ phase' = IF Login!Known THEN "accepted" ELSE "refused"
  BY DEF Login!Judge, Login!Goto
<1>2. Ends'
  BY <1>1, SameEnds DEF LoginState, Ends
<1>3. Login!Shared' <=> Login!Shared
  BY <1>1 DEF Login!Shared, Login!Same
<1>4. peer.method # "sasl"
  BY <1>1 DEF LoginState, Answered
<1>5. Login!Agreement'
  BY <1>1, <1>3, <1>4, KnownIsShared DEF Login!Agreement
<1> QED
  BY <1>1, <1>2, <1>5 DEF LoginState, Answered, Opened, Bound, InExchange,
       Challenged, Responded, Proving, Concluded

LEMMA Started ==
  ASSUME LoginState, Login!Start PROVE LoginState'
<1> USE DEF LoginState
<1>1. phase = "ask" /\ Sasl /\ phase' = "first" /\ UNCHANGED <<stored, peer>>
  BY DEF Login!Start, Login!Goto, Sasl
<1>2. PICK offer \in {{"scram"}, {"scram", "plus"}} :
        LET c == [client EXCEPT !.binding = Login!Binding(client, offer), !.state = "update"]
        IN /\ client' = [c EXCEPT !.message = Login!ClientFirst(c)]
           /\ faults' = faults + IF offer = Login!Offer THEN 0 ELSE 1
           /\ net' = <<Login!Mechanism(client, offer)>> \o Login!ClientFirst(c)
  BY DEF Login!Start, Login!Goto, Login!Offer
<1>3. /\ DOMAIN client' = DOMAIN client
      /\ client'.binding = Login!Binding(client, offer)
      /\ client'.state = "update"
      /\ client'.password = client.password /\ client'.endpoint = client.endpoint
      /\ client'.nonce = client.nonce
  BY <1>2 DEF Ends
<1>4. Ends'
  BY <1>1, <1>2, <1>3 DEF Ends
<1>5. Login!Binding(client', offer) = Login!Binding(client, offer)
  BY <1>3 DEF Login!Binding, Login!EndPoint
<1>6. net' = <<Login!Mechanism(client', offer)>> \o Login!ClientFirst(client')
  <2> DEFINE c == [client EXCEPT !.binding = Login!Binding(client, offer), !.state = "update"]
  <2>1. c.binding = client'.binding /\ c.nonce = client'.nonce
    BY <1>3 DEF Ends
  <2>2. Login!ClientFirst(c) = Login!ClientFirst(client')
    BY <2>1 DEF Login!ClientFirst
  <2>3. Login!Mechanism(client, offer) = Login!Mechanism(client', offer)
    BY <1>5 DEF Login!Mechanism
  <2> HIDE DEF c
  <2> QED
    BY <1>2, <2>2, <2>3 DEF c
<1>7. faults' = 0 => offer = Login!Offer'
  BY <1>1, <1>2 DEF Ends, Login!Offer
<1>8. Opened'
  BY <1>1, <1>3, <1>5, <1>6, <1>7 DEF Opened, Sasl
<1> QED
  BY <1>1, <1>4, <1>8 DEF Answered, Bound, InExchange,
       Challenged, Responded, Proving, Concluded, Login!Agreement

\* The server goes on only with the binding that both can make.
LEMMA Offered ==
  ASSUME Ends, NEW offer \in {{"scram"}, {"scram", "plus"}},
         client.binding = Login!Binding(client, offer)
  PROVE  /\ client.binding \in {"endpoint", "unrequested", "unsupported"}
         /\ client.binding = "unsupported" <=> client.endpoint = "none"
         /\ Login!Acceptable(Login!Mechanism(client, offer), Login!Gs2(client.binding)) =>
              client.binding = IF client.endpoint = "none" THEN "unsupported"
                               ELSE IF peer.plus THEN "endpoint" ELSE "unrequested"
         /\ offer = Login!Offer =>
              Login!Acceptable(Login!Mechanism(client, offer), Login!Gs2(client.binding))
<1>1. "plus" \in offer \/ "plus" \notin offer
  OBVIOUS
<1>2. Login!Mechanism(client, offer) = IF client.binding = "endpoint" THEN "plus" ELSE "scram"
  BY DEF Login!Mechanism
<1>3. client.binding = IF client.endpoint = "none" THEN "unsupported"
                       ELSE IF "plus" \in offer THEN "endpoint" ELSE "unrequested"
  BY DEF Login!Binding, Login!EndPoint
<1>4. offer = Login!Offer => ("plus" \in offer <=> peer.plus)
  BY DEF Login!Offer, Ends
<1>5. Login!Gs2(client.binding) = IF client.endpoint = "none" THEN "n"
                       ELSE IF "plus" \in offer THEN "p" ELSE "y"
  BY <1>3 DEF Login!Gs2
<1> QED
  BY <1>2, <1>3, <1>4, <1>5 DEF Ends, Login!Acceptable

LEMMA FirstServed ==
  ASSUME LoginState, Login!ServerFirst PROVE LoginState'
<1> USE DEF LoginState
<1>1. phase = "first" /\ Sasl /\ UNCHANGED <<stored, client, faults>>
  BY DEF Login!ServerFirst, Opened
<1>2. PICK offer \in {{"scram"}, {"scram", "plus"}} :
        /\ client.binding = Login!Binding(client, offer)
        /\ net = <<Login!Mechanism(client, offer)>> \o Login!ClientFirst(client)
        /\ faults = 0 => offer = Login!Offer
  BY <1>1 DEF Opened
<1>3. /\ net[1] = Login!Mechanism(client, offer)
      /\ net[2][2] = Login!Gs2(client.binding)
      /\ net[4][2] = client.nonce
  <2> DEFINE m == Login!Mechanism(client, offer)
             c == Login!ClientFirst(client)
  <2>1. /\ Len(c) = 3 /\ c \in Seq({c[1], c[2], c[3]})
        /\ c[1][2] = Login!Gs2(client.binding) /\ c[3][2] = client.nonce
    BY DEF Login!ClientFirst, Login!Attr
  <2> HIDE DEF c, m
  <2>2. net = <<m>> \o c
    BY <1>2 DEF c, m
  <2>3. net[1] = m /\ net[2] = c[1] /\ net[4] = c[3]
    BY <2>1, <2>2
  <2> QED
    BY <2>1, <2>3 DEF m
<1>4. CASE Login!Acceptable(net[1], net[2][2])
  <2> DEFINE r == <<net[4][2], "s">>
             m == <<Login!Attr("r", r), Login!Attr("s", stored.salt),
                    Login!Attr("i", stored.count)>>
  <2>1. /\ peer' = [peer EXCEPT !.nonce = r,
                      !.seen = [gs2 |-> net[2][2], nonce |-> net[4][2], first |-> m]]
        /\ phase' = "continue" /\ net' = m
    BY <1>4 DEF Login!ServerFirst, Login!Goto
  <2>2. /\ DOMAIN peer' = DOMAIN peer
        /\ peer'.method = peer.method /\ peer'.plus = peer.plus
        /\ peer'.nonce = <<client.nonce, "s">>
        /\ peer'.seen = [gs2 |-> Login!Gs2(client.binding), nonce |-> client.nonce, first |-> m]
    BY <2>1, <1>3 DEF Ends
  <2>3. Ends'
    BY <1>1, <2>2 DEF Ends, Login!Methods
  <2>4. m = SeenFirst'
    BY <1>1, <1>3, <2>2 DEF SeenFirst
  <2>5. client'.binding = IF client'.endpoint = "none" THEN "unsupported"
                          ELSE IF peer'.plus THEN "endpoint" ELSE "unrequested"
    BY <1>1, <1>2, <1>3, <1>4, <2>2, Offered
  <2> HIDE DEF m
  <2>6. Bound'
    BY <1>1, <2>2, <2>4, <2>5 DEF Bound, Sasl
  <2>7. Challenged'
    BY <1>1, <2>1, <2>4 DEF Challenged, Opened
  <2> QED
    BY <2>1, <2>3, <2>6, <2>7 DEF Answered, Opened, Responded, Proving, Concluded,
         Login!Agreement
<1>5. CASE ~Login!Acceptable(net[1], net[2][2])
  <2>1. phase' = "refused" /\ UNCHANGED peer
    BY <1>5 DEF Login!ServerFirst, Login!Refuse, Login!Goto
  <2>2. Ends'
    BY <1>1, <2>1, SameEnds DEF Ends
  <2>3. faults > 0
    <3>1. ~(offer = Login!Offer)
      BY <1>2, <1>3, <1>5, Offered
    <3> QED
      BY <1>2, <3>1 DEF Ends
  <2> QED
    BY <1>1, <2>1, <2>2, <2>3 DEF Answered, Opened, Bound, InExchange,
       Challenged, Responded, Proving, Concluded, Login!Agreement
<1> QED
  BY <1>4, <1>5

\* An altered message counts, and is none the client takes for the server's.
LEMMA Changed ==
  ASSUME LoginState, Login!Altered PROVE LoginState'
<1> USE DEF LoginState
<1>a. UNCHANGED <<stored, peer, client, phase>> /\ faults' = faults + 1
  BY DEF Login!Altered
<1>b. faults' \in Nat /\ faults' > 0
  BY <1>a DEF Ends
<1>c. phase \in {"continue", "final"}
  BY Zenon DEF Login!Altered
<1>1. /\ UNCHANGED <<stored, peer, client, phase>> /\ faults' = faults + 1
      /\ faults' \in Nat /\ faults' > 0
      /\ phase \in {"continue", "final"}
  BY <1>a, <1>b, <1>c
<1>2. Ends'
  BY <1>1, SameEnds
<1>3. Bound' /\ Challenged' /\ Responded'
  BY <1>1 DEF Bound, InExchange, Sasl, SeenFirst, Challenged, Responded, HasRead
<1>4. ASSUME phase = "final"
      PROVE  Login!FinalMessage(net') => net'[1][2][2] = <<"another key">>
  <2>1. \/ net' \in Login!OtherFinal
        \/ \E x : net' = <<Login!Attr("v", Login!Hmac(<<"another key">>, x))>>
    BY <1>4 DEF Login!Altered
  <2>2. ASSUME NEW x, net' = <<Login!Attr("v", Login!Hmac(<<"another key">>, x))>>
        PROVE  net'[1][2][2] = <<"another key">>
    BY <2>2 DEF Login!Attr, Login!Hmac
  <2>3. ASSUME NEW v, net' = <<Login!Attr("e", v)>> \/ net' = <<Login!Attr("?", v)>>
        PROVE  ~Login!FinalMessage(net')
    <3>1. Login!Attrs(net') = <<"e">> \/ Login!Attrs(net') = <<"?">>
      BY <2>3 DEF Login!Attr, Login!Attrs
    <3> QED
      BY <3>1 DEF Login!FinalMessage
  <2>4. ASSUME net' = <<>> PROVE ~Login!FinalMessage(net')
    <3>1. DOMAIN Login!Attrs(net') = {}
      BY <2>4 DEF Login!Attrs
    <3>2. DOMAIN <<"v">> # {}
      OBVIOUS
    <3> QED
      BY <3>1, <3>2 DEF Login!FinalMessage
  <2> QED
    BY <2>1, <2>2, <2>3, <2>4 DEF Login!OtherFinal, Login!Unreadable
<1>5. Concluded'
  BY <1>1, <1>4 DEF Concluded
<1> QED
  BY <1>1, <1>2, <1>3, <1>5 DEF Answered, Opened, Proving, Login!Agreement

LEMMA Updated ==
  ASSUME LoginState, Login!Update PROVE LoginState'
<1> USE DEF LoginState
<1>1. /\ phase = "continue" /\ Sasl /\ UNCHANGED <<stored, peer, faults>>
      /\ client.state = "update"
  BY DEF Login!Update, Challenged, Bound, InExchange
<1> DEFINE Reads == Login!FirstMessage(net) /\ Login!Extends(Login!NonceOf(net), client.nonce)
<1>2. CASE Reads
  <2> DEFINE salted == Login!Hi(Login!Normalize(client.password), Login!SaltOf(net),
                                Login!CountOf(net))
             final == Login!Final(client, Login!NonceOf(net))
             auth == Login!AuthMessage(client.nonce, net, final)
             key == Login!ClientKey(salted)
             proof == Login!Attr("p", Login!Xor(key, Login!Hmac(Login!Hash(key), auth)))
             m == Append(final, proof)
  <2>1. /\ client' = [client EXCEPT !.state = "finish", !.salted = salted,
                                    !.auth = auth, !.message = m]
        /\ phase' = "proof" /\ net' = m
    BY <1>1, <1>2 DEF Login!Update, Login!Goto
  <2> HIDE DEF salted, m, proof
  <2>2. /\ DOMAIN client' = DOMAIN client
        /\ client'.state = "finish" /\ client'.salted = salted /\ client'.auth = auth
        /\ client'.password = client.password /\ client'.endpoint = client.endpoint
        /\ client'.nonce = client.nonce /\ client'.binding = client.binding
    BY <2>1 DEF Ends
  <2>3. Ends'
    BY <1>1, <2>2 DEF Ends
  <2>4. Bound'
    BY <1>1, <2>1, <2>2 DEF Bound, InExchange, Sasl, SeenFirst
  <2>5. HasRead' = net
    BY <2>2 DEF HasRead, Login!AuthMessage
  <2>6. Login!Final(client', Login!NonceOf(net)) = final
        /\ Login!CbindInput(client') = Login!CbindInput(client)
    BY <2>2 DEF Login!Final, Login!CbindInput
  <2>7. Responded'
    <3>1. faults' = 0 => HasRead' = SeenFirst'
      BY <1>1, <2>5 DEF Challenged, SeenFirst
    <3>2. client'.salted = Login!Hi(Login!Normalize(client'.password), Login!SaltOf(HasRead'),
                                    Login!CountOf(HasRead'))
      BY <2>2, <2>5 DEF salted
    <3>3. client'.auth = Login!AuthMessage(client'.nonce, HasRead',
                                           Login!Final(client', Login!NonceOf(HasRead')))
      BY <2>2, <2>5, <2>6
    <3> HIDE DEF auth, final
    <3> QED
      BY <2>2, <3>1, <3>2, <3>3 DEF Responded
  <2>8. Proving'
    <3>1. proof = Login!Attr("p", ClientProof')
      BY <2>2 DEF proof, ClientProof
    <3>2. m = <<Login!Attr("c", Login!CbindInput(client)), Login!Attr("r", Login!NonceOf(net)),
                proof>>
      <4> DEFINE a == Login!Attr("c", Login!CbindInput(client))
                 b == Login!Attr("r", Login!NonceOf(net))
      <4>1. m = Append(<<a, b>>, proof)
        BY DEF m, final, Login!Final
      <4> HIDE DEF a, b, final, auth, key
      <4> QED
        BY <4>1, FirstTwo DEF a, b
    <3> HIDE DEF auth, final
    <3> QED
      BY <2>1, <2>5, <2>6, <3>1, <3>2 DEF Proving
  <2> HIDE DEF auth, final
  <2> QED
    BY <2>1, <2>3, <2>4, <2>7, <2>8 DEF Answered, Opened, Challenged, Concluded,
         Login!Agreement
<1>3. CASE ~Reads
  <2>1. client' = [client EXCEPT !.state = "done"] /\ phase' = "refused"
    BY <1>3 DEF Login!Update, Login!Refuse, Login!Goto
  <2>2. Ends'
    BY <1>1, <2>1 DEF Ends
  <2>3. ASSUME net = SeenFirst PROVE Reads
    <3>1. /\ net[1][1] = "r" /\ net[2][1] = "s" /\ net[3][1] = "i" /\ Len(net) = 3
          /\ net[1][2] = peer.nonce
      BY <2>3 DEF SeenFirst, Login!Attr
    <3>2. Login!Attrs(net) = <<"r", "s", "i">>
      BY <3>1 DEF Login!Attrs
    <3>3. peer.nonce[1] = client.nonce
      BY <1>1 DEF Bound, InExchange
    <3> QED
      BY <3>1, <3>2, <3>3 DEF Login!FirstMessage, Login!Extends, Login!NonceOf
  <2>4. faults > 0
    <3>1. ~(faults = 0)
      BY <1>1, <1>3, <2>3 DEF Challenged
    <3> QED
      BY <3>1 DEF Ends
  <2> HIDE DEF Reads
  <2> QED
    BY <1>1, <2>1, <2>2, <2>4 DEF Answered, Opened, Bound, InExchange,
       Challenged, Responded, Proving, Concluded, Login!Agreement
<1> QED
  BY <1>2, <1>3

\* The server finds the proof, and the binding, as it verifies them.
LEMMA Proved ==
  ASSUME LoginState, phase = "proof"
  PROVE  LET auth == Login!AuthMessage(peer.seen.nonce, peer.seen.first, SubSeq(net, 1, 2))
             bound == <<peer.seen.gs2, IF peer.seen.gs2 = "p" THEN "own" ELSE "none">>
         IN /\ net[2][2] = peer.nonce => auth = ServerAuth
            /\ Verifies <=>
                 net[2][2] = peer.nonce /\ net[1][2] = bound /\ Login!Proves(auth)
<1> USE DEF LoginState
<1> DEFINE auth == Login!AuthMessage(peer.seen.nonce, peer.seen.first, SubSeq(net, 1, 2))
           bound == <<peer.seen.gs2, IF peer.seen.gs2 = "p" THEN "own" ELSE "none">>
           final == Login!Final(client, Login!NonceOf(HasRead))
<1>1. net = <<Login!Attr("c", Login!CbindInput(client)),
              Login!Attr("r", Login!NonceOf(HasRead)), Login!Attr("p", ClientProof)>>
  BY DEF Proving
<1>2. SubSeq(net, 1, 2) = final
  <2> DEFINE a == Login!Attr("c", Login!CbindInput(client))
             b == Login!Attr("r", Login!NonceOf(HasRead))
             c == Login!Attr("p", ClientProof)
  <2>1. net = <<a, b, c>> /\ final = <<a, b>>
    BY <1>1 DEF Login!Final
  <2> HIDE DEF a, b, c, final
  <2> QED
    BY <2>1, FirstTwo
<1>3. auth = ServerAuth
  BY <1>2 DEF ServerAuth
<1>4. /\ net[2][2] = Login!NonceOf(HasRead) /\ net[1][2] = Login!CbindInput(client)
      /\ net[3][2] = ClientProof
  BY <1>1 DEF Login!Attr
<1>5. peer.seen.gs2 = Login!Gs2(client.binding)
      /\ client.binding \in {"unsupported", "endpoint", "unrequested"}
  BY DEF Bound, InExchange
<1>6. net[1][2] = bound <=> Certified
  BY <1>4, <1>5 DEF Login!CbindInput, Login!Gs2, Certified
<1>7. net[3][2][2] = Login!ClientKey(client.salted)
  BY <1>4 DEF ClientProof, Login!Xor
<1>8. Login!Proves(auth) <=>
        /\ Login!Hash(Login!ClientKey(client.salted)) = stored.storedKey
        /\ ClientProof = Login!Xor(Login!ClientKey(client.salted),
                                   Login!Hmac(stored.storedKey, ServerAuth))
  BY <1>3, <1>4, <1>7 DEF Login!Proves
<1> HIDE DEF auth, bound
<1>9. Verifies <=> net[2][2] = peer.nonce /\ net[1][2] = bound /\ Login!Proves(auth)
  BY <1>4, <1>6, <1>8 DEF Verifies
<1> QED
  BY <1>3, <1>9 DEF auth, bound

LEMMA FinalServed ==
  ASSUME LoginState, Login!ServerFinal PROVE LoginState'
<1> USE DEF LoginState
<1> DEFINE auth == Login!AuthMessage(peer.seen.nonce, peer.seen.first, SubSeq(net, 1, 2))
           bound == <<peer.seen.gs2, IF peer.seen.gs2 = "p" THEN "own" ELSE "none">>
<1>1. phase = "proof" /\ UNCHANGED <<stored, peer, client, faults>>
  BY DEF Login!ServerFinal
<1>2. Ends'
  BY <1>1, SameEnds DEF Ends
<1>3. /\ net[2][2] = peer.nonce => auth = ServerAuth
      /\ Verifies <=> net[2][2] = peer.nonce /\ net[1][2] = bound /\ Login!Proves(auth)
  BY <1>1, Proved
<1>4. \/ /\ Verifies /\ phase' = "final"
         /\ net' = <<Login!Attr("v", Login!Hmac(stored.serverKey, auth))>>
      \/ ~Verifies /\ phase' = "refused"
      \/ ~Verifies /\ phase' = "final" /\ net' = <<Login!Attr("e", "invalid-proof")>>
  <2> HIDE DEF auth, bound
  <2>1. \/ /\ net[2][2] = peer.nonce /\ net[1][2] = bound /\ Login!Proves(auth)
           /\ Login!Goto("final", <<Login!Attr("v", Login!Hmac(stored.serverKey, auth))>>)
        \/ /\ ~(net[2][2] = peer.nonce /\ net[1][2] = bound /\ Login!Proves(auth))
           /\ Login!Refuse \/ Login!Goto("final", <<Login!Attr("e", "invalid-proof")>>)
    BY DEF Login!ServerFinal, auth, bound
  <2> QED
    BY <2>1, <1>3 DEF Login!Goto, Login!Refuse
<1> HIDE DEF auth, bound
<1>5. ~Verifies => faults > 0 \/ ~Login!Shared \/ (client.endpoint = "other" /\ peer.plus)
  <2> SUFFICES ASSUME faults = 0, Login!Shared, ~(client.endpoint = "other" /\ peer.plus)
               PROVE  Verifies
    BY DEF Ends
  <2>1. HasRead = SeenFirst
    BY <1>1 DEF Responded
  <2>2. /\ Login!NonceOf(HasRead) = peer.nonce /\ Login!SaltOf(HasRead) = stored.salt
        /\ Login!CountOf(HasRead) = stored.count
    BY <2>1 DEF SeenFirst, Login!NonceOf, Login!SaltOf, Login!CountOf, Login!Attr
  <2>3. Certified
    BY <1>1 DEF Bound, InExchange, Certified, Ends
  <2>4. stored.kind = "scram"
    <3>1. peer.method = "sasl"
      BY <1>1 DEF Bound, InExchange, Sasl
    <3> QED
      BY <3>1, StoredIs DEF Ends, Login!Methods
  <2>5. client.salted = Login!Hi(Login!Normalize(client.password), stored.salt, stored.count)
    BY <1>1, <2>2 DEF Responded
  <2>6. Login!Hash(Login!ClientKey(client.salted)) = stored.storedKey
    BY <2>4, <2>5, SharedScram DEF Ends
  <2>7. client.auth = ServerAuth
    BY <1>1, <2>1 DEF Responded, ServerAuth, Bound, InExchange
  <2> QED
    BY <2>2, <2>3, <2>6, <2>7 DEF Verifies, ClientProof
<1>6. (Bound' /\ Responded') \/ phase' = "refused"
  BY <1>1, <1>4 DEF Bound, InExchange, Sasl, SeenFirst, Responded, HasRead
<1>7. CASE phase' = "refused"
  <2>1. Login!Shared' <=> Login!Shared
    BY <1>1 DEF Login!Shared, Login!Same
  <2> QED
    BY <1>1, <1>2, <1>4, <1>5, <1>7, <2>1 DEF Answered, Opened, Bound, InExchange,
       Challenged, Responded, Proving, Concluded, Login!Agreement
<1>8. CASE phase' = "final"
  <2>1. Verifies' <=> Verifies
    BY <1>1 DEF Verifies, HasRead, Certified, ClientProof, ServerAuth
  <2>2. ServerAuth' = ServerAuth /\ (Login!Shared' <=> Login!Shared)
    BY <1>1 DEF ServerAuth, HasRead, Login!Shared, Login!Same
  <2>3. Verifies => auth = ServerAuth
    BY <1>3
  <2>4. ASSUME net' = <<Login!Attr("e", "invalid-proof")>> PROVE ~Login!FinalMessage(net')
    <3>1. Login!Attrs(net') = <<"e">>
      BY <2>4 DEF Login!Attr, Login!Attrs
    <3> QED
      BY <3>1 DEF Login!FinalMessage
  <2>5. Concluded'
    BY <1>1, <1>4, <1>5, <1>8, <2>1, <2>2, <2>3, <2>4 DEF Concluded
  <2> QED
    BY <1>2, <1>6, <1>8, <2>5 DEF Answered, Opened, Challenged, Proving, Login!Agreement
<1> QED
  BY <1>4, <1>7, <1>8

\* The client takes itself to be in only after the server has verified the same exchange.
LEMMA Finished ==
  ASSUME LoginState, Login!Finish PROVE LoginState'
<1> USE DEF LoginState
<1>1. /\ phase = "final" /\ UNCHANGED <<stored, peer, faults>>
      /\ client' = [client EXCEPT !.state = "done"]
      /\ phase' = IF Login!Verified(client, net) THEN "accepted" ELSE "refused"
  BY DEF Login!Finish, Login!Goto, Responded
<1>2. /\ DOMAIN client' = DOMAIN client
      /\ client'.password = client.password /\ client'.endpoint = client.endpoint
      /\ client'.nonce = client.nonce /\ client'.binding = client.binding
      /\ client'.auth = client.auth
  BY <1>1 DEF Ends
<1>3. Ends'
  BY <1>1, <1>2 DEF Ends
<1>4. Login!Shared' <=> Login!Shared
  BY <1>1, <1>2 DEF Login!Shared, Login!Same
<1>5. stored.kind = "scram"
  <2>1. peer.method = "sasl"
    BY <1>1 DEF Bound, InExchange, Sasl
  <2> QED
    BY <2>1, StoredIs DEF Ends, Login!Methods
<1>6. Login!Verified(client, net) <=>
        Login!FinalMessage(net) /\ net[1][2] = Login!Hmac(Login!ServerKey(client.salted),
                                                           client.auth)
  BY DEF Login!Verified
<1>7. CASE /\ Verifies
           /\ net = <<Login!Attr("v", Login!Hmac(stored.serverKey, ServerAuth))>>
  <2>1. client.auth = ServerAuth
    BY <1>7, SameHash DEF Verifies, ClientProof
  <2>2. /\ stored.storedKey = Login!Hash(Login!ClientKey(client.salted))
        /\ HasRead = peer.seen.first
    BY <1>7, <2>1 DEF Verifies, ServerAuth, HasRead, Login!AuthMessage
  <2>3. HasRead = SeenFirst
    BY <1>1, <2>2 DEF Bound, InExchange
  <2>4. client.salted = Login!Hi(Login!Normalize(client.password), stored.salt, stored.count)
    BY <1>1, <2>3 DEF Responded, SeenFirst, Login!SaltOf, Login!CountOf, Login!Attr
  <2>5. Login!Shared
    BY <1>5, <2>2, <2>4, SharedScram DEF Ends
  <2>6. stored.serverKey = Login!ServerKey(client.salted)
    BY <1>5, <2>4, <2>5, SharedScram DEF Ends, Login!EncryptScram
  <2>7. Login!FinalMessage(net)
    <3>1. Login!Attrs(net) = <<"v">>
      BY <1>7 DEF Login!Attr, Login!Attrs
    <3> QED
      BY <3>1 DEF Login!FinalMessage
  <2>8. Login!Verified(client, net)
    BY <1>6, <1>7, <2>1, <2>6, <2>7 DEF Login!Attr
  <2>9. client.auth = Login!AuthMessage(peer.seen.nonce, peer.seen.first,
                                        Login!Final(client, peer.nonce))
    BY <1>7, <2>1 DEF Verifies, ServerAuth
  <2>10. Login!Final(client', peer'.nonce) = Login!Final(client, peer.nonce)
    BY <1>1, <1>2 DEF Login!Final, Login!CbindInput
  <2>11. client.endpoint # "none" /\ peer.plus => client.endpoint = "own"
    BY <1>1, <1>7 DEF Verifies, Certified, Bound, InExchange
  <2>12. Login!Agreement'
    BY <1>1, <1>2, <1>4, <2>5, <2>8, <2>9, <2>10, <2>11 DEF Login!Agreement
  <2> QED
    BY <1>1, <1>3, <2>8, <2>12 DEF Answered, Opened, Bound, InExchange,
       Challenged, Responded, Proving, Concluded
<1>8. CASE /\ Login!FinalMessage(net) => net[1][2][2] = <<"another key">>
           /\ faults > 0 \/ ~Login!Shared \/ (client.endpoint = "other" /\ peer.plus)
  <2>1. ~Login!Verified(client, net)
    <3> SUFFICES ASSUME Login!Verified(client, net) PROVE FALSE
      OBVIOUS
    <3>1. net[1][2][2] = <<"another key">>
      BY <1>6, <1>8
    <3>2. net[1][2][2] = <<"hmac", client.salted, "Server Key">>
      <4> DEFINE k == Login!ServerKey(client.salted)
      <4>1. net[1][2] = <<"hmac", k, client.auth>>
        BY <1>6 DEF Login!Hmac
      <4>2. k = <<"hmac", client.salted, "Server Key">>
        BY DEF Login!ServerKey, Login!Hmac
      <4>3. \A v, x, y, z : v = <<x, y, z>> => v[2] = y
        OBVIOUS
      <4> HIDE DEF k
      <4>4. net[1][2][2] = k
        BY <4>1, <4>3, Zenon
      <4> QED
        BY <4>2, <4>4
    <3>3. Len(<<"another key">>) # Len(<<"hmac", client.salted, "Server Key">>)
      OBVIOUS
    <3> QED
      BY <3>1, <3>2, <3>3
  <2> QED
    BY <1>1, <1>2, <1>3, <1>4, <1>8, <2>1 DEF Answered, Opened, Bound, InExchange,
       Challenged, Responded, Proving, Concluded, Login!Agreement
<1> QED
  BY <1>1, <1>7, <1>8 DEF Concluded

-----------------------------------------------------------------------------
LEMMA LoginStutter ==
  ASSUME LoginState, UNCHANGED <<stored, peer, client, net, faults, phase>>
  PROVE  LoginState'
<1> USE DEF LoginState
<1>1. Ends'
  BY SameEnds DEF Ends
<1>2. Answered' /\ Opened'
  BY DEF Answered, Opened, Sasl, Login!Offer
<1>3. Bound' /\ Challenged' /\ Responded' /\ Proving'
  BY DEF Bound, InExchange, Sasl, SeenFirst, Challenged, Responded, HasRead, Proving,
         ClientProof
<1>4. /\ Login!Shared' <=> Login!Shared
      /\ Verifies' <=> Verifies
      /\ ServerAuth' = ServerAuth
  BY DEF Login!Shared, Login!Same, Verifies, HasRead, ServerAuth, Certified, ClientProof
<1>5. Concluded' /\ Login!Agreement'
  BY <1>4 DEF Concluded, Login!Agreement
<1> QED
  BY <1>1, <1>2, <1>3, <1>5

LEMMA LoginNext == ASSUME LoginState, Login!Next PROVE LoginState'
BY PasswordGiven, Judged, Started, FirstServed, Changed, Updated, FinalServed, Finished
   DEF Login!Next

\* Whoever is let in has the password that was stored, and the client and the server that
\* take each other in have seen one exchange and, when both can bind it, one
\* certificate; with the password, the certificate and nothing altered none is refused: for
\* every set of counts and however many messages may be altered (ScramSha256 in
\* authentication/sasl.rs, authenticate in connect_raw.rs).
THEOREM AgreementCorrect == Spec => []Agreement
<1> DEFINE Inv == part = "scram" => LoginState
<1>1. Init => Inv
  BY LoginStart, LoginInit
<1>2. Inv /\ [Next]_vars => Inv'
  BY LoginStep, LoginNext, LoginStutter
<1>3. Inv => Agreement
  BY DEF LoginState, Agreement
<1> QED
  BY <1>1, <1>2, <1>3, PTL DEF Spec
-----------------------------------------------------------------------------
(* Answers.                                                                *)


LEMMA AnswersStart == ASSUME Init, part = "answers" PROVE A!Init
BY DEF Init, Answer!Init, A!Init

\* The module the proofs are about and the part of the client data are two instances of one.

LEMMA SameFlatten ==
  \A ss : A!FlattenSeq(ss) = Answer!FlattenSeq(ss)
BY DEF A!FlattenSeq, Answer!FlattenSeq

LEMMA SameWords ==
  /\ A!Ops = Answer!Ops
  /\ \A o : A!Request(o) = Answer!Request(o) /\ A!FirstStage(o) = Answer!FirstStage(o)
  /\ \A o : A!Texts(o) = Answer!Texts(o)
BY DEF A!One, A!Opt, A!Scalar, A!Typed, A!RowOps, A!Simple, A!Ops, A!Request,
         A!FirstStage, A!Statement, A!Texts, Answer!One, Answer!Opt, Answer!Scalar,
         Answer!Typed, Answer!RowOps, Answer!Simple, Answer!Ops, Answer!Request,
         Answer!FirstStage, Answer!Statement, Answer!Texts

LEMMA SameMessages ==
  /\ \A t, i, n : A!Msg(t, i, n) = Answer!Msg(t, i, n)
  /\ \A t : A!Just(t) = Answer!Just(t)
  /\ \A i : A!Description(i) = Answer!Description(i)
  /\ \A i, max : A!Executed(i, max) = Answer!Executed(i, max)
  /\ \A i : A!Result(i) = Answer!Result(i)
BY DEF A!Msg, A!Just, A!Description, A!RowsOf, A!Executed, A!Result, Answer!Msg,
         Answer!Just, Answer!Description, Answer!RowsOf, Answer!Executed, Answer!Result

LEMMA SameRan ==
  A!Ran = Answer!Ran
BY SameFlatten, SameMessages
     DEF A!Ran, A!RunsLast, Answer!Ran, Answer!RunsLast

LEMMA SameAnswer ==
  /\ \A m : A!Answer(m) = Answer!Answer(m)
  /\ \A ms : A!Partial(ms) = Answer!Partial(ms) /\ A!Copies(ms) = Answer!Copies(ms)
BY SameMessages, SameRan
     DEF A!Answer, A!PortalRows, A!Partial, A!Copies, Answer!Answer, Answer!PortalRows,
         Answer!Partial, Answer!Copies

LEMMA SameServer ==
  A!Server <=> Answer!Server
BY SameMessages, SameRan, SameAnswer
     DEF A!Server, A!Serve, A!ServeCopyFail, A!ServeSync, A!ServeQuery, A!Ignored,
         Answer!Server, Answer!Serve, Answer!ServeCopyFail, Answer!ServeSync,
         Answer!ServeQuery, Answer!Ignored

LEMMA SameCall ==
  \A o, t : A!Call(o, t) <=> Answer!Call(o, t)
BY SameWords
     DEF A!Call, Answer!Call

LEMMA SameReads ==
  /\ A!ReadBindComplete <=> Answer!ReadBindComplete
  /\ A!ReadTypedColumns <=> Answer!ReadTypedColumns
  /\ A!ReadRow <=> Answer!ReadRow
  /\ A!ReadCount <=> Answer!ReadCount
  /\ A!ReadTypedCount <=> Answer!ReadTypedCount
  /\ A!ReadPrepared <=> Answer!ReadPrepared
  /\ A!ReadSync <=> Answer!ReadSync
BY DEF A!One, A!Opt, A!Scalar, A!Typed, A!RowOps, A!Simple, A!Ops, A!Hears, A!M,
         A!Abort, A!Stop, A!Returns, A!Continue, A!Stay, A!Refused, A!ReadMessage,
         A!Collected, A!RowStreamTypes, A!TypedCountPasses, A!ReadBindComplete,
         A!ReadTypedColumns, A!ReadRow, A!ReadCount, A!ReadTypedCount, A!ReadPrepared,
         A!ReadSync, Answer!One, Answer!Opt, Answer!Scalar, Answer!Typed, Answer!RowOps,
         Answer!Simple, Answer!Ops, Answer!Hears, Answer!M, Answer!Abort, Answer!Stop,
         Answer!Returns, Answer!Continue, Answer!Stay, Answer!Refused, Answer!ReadMessage,
         Answer!Collected, Answer!RowStreamTypes, Answer!TypedCountPasses,
         Answer!ReadBindComplete, Answer!ReadTypedColumns, Answer!ReadRow,
         Answer!ReadCount, Answer!ReadTypedCount, Answer!ReadPrepared, Answer!ReadSync

LEMMA SameReadsToo ==
  /\ A!ReadSimple <=> Answer!ReadSimple
  /\ A!ReadBatch <=> Answer!ReadBatch
  /\ A!ReadCopyOut <=> Answer!ReadCopyOut
  /\ A!ReadData <=> Answer!ReadData
  /\ A!ReadCopyIn <=> Answer!ReadCopyIn
  /\ A!ReadFinish <=> Answer!ReadFinish
BY DEF A!Hears, A!M, A!Abort, A!Stop, A!Returns, A!Continue, A!Stay, A!Refused,
         A!ReadMessage, A!NextColumns, A!ReadSimple, A!ReadBatch, A!ReadCopyOut,
         A!ReadData, A!ReadCopyIn, A!ReadFinish, Answer!Hears, Answer!M, Answer!Abort,
         Answer!Stop, Answer!Returns, Answer!Continue, Answer!Stay, Answer!Refused,
         Answer!ReadMessage, Answer!NextColumns, Answer!ReadSimple, Answer!ReadBatch,
         Answer!ReadCopyOut, Answer!ReadData, Answer!ReadCopyIn, Answer!ReadFinish

LEMMA SameEnd ==
  (A!FinishCopy <=> Answer!FinishCopy) /\ (A!Drop <=> Answer!Drop)
BY DEF A!FinishCopy, A!Drop, A!Stop, A!Abort, Answer!FinishCopy, Answer!Drop,
         Answer!Stop, Answer!Abort

LEMMA SameNext ==
  Answer!Next <=> A!Next
BY SameWords, SameCall, SameServer, SameReads, SameReadsToo, SameEnd
     DEF A!Read, A!Next, Answer!Read, Answer!Next

LEMMA SameAnswerProperties ==
  /\ A!OkMeansCommitted => Answer!OkMeansCommitted
  /\ A!ResultExact => Answer!ResultExact
  /\ A!NoFalseAlarm => Answer!NoFalseAlarm
BY SameFlatten
     DEF A!One, A!Opt, A!Scalar, A!Typed, A!RowOps, A!Simple, A!Ops, A!Deciding,
         A!OkMeansCommitted, A!RowsIn, A!AllRows, A!ResultExact, A!PortalRows, A!Fits,
         A!NoFalseAlarm, Answer!One, Answer!Opt, Answer!Scalar, Answer!Typed,
         Answer!RowOps, Answer!Simple, Answer!Ops, Answer!Deciding,
         Answer!OkMeansCommitted, Answer!RowsIn, Answer!AllRows, Answer!ResultExact,
         Answer!PortalRows, Answer!Fits, Answer!NoFalseAlarm

LEMMA AnswersStep ==
  ASSUME [Next]_vars, part = "answers"
  PROVE  part' = part /\ [A!Next]_(A!vars)
<1>1. CASE Next
  <2>1. part' = part /\ Answer!Next
    BY <1>1 DEF Next
  <2>2. A!Next
    BY <2>1, SameNext
  <2> QED
    BY <2>1, <2>2
<1>2. CASE UNCHANGED vars
  BY <1>2 DEF vars, answersOnly, A!vars
<1> QED
  BY <1>1, <1>2


LEMMA AnswersBounds == MaxRows \in Nat /\ MaxTexts \in Nat \ {0}
BY BoundsAssumption

\* The place a call has got to in the whole answer is kept by every step of a behaviour.
AnswersPlace == part = "answers" => A!AnswersInv

LEMMA PlaceInit == Init => AnswersPlace
BY AnswersStart, A!AnswersInit DEF AnswersPlace

LEMMA PlaceNext == AnswersPlace /\ [Next]_vars => AnswersPlace'
<1> SUFFICES ASSUME AnswersPlace, [Next]_vars, part' = "answers" PROVE A!AnswersInv'
  BY DEF AnswersPlace
<1>1. part = "answers"
  BY LoginStep
<1>2. A!AnswersInv /\ [A!Next]_(A!vars)
  BY <1>1, AnswersStep DEF AnswersPlace
<1> QED
  BY <1>2, AnswersBounds, A!AnswersNext

LEMMA PlaceHolds == AnswersPlace => OkMeansCommitted /\ ResultExact /\ NoFalseAlarm
<1> SUFFICES ASSUME AnswersPlace, part = "answers"
             PROVE  Answer!OkMeansCommitted /\ Answer!ResultExact /\ Answer!NoFalseAlarm
  BY DEF OkMeansCommitted, ResultExact, NoFalseAlarm
<1>1. A!OkMeansCommitted /\ A!ResultExact /\ A!NoFalseAlarm
  BY AnswersBounds, A!AnswersHolds DEF AnswersPlace
<1> QED
  BY <1>1, SameAnswerProperties

\* A call that returns Ok has had its transaction committed, one that returns the server's
\* error has not, and a copy is committed only if its caller finished it: for texts of every
\* size and wherever the server fails (query.rs, simple_query.rs, copy_in.rs, copy_out.rs).
THEOREM OkMeansCommittedCorrect == Spec => []OkMeansCommitted
<1>1. Init => AnswersPlace
  BY PlaceInit
<1>2. AnswersPlace /\ [Next]_vars => AnswersPlace'
  BY PlaceNext
<1>3. AnswersPlace => OkMeansCommitted
  BY PlaceHolds
<1> QED
  BY <1>1, <1>2, <1>3, PTL DEF Spec

\* A call that returns Ok has read every row of its own statements, in order and under their
\* own columns, as many as it promises, and the count of its command (query.rs,
\* simple_query.rs, copy_out.rs, client.rs).
THEOREM ResultExactCorrect == Spec => []ResultExact
<1>1. Init => AnswersPlace
  BY PlaceInit
<1>2. AnswersPlace /\ [Next]_vars => AnswersPlace'
  BY PlaceNext
<1>3. AnswersPlace => ResultExact
  BY PlaceHolds
<1> QED
  BY <1>1, <1>2, <1>3, PTL DEF Spec

\* No call takes an answer to a text it is meant for as unexpected, wherever the server fails
\* (Error::unexpected_message in query.rs, simple_query.rs, copy_in.rs, copy_out.rs).
THEOREM NoFalseAlarmCorrect == Spec => []NoFalseAlarm
<1>1. Init => AnswersPlace
  BY PlaceInit
<1>2. AnswersPlace /\ [Next]_vars => AnswersPlace'
  BY PlaceNext
<1>3. AnswersPlace => NoFalseAlarm
  BY PlaceHolds
<1> QED
  BY <1>1, <1>2, <1>3, PTL DEF Spec

-----------------------------------------------------------------------------
(* Messages from the server.                                               *)

LEMMA BackendKept == BackendInv /\ UNCHANGED <<backendOnly, sent, damage>> => BackendInv'
BY DEF BackendInv, Framed, backendOnly, Decoder!BatchesOfOneRequest

BatchesPlace == part = "backend" => BackendInv

LEMMA BatchesInit == Init => BatchesPlace
BY BackendStarts DEF Init, BatchesPlace

LEMMA BatchesNext == BatchesPlace /\ [Next]_vars => BatchesPlace'
<1> SUFFICES ASSUME BatchesPlace, [Next]_vars, part' = "backend" PROVE BackendInv'
  BY DEF BatchesPlace
<1>1. CASE Next
  <2>1. part = "backend" /\ Decoder!Next
    BY <1>1 DEF Next
  <2> QED
    BY <2>1, BackendStep DEF BatchesPlace
<1>2. CASE UNCHANGED vars
  BY <1>2, BackendKept DEF vars, BatchesPlace
<1> QED
  BY <1>1, <1>2

\* A batch the codec hands over has messages of one request only, is complete exactly when
\* it ends with its ReadyForQuery, and is one message when that is asynchronous: however
\* the bytes arrive, and for messages that are damaged too (codec.rs PostgresCodec::decode).
THEOREM BatchesOfOneRequestCorrect == Spec => []BatchesOfOneRequest
<1>1. Init => BatchesPlace
  BY BatchesInit
<1>2. BatchesPlace /\ [Next]_vars => BatchesPlace'
  BY BatchesNext
<1>3. BatchesPlace => BatchesOfOneRequest
  BY DEF BatchesPlace, BackendInv, BatchesOfOneRequest
<1> QED
  BY <1>1, <1>2, <1>3, PTL DEF Spec

-----------------------------------------------------------------------------
(* A COPY that is read.                                                    *)

ReaderPlace == part = "reader" => ReaderInv

LEMMA ReadingInit == Init => ReaderPlace
BY ReaderStarts DEF Init, ReaderPlace

LEMMA ReadingNext == ReaderPlace /\ [Next]_vars => ReaderPlace'
<1> SUFFICES ASSUME ReaderPlace, [Next]_vars, part' = "reader" PROVE ReaderInv'
  BY DEF ReaderPlace
<1>1. CASE Next
  <2>1. part = "reader" /\ Reader!Next
    BY <1>1 DEF Next
  <2> QED
    BY <2>1, ReaderStep DEF ReaderPlace
<1>2. CASE UNCHANGED vars
  <2>1. part = "reader" /\ UNCHANGED <<reader, sent, damage, chunks, header, cur, got, last>>
    BY <1>2 DEF vars, readerOnly
  <2> QED
    BY <2>1, ReaderKept DEF ReaderPlace
<1> QED
  BY <1>1, <1>2

\* The rows read of a binary COPY are the rows sent, without the one in a damaged chunk, and
\* the bytes read are the bytes sent, however they are cut into chunks and reads; neither ends
\* early: for any number of rows, columns and bytes (binary_copy.rs BinaryCopyOutStream,
\* copy_out_reader.rs).
THEOREM ReadAsSentCorrect == Spec => []ReadAsSent
<1>1. Init => ReaderPlace
  BY ReadingInit
<1>2. ReaderPlace /\ [Next]_vars => ReaderPlace'
  BY ReadingNext
<1>3. ReaderPlace => ReadAsSent
  BY ReaderHolds DEF ReaderPlace, ReadAsSent
<1> QED
  BY <1>1, <1>2, <1>3, PTL DEF Spec

-----------------------------------------------------------------------------
(* A COPY that is written.                                                 *)

WriterPlace == part = "writer" => WriterInv

LEMMA WritingInit == Init => WriterPlace
BY WriterStart DEF Init, WriterPlace

LEMMA WritingNext == WriterPlace /\ [Next]_vars => WriterPlace'
<1> SUFFICES ASSUME WriterPlace, [Next]_vars, part' = "writer" PROVE WriterInv'
  BY DEF WriterPlace
<1>1. CASE Next
  <2>1. part = "writer" /\ Writer!Next
    BY <1>1 DEF Next
  <2> QED
    BY <2>1, WriterNext DEF WriterPlace
<1>2. CASE UNCHANGED vars
  <2>1. part = "writer" /\ UNCHANGED Writer!vars
    BY <1>2 DEF vars, writerOnly, Writer!vars
  <2> QED
    BY <2>1, WriterNext DEF WriterPlace
<1> QED
  BY <1>1, <1>2

\* When no write was cancelled or failed, a finished COPY has sent the server all that was
\* written, once and in order, through the buffers of the writer, of the sink and of the
\* channel, wherever these are flushed and the channel makes a call wait: for any number of
\* writes, columns and bytes (copy_in.rs, copy_in_writer.rs, binary_copy.rs).
THEOREM WrittenArrivesCorrect == Spec => []WrittenArrives
<1>1. Init => WriterPlace
  BY WritingInit
<1>2. WriterPlace /\ [Next]_vars => WriterPlace'
  BY WritingNext
<1>3. WriterPlace => WrittenArrives
  BY WriterArrives DEF WriterPlace, WrittenArrives
<1> QED
  BY <1>1, <1>2, <1>3, PTL DEF Spec

\* What the server inserts of a COPY with cancelled writes are rows that were written, in
\* order, none of them split or repeated; and after a conversion that failed in the middle of
\* a row it accepts the copy only if a cancelled call has taken that row away: for any number
\* of rows, columns and bytes (binary_copy.rs BinaryCopyInWriter::write_raw).
THEOREM OnlyWholeRowsCorrect == Spec => []OnlyWholeRows
<1>1. Init => WriterPlace
  BY WritingInit
<1>2. WriterPlace /\ [Next]_vars => WriterPlace'
  BY WritingNext
<1>3. WriterPlace => OnlyWholeRows
  BY WriterWholeRows DEF WriterPlace, OnlyWholeRows
<1> QED
  BY <1>1, <1>2, <1>3, PTL DEF Spec
=============================================================================
