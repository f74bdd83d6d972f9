-------------------------------- MODULE Scram --------------------------------
(***************************************************************************)
(* Passwords: what the client makes of one to have it stored (password),   *)
(* and how it proves to know it (authentication, authentication::sasl).    *)
(* Hashes are terms: equal exactly when what was hashed is.  A SCRAM       *)
(* message is a sequence of attributes with their values.  The server is   *)
(* external; what it sends may also be another's, or altered on the way.   *)
(***************************************************************************)
EXTENDS Naturals, Sequences

CONSTANTS
  Iterations, \* counts that a server may ask for, zero included
  MaxFaults   \* messages altered in an exchange

VARIABLES
  stored,  \* what the server has of the user's password
  peer,    \* what the server can do with channel binding, and the method it asks for
  client,  \* the password given, and ScramSha256
  net,     \* the message on its way
  faults,  \* messages altered so far
  phase

vars == <<stored, peer, client, net, faults, phase>>

-----------------------------------------------------------------------------
(* Hashes.                                                                 *)

\* "b-" is another spelling of "b", which saslprep makes the same.
Passwords == {"b", "b-", "c"}
Spellings == {{"b", "b-"}, {"c"}}
Normalize(p) == IF p = "b-" THEN "b" ELSE p

Hash(x) == <<"hash", x>>
Hmac(k, x) == <<"hmac", k, x>>
Xor(k, s) == <<"xor", k, s>>

\* hi: one round is made also when none is asked for.
Hi(p, salt, i) == <<"hi", p, salt, IF i = 0 THEN 1 ELSE i>>
ClientKey(salted) == Hmac(salted, "Client Key")
ServerKey(salted) == Hmac(salted, "Server Key")

\* password::scram_sha_256_salt, and md5: what is stored.
EncryptScram(p, salt, i) ==
  LET salted == Hi(Normalize(p), salt, i)
  IN [kind |-> "scram", salt |-> salt, count |-> i,
      storedKey |-> Hash(ClientKey(salted)), serverKey |-> ServerKey(salted)]
EncryptMd5(p, user) == [kind |-> "md5", digest |-> Hash(<<p, user>>)]

\* md5_hash: the stored digest again, hashed with the server's salt.
Md5Answer(user, p, salt) == Hash(<<Hash(<<p, user>>), salt>>)

User == "u"
Salt == "salt"

-----------------------------------------------------------------------------
(* Channel binding and messages.                                           *)

Attr(a, v) == <<a, v>>
Unreadable == Attr("?", "")   \* one with a value it cannot have

\* authenticate_sasl: the binding and the mechanism, or none.
EndPoint(c) == c.endpoint # "none"
Binding(c, offer) ==
  IF "plus" \in offer /\ EndPoint(c) THEN "endpoint"
  ELSE IF "plus" \notin offer /\ EndPoint(c) THEN "unrequested" ELSE "unsupported"
Mechanism(c, offer) == IF Binding(c, offer) = "endpoint" THEN "plus" ELSE "scram"

\* gs2_header and cbind_data.
Gs2(b) == CASE b = "unrequested" -> "y" [] b = "unsupported" -> "n" [] OTHER -> "p"
CbindInput(c) == <<Gs2(c.binding), IF c.binding = "endpoint" THEN c.endpoint ELSE "none">>

\* new_inner.
ClientFirst(c) == <<Attr("gs2", Gs2(c.binding)), Attr("n", ""), Attr("r", c.nonce)>>
Final(c, r) == <<Attr("c", CbindInput(c)), Attr("r", r)>>
AuthMessage(nonce, first, final) == <<nonce, first, final>>

\* Parser: server_first_message, every attribute in its place and nothing behind.
Attrs(m) == [i \in 1..Len(m) |-> m[i][1]]
FirstMessage(m) == Attrs(m) = <<"r", "s", "i">>

\* server_final_message.  An error is read as far as its text is made of zeros, equal
\* signs and commas: any other is trailing data, and an error just as well.
FinalMessage(m) == Attrs(m) = <<"v">>

NonceOf(m) == m[1][2]
SaltOf(m) == m[2][2]
CountOf(m) == m[3][2]
Extends(n, nonce) == n[1] = nonce

-----------------------------------------------------------------------------
NoTerm == <<>>

NewClient(p, e) == [password |-> p, endpoint |-> e, binding |-> "unsupported",
                    nonce |-> "n", state |-> "new", salted |-> NoTerm,
                    auth |-> NoTerm, message |-> NoTerm]

Stored == {EncryptMd5(p, User) : p \in Passwords}
            \cup {EncryptScram(p, Salt, i) : p \in Passwords, i \in Iterations}

\* What a server asks for depends on what it has; it has a certificate of its own
\* ("own"), which is the one the client saw unless another ends the TLS session.
Methods(s) == IF s.kind = "md5" THEN {"md5", "cleartext"} ELSE {"sasl", "cleartext"}

Init ==
  /\ stored \in Stored
  /\ \E m \in Methods(stored), plus \in BOOLEAN :
       peer = [method |-> m, plus |-> plus, nonce |-> NoTerm, seen |-> NoTerm]
  /\ \E p \in Passwords, e \in {"none", "own", "other"} : client = NewClient(p, e)
  /\ net = NoTerm
  /\ faults = 0
  /\ phase = "ask"

Goto(p, m) == phase' = p /\ net' = m
Refuse == Goto("refused", NoTerm)

-----------------------------------------------------------------------------
(* The password itself, and MD5.                                           *)

\* authenticate, AuthenticationCleartextPassword: the server hashes what it gets.
GivePassword ==
  /\ phase = "ask" /\ peer.method = "cleartext"
  /\ Goto("judged", client.password)
  /\ UNCHANGED <<stored, peer, client, faults>>

\* AuthenticationMd5Password, with a fresh salt.
GiveMd5 ==
  /\ phase = "ask" /\ peer.method = "md5"
  /\ Goto("judged", Md5Answer(User, client.password, "fresh"))
  /\ UNCHANGED <<stored, peer, client, faults>>

Known ==
  IF peer.method = "md5" THEN net = Hash(<<stored.digest, "fresh">>)
  ELSE IF stored.kind = "md5" THEN EncryptMd5(net, User) = stored
  ELSE EncryptScram(net, stored.salt, stored.count) = stored

Judge ==
  /\ phase = "judged"
  /\ Goto(IF Known THEN "accepted" ELSE "refused", NoTerm)
  /\ UNCHANGED <<stored, peer, client, faults>>

-----------------------------------------------------------------------------
(* SASL.                                                                   *)

Offer == IF peer.plus THEN {"scram", "plus"} ELSE {"scram"}

\* authenticate_sasl up to its first message; the list of mechanisms may be altered.
Start ==
  /\ phase = "ask" /\ peer.method = "sasl"
  /\ \E offer \in {Offer} \cup (IF faults < MaxFaults THEN {{"scram"}, {"scram", "plus"}}
                                                       ELSE {}) :
       LET c == [client EXCEPT !.binding = Binding(client, offer), !.state = "update"]
       IN /\ client' = [c EXCEPT !.message = ClientFirst(c)]
          /\ faults' = faults + IF offer = Offer THEN 0 ELSE 1
          /\ Goto("first", <<Mechanism(client, offer)>> \o ClientFirst(c))
  /\ UNCHANGED <<stored, peer>>

\* The server refuses a binding that goes with another mechanism, and a client that says
\* it would have bound had it been asked to when it was.
Acceptable(mechanism, gs2) ==
  /\ (mechanism = "plus") = (gs2 = "p")
  /\ mechanism = "plus" => peer.plus
  /\ ~(gs2 = "y" /\ peer.plus)

ServerFirst ==
  /\ phase = "first"
  /\ IF Acceptable(net[1], net[2][2])
       THEN LET r == <<net[4][2], "s">>
                m == <<Attr("r", r), Attr("s", stored.salt), Attr("i", stored.count)>>
            IN /\ peer' = [peer EXCEPT !.nonce = r,
                             !.seen = [gs2 |-> net[2][2], nonce |-> net[4][2], first |-> m]]
               /\ Goto("continue", m)
       ELSE Refuse /\ UNCHANGED peer
  /\ UNCHANGED <<stored, client, faults>>

\* The server's messages, as they may come instead.
OtherFirst(m) ==
  {[m EXCEPT ![1] = Attr("r", <<"old", "s">>)], [m EXCEPT ![2] = Attr("s", "other")],
   [m EXCEPT ![3] = Attr("i", 0)], [m EXCEPT ![2] = Unreadable],
   Append(m, Attr("x", "")), Tail(m), <<>>}
OtherFinal == {<<Attr("e", "other-error")>>, <<Attr("e", "")>>, <<Unreadable>>, <<>>,
               <<Attr("v", Hmac(<<"another key">>, NoTerm))>>}

Altered ==
  /\ faults < MaxFaults
  /\ \/ phase = "continue" /\ net = peer.seen.first /\ \E m \in OtherFirst(net) : net' = m
     \/ phase = "final" /\ \E m \in OtherFinal : net' = m
     \/ phase = "final" /\ net' = <<Attr("v", Hmac(<<"another key">>, client.auth))>>
  /\ faults' = faults + 1
  /\ UNCHANGED <<stored, peer, client, phase>>

\* ScramSha256::update.  The old state is gone whatever happens.
Update ==
  /\ phase = "continue"
  /\ IF client.state = "update" /\ FirstMessage(net) /\ Extends(NonceOf(net), client.nonce)
       THEN LET salted == Hi(Normalize(client.password), SaltOf(net), CountOf(net))
                final == Final(client, NonceOf(net))
                auth == AuthMessage(client.nonce, net, final)
                key == ClientKey(salted)
                m == Append(final, Attr("p", Xor(key, Hmac(Hash(key), auth))))
            IN /\ client' = [client EXCEPT !.state = "finish", !.salted = salted,
                                           !.auth = auth, !.message = m]
               /\ Goto("proof", m)
       ELSE client' = [client EXCEPT !.state = "done"] /\ Refuse
  /\ UNCHANGED <<stored, peer, faults>>

\* The server looks for a key that the proof hides and that hashes to the stored one.
Proves(auth) == \E k \in {net[3][2][2]} : Hash(k) = stored.storedKey
                                         /\ net[3][2] = Xor(k, Hmac(stored.storedKey, auth))

ServerFinal ==
  /\ phase = "proof"
  /\ LET auth == AuthMessage(peer.seen.nonce, peer.seen.first, SubSeq(net, 1, 2))
         bound == <<peer.seen.gs2, IF peer.seen.gs2 = "p" THEN "own" ELSE "none">>
     IN IF net[2][2] = peer.nonce /\ net[1][2] = bound /\ Proves(auth)
          THEN Goto("final", <<Attr("v", Hmac(stored.serverKey, auth))>>)
          ELSE \/ Refuse
               \/ Goto("final", <<Attr("e", "invalid-proof")>>)
  /\ UNCHANGED <<stored, peer, client, faults>>

\* ScramSha256::finish: the server proves to have the key as well.
\* (AnyVerifier: a mutant that takes every well-formed one.)
AnyVerifier(c, m) == FinalMessage(m)
Verified(c, m) ==
  FinalMessage(m) /\ m[1][2] = Hmac(ServerKey(c.salted), c.auth)

Finish ==
  /\ phase = "final"
  /\ client' = [client EXCEPT !.state = "done"]
  /\ Goto(IF client.state = "finish" /\ Verified(client, net) THEN "accepted" ELSE "refused",
          NoTerm)
  /\ UNCHANGED <<stored, peer, faults>>

Next == \/ GivePassword \/ GiveMd5 \/ Judge \/ Start \/ ServerFirst \/ Altered
        \/ Update \/ ServerFinal \/ Finish
Spec == Init /\ [][Next]_vars

-----------------------------------------------------------------------------
(* Properties.                                                             *)

Same(p, q) == IF stored.kind = "md5" THEN p = q ELSE \E s \in Spellings : {p, q} \subseteq s
Shared ==
  \E p \in Passwords : /\ Same(p, client.password)
                       /\ \/ stored = EncryptMd5(p, User)
                          \/ \E i \in Iterations : stored = EncryptScram(p, Salt, i)

\* Whatever the client answers to "who are you" it is let in only with the password that
\* was stored, in any of its spellings, and takes itself to be in only if both ends have
\* seen the same exchange and, when both can bind it, the same certificate; and with the
\* password, a line that alters nothing and the certificate it is always let in
\* (ScramSha256, md5_hash against password::scram_sha_256 and md5).
Agreement ==
  /\ phase = "accepted" =>
       /\ Shared
       /\ peer.method = "sasl" =>
            /\ client.auth = AuthMessage(peer.seen.nonce, peer.seen.first,
                                         Final(client, peer.nonce))
            /\ client.endpoint # "none" /\ peer.plus => client.endpoint = "own"
  /\ phase = "refused" =>
       \/ ~Shared \/ faults > 0
       \/ client.endpoint = "other" /\ peer.plus
=============================================================================
