----------------------------- MODULE ConnectProofs -----------------------------
(***************************************************************************)
(* Proofs about Connect, for every set of configurations and every bound:  *)
(* a connection is only handed out as asked, and with whole settings;      *)
(* nothing is tried twice or out of its order, and connect gives up only   *)
(* when there is nothing left to try.                                      *)
(***************************************************************************)
EXTENDS Connect, SequenceTheorems, FunctionTheorems, FiniteSetTheorems, TLAPS

-----------------------------------------------------------------------------
(* The inductive invariant                                                 *)

\* A session under way has gone through these in their order.
Opening == {"socket", "tls", "handshake"}
Encrypted == {"startup", "auth", "sasl", "proof", "confirm", "info", "probe", "attrs",
              "connected"}
Authenticating == {"sasl", "proof", "confirm", "info", "probe", "attrs", "connected"}
Ready == {"info", "probe", "attrs", "connected"}
Unprobed == Opening \cup {"startup", "auth", "sasl", "proof", "confirm", "info"}

\* What the session l has been through once connect is at phase p.
SessionOK(p, l) ==
  /\ l \in Link
  /\ l.notices + l.logged <= MaxNotices
  /\ l.bound => l.tls /\ cfg.binding # "disable"
  /\ p \in Opening => ~l.tls
  /\ p = "handshake" => cfg.ssl # "disable"
  /\ p \in Encrypted => /\ cfg.ssl = "require" => l.tls
                        /\ cfg.ssl = "disable" => ~l.tls
  /\ p \in Authenticating /\ cfg.binding = "require" => l.bound
  /\ p \in Ready => l.authenticated
  /\ p \in Unprobed => l.rows = 0
  /\ p \in Unprobed \cup {"probe"} => l.settings = 0 /\ ~l.cut
  /\ p \in {"attrs", "connected"} => l.settings = IF l.cut THEN 0 ELSE l.rows
  /\ p = "attrs" => cfg.attrs # "any"
  /\ p = "connected" => /\ cfg.attrs = "read-write" => l.readOnly # "on"
                        /\ cfg.attrs = "read-only" => l.readOnly # "off"
                        /\ cfg.attrs # "any" => l.readOnly # "unknown"

ConnectInv == TypeOK /\ SessionOK(phase, link)

-----------------------------------------------------------------------------
(* Types of the lists                                                      *)

LEMMA CountingType ==
  ASSUME NEW n \in Nat
  PROVE  /\ [i \in 1..n |-> i] \in Seq(1..n)
         /\ Len([i \in 1..n |-> i]) = n
<1> DEFINE s == [i \in 1..n |-> i]
<1>1. s \in [1..n -> 1..n] /\ DOMAIN s = 1..n
  OBVIOUS
<1>2. s \in Seq(1..n)
  BY <1>1, SeqDef
<1>3. Len(s) \in Nat /\ 1..Len(s) = 1..n
  BY <1>1, <1>2, LenProperties
<1> QED
  BY <1>2, <1>3

\* Arranging a list of the numbers up to n gives a list of such numbers.
LEMMA ArrangedType ==
  ASSUME NEW n \in Nat, NEW t \in Arranged([i \in 1..n |-> i])
  PROVE  t \in Seq(1..n)
<1> DEFINE s == [i \in 1..n |-> i]
<1>1. s \in Seq(1..n) /\ Len(s) = n
  BY CountingType
<1>2. {s[i] : i \in 1..n} \subseteq 1..n
  OBVIOUS
<1>3. CASE t = s
  BY <1>1, <1>3
<1>4. CASE t \in Orders(s)
  <2>1. t \in [1..n -> {s[i] : i \in 1..n}]
    BY <1>1, <1>4 DEF Orders
  <2>2. t \in [1..n -> 1..n]
    BY <1>2, <2>1
  <2> QED
    BY <2>2, SeqDef
<1> QED
  BY <1>3, <1>4 DEF Arranged

LEMMA HostsCounted ==
  ASSUME cfg \in Config
  PROVE  NumHosts \in Nat /\ Len(cfg.hosts) \in Nat
<1>1. cfg.hosts \in Seq(HostKind) /\ cfg.hostaddrs \in Nat
  BY DEF Config
<1>2. Len(cfg.hosts) \in Nat
  BY <1>1, LenProperties
<1> QED
  BY <1>1, <1>2 DEF NumHosts, Max2

LEMMA NoLinkType == NoLink \in Link
  BY ConnectAssumption DEF NoLink, Link

-----------------------------------------------------------------------------
(* Steps of a session                                                      *)

\* A step that succeeds preserves the invariant if it leaves a proper session.
LEMMA StepOK ==
  ASSUME ConnectInv, NEW p \in Phases, NEW l, SessionOK(p, l), Step(p, l)
  PROVE  ConnectInv'
<1>1. phase' = p /\ link' = l /\ UNCHANGED <<cfg, order, host, addrs, last, error>>
  BY DEF Step, Goto, hostVars
<1>2. TypeOK'
  BY <1>1 DEF ConnectInv, TypeOK, SessionOK, NumHosts
<1>3. SessionOK(phase, link)'
  BY <1>1 DEF SessionOK
<1> QED
  BY <1>2, <1>3 DEF ConnectInv

\* A step that fails leaves a session nobody looks at again.
LEMMA FailOK ==
  ASSUME ConnectInv, NEW e \in Errors, Fail(e)
  PROVE  ConnectInv'
<1>1. phase' = "address" /\ last' = e /\ UNCHANGED <<cfg, order, host, addrs, error, link>>
  BY DEF Fail, Goto, hostVars, AfterError
<1>2. TypeOK'
  BY <1>1 DEF ConnectInv, TypeOK, NumHosts, Phases
<1>3. SessionOK(phase, link)'
  BY <1>1 DEF ConnectInv, SessionOK, Opening, Encrypted, Authenticating, Ready, Unprobed
<1> QED
  BY <1>2, <1>3 DEF ConnectInv

\* Where nothing is asked of a session, any that has been proper will do.
LEMMA IdleOK ==
  ASSUME ConnectInv, cfg' = cfg, link' = link,
         phase' \in {"check", "host", "lookup", "address", "failed"}
  PROVE  SessionOK(phase, link)'
BY DEF ConnectInv, SessionOK, Opening, Encrypted, Authenticating, Ready, Unprobed

-----------------------------------------------------------------------------
(* Hosts and addresses                                                     *)

LEMMA HostsOK ==
  ASSUME ConnectInv, Hosts
  PROVE  ConnectInv'
<1> USE DEF Goto
<1>1. NumHosts \in Nat
  BY HostsCounted DEF ConnectInv, TypeOK
<1>2. SUFFICES TypeOK' /\ SessionOK(phase, link)'
  BY DEF ConnectInv
<1>3. CASE CheckConfig
  <2>1. /\ UNCHANGED <<cfg, host, addrs, last, link>>
        /\ \/ phase' = "failed" /\ error' = "config" /\ order' = order
           \/ /\ phase' = "host" /\ error' = error
              /\ order' \in Arranged([i \in 1..NumHosts |-> i])
    BY <1>3 DEF CheckConfig
  <2>2. order' \in Seq(1..NumHosts)
    BY <1>1, <2>1, ArrangedType DEF ConnectInv, TypeOK
  <2>3. NumHosts' = NumHosts
    BY <2>1 DEF NumHosts
  <2>4. TypeOK'
    BY <2>1, <2>2, <2>3 DEF ConnectInv, TypeOK, Phases, Ended, Errors
  <2> QED
    BY <2>1, <2>4, IdleOK
<1>4. CASE NextHost
  <2>1. /\ UNCHANGED <<cfg, error, link>> /\ last' = "none"
        /\ order # <<>> /\ host' = Head(order) /\ order' = Tail(order)
        /\ phase' \in {"address", "lookup"} /\ addrs' \in {addrs, <<1>>}
    BY <1>4 DEF NextHost
  <2>2. order' \in Seq(1..NumHosts) /\ host' \in 1..NumHosts
    BY <2>1, HeadTailProperties DEF ConnectInv, TypeOK
  <2>3. <<1>> \in Seq(1..MaxAddrs)
    BY ConnectAssumption
  <2>4. NumHosts' = NumHosts
    BY <2>1 DEF NumHosts
  <2>5. TypeOK'
    <3>1. cfg' \in Config /\ phase' \in Phases /\ order' \in Seq(1..NumHosts')
      BY <2>1, <2>2, <2>4 DEF ConnectInv, TypeOK, Phases
    <3>2. host' \in 0..NumHosts'
      BY <1>1, <2>2, <2>4
    <3>3. addrs' \in Seq(1..MaxAddrs) /\ last' \in Errors /\ error' \in Errors
          /\ link' \in Link
      BY <2>1, <2>3 DEF ConnectInv, TypeOK, Errors
    <3> QED
      BY <3>1, <3>2, <3>3 DEF TypeOK
  <2> QED
    BY <2>1, <2>5, IdleOK
<1>5. CASE NoMoreHosts
  <2>1. UNCHANGED <<cfg, order, host, addrs, error, last, link>> /\ phase' = "failed"
    BY <1>5 DEF NoMoreHosts, hostVars
  <2> QED
    BY <2>1, IdleOK DEF ConnectInv, TypeOK, Phases, Ended, NumHosts
<1>6. CASE Lookup
  <2>1. /\ UNCHANGED <<cfg, order, host, last, error, link>> /\ phase' = "address"
    BY <1>6 DEF Lookup
  <2>2. PICK n \in 0..MaxAddrs : addrs' \in Arranged([i \in 1..n |-> i])
    BY <1>6 DEF Lookup
  <2>3. n \in Nat /\ 1..n \subseteq 1..MaxAddrs
    BY ConnectAssumption
  <2>4. addrs' \in Seq(1..n)
    BY <2>2, <2>3, ArrangedType
  <2>5. addrs' \in Seq(1..MaxAddrs)
    BY <2>3, <2>4, SeqMonotonic
  <2> QED
    BY <2>1, <2>5, IdleOK DEF ConnectInv, TypeOK, Phases, NumHosts
<1>7. CASE LookupFails
  <2>1. /\ UNCHANGED <<cfg, order, host, addrs, last, link>>
        /\ phase' = "host" /\ error' = "lookup"
    BY <1>7 DEF LookupFails
  <2> QED
    BY <2>1, IdleOK DEF ConnectInv, TypeOK, Phases, Errors, NumHosts
<1>8. CASE NextAddress
  <2>1. /\ UNCHANGED <<cfg, order, host, last, error>> /\ phase' = "socket"
        /\ link' = NoLink /\ addrs # <<>> /\ addrs' = Tail(addrs)
    BY <1>8 DEF NextAddress
  <2>2. addrs' \in Seq(1..MaxAddrs)
    BY <2>1, HeadTailProperties DEF ConnectInv, TypeOK
  <2>3. TypeOK'
    BY <2>1, <2>2, NoLinkType DEF ConnectInv, TypeOK, Phases, NumHosts
  <2>4. SessionOK(phase, link)'
    BY <2>1, NoLinkType, ConnectAssumption
    DEF SessionOK, NoLink, Opening, Encrypted, Authenticating, Ready, Unprobed
  <2> QED
    BY <2>3, <2>4
<1>9. CASE NoMoreAddresses
  <2>1. /\ UNCHANGED <<cfg, order, host, addrs, last, link>>
        /\ phase' = "host" /\ error' \in {"unresolved", last}
    BY <1>9 DEF NoMoreAddresses
  <2> QED
    BY <2>1, IdleOK DEF ConnectInv, TypeOK, Phases, Errors, NumHosts
<1> QED
  BY <1>3, <1>4, <1>5, <1>6, <1>7, <1>8, <1>9 DEF Hosts

-----------------------------------------------------------------------------
(* Setting a session up                                                    *)

\* Up to the point where authentication begins.
LEMMA OpeningOK ==
  ASSUME ConnectInv,
         \/ Socket \/ SocketFails \/ WithoutTls \/ DirectRefused \/ DirectTls
         \/ AskForTls \/ TlsHandshake \/ TlsFails \/ Startup \/ StartupFails
  PROVE  ConnectInv'
<1> USE DEF SessionOK, Opening, Encrypted, Authenticating, Ready, Unprobed
<1>1. SessionOK(phase, link) /\ cfg \in Config
  BY DEF ConnectInv, TypeOK
<1>2. \A e \in Errors : Fail(e) => ConnectInv'
  BY FailOK
<1>3. \A p \in Phases : \A l : SessionOK(p, l) /\ Step(p, l) => ConnectInv'
  BY StepOK
<1>4. CASE Socket
  <2>1. SessionOK("tls", link) /\ Step("tls", link)
    BY <1>1, <1>4 DEF Socket
  <2> QED
    BY <1>3, <2>1 DEF Phases
<1>5. CASE SocketFails \/ DirectRefused \/ TlsFails
  BY <1>2, <1>5 DEF SocketFails, DirectRefused, TlsFails, Errors
<1>6. CASE WithoutTls
  <2>1. SessionOK("startup", link) /\ Step("startup", link)
    BY <1>1, <1>6 DEF WithoutTls, Plain
  <2> QED
    BY <1>3, <2>1 DEF Phases
<1>7. CASE DirectTls
  <2>1. SessionOK("handshake", link) /\ Step("handshake", link)
    BY <1>1, <1>7 DEF DirectTls
  <2> QED
    BY <1>3, <2>1 DEF Phases
<1>8. CASE AskForTls
  <2>1. CASE Step("handshake", link)
    <3>1. SessionOK("handshake", link)
      BY <1>1, <1>8 DEF AskForTls, Plain
    <3> QED
      BY <1>3, <2>1, <3>1 DEF Phases
  <2>2. CASE MayStayPlain /\ Step("startup", link)
    <3>1. SessionOK("startup", link)
      BY <1>1, <1>8, <2>2 DEF AskForTls, MayStayPlain
    <3> QED
      BY <1>3, <2>2, <3>1 DEF Phases
  <2>3. CASE Fail("tls") \/ Fail("io")
    BY <1>2, <2>3 DEF Errors
  <2> QED
    BY <1>8, <2>1, <2>2, <2>3 DEF AskForTls
<1>9. CASE TlsHandshake
  <2> DEFINE l == [link EXCEPT !.tls = TRUE]
  <2>1. SessionOK("startup", l) /\ Step("startup", l)
    BY <1>1, <1>9 DEF TlsHandshake, Link
  <2> QED
    BY <1>3, <2>1 DEF Phases
<1>10. CASE Startup
  <2>1. SessionOK("auth", link) /\ Step("auth", link)
    BY <1>1, <1>10 DEF Startup
  <2> QED
    BY <1>3, <2>1 DEF Phases
<1>11. CASE StartupFails
  BY <1>2, <1>11 DEF StartupFails, Errors
<1> QED
  BY <1>4, <1>5, <1>6, <1>7, <1>8, <1>9, <1>10, <1>11

\* Authentication, and the parameters the server reports after it.
LEMMA AuthenticatingOK ==
  ASSUME ConnectInv,
         \/ AuthOk \/ AuthPassword \/ AuthUnsupported \/ AuthSasl \/ SaslContinue
         \/ SaslFinal \/ Confirmed \/ InfoNotice \/ InfoDone
  PROVE  ConnectInv'
<1> USE DEF SessionOK, Opening, Encrypted, Authenticating, Ready, Unprobed
<1>1. SessionOK(phase, link) /\ cfg \in Config
  BY DEF ConnectInv, TypeOK
<1>2. \A e \in Errors : Fail(e) => ConnectInv'
  BY FailOK
<1>3. \A p \in Phases : \A l : SessionOK(p, l) /\ Step(p, l) => ConnectInv'
  BY StepOK
<1>4. CASE AuthOk
  <2>1. CASE MayBeUnbound /\ Step("info", Trusted)
    <3>1. SessionOK("info", Trusted)
      BY <1>1, <1>4, <2>1 DEF AuthOk, MayBeUnbound, Trusted, Link
    <3> QED
      BY <1>3, <2>1, <3>1 DEF Phases
  <2>2. CASE Fail("authentication")
    BY <1>2, <2>2 DEF Errors
  <2> QED
    BY <1>4, <2>1, <2>2 DEF AuthOk
<1>5. CASE AuthPassword
  <2>1. CASE MayBeUnbound /\ Step("confirm", link)
    <3>1. SessionOK("confirm", link)
      BY <1>1, <1>5, <2>1 DEF AuthPassword, MayBeUnbound
    <3> QED
      BY <1>3, <2>1, <3>1 DEF Phases
  <2>2. CASE Fail("authentication") \/ Fail("password")
    BY <1>2, <2>2 DEF Errors
  <2> QED
    BY <1>5, <2>1, <2>2 DEF AuthPassword
<1>6. CASE AuthUnsupported
  BY <1>2, <1>6 DEF AuthUnsupported, Errors
<1>7. CASE AuthSasl
  <2> DEFINE l == [link EXCEPT !.bound = TRUE]
  <2>1. CASE EndPoint /\ Step("sasl", l)
    <3>1. SessionOK("sasl", l)
      BY <1>1, <1>7, <2>1 DEF AuthSasl, EndPoint, Link
    <3> QED
      BY <1>3, <2>1, <3>1 DEF Phases
  <2>2. CASE MayBeUnbound /\ Step("sasl", link)
    <3>1. SessionOK("sasl", link)
      BY <1>1, <1>7, <2>2 DEF AuthSasl, MayBeUnbound
    <3> QED
      BY <1>3, <2>2, <3>1 DEF Phases
  <2>3. CASE Fail("authentication") \/ Fail("password")
    BY <1>2, <2>3 DEF Errors
  <2> QED
    BY <1>7, <2>1, <2>2, <2>3 DEF AuthSasl, Plus
<1>8. CASE SaslContinue \/ SaslFinal \/ Confirmed
  <2>1. CASE phase = "sasl" /\ Step("proof", link)
    <3>1. SessionOK("proof", link)
      BY <1>1, <2>1
    <3> QED
      BY <1>3, <2>1, <3>1 DEF Phases
  <2>2. CASE phase = "proof" /\ Step("confirm", link)
    <3>1. SessionOK("confirm", link)
      BY <1>1, <2>2
    <3> QED
      BY <1>3, <2>2, <3>1 DEF Phases
  <2>3. CASE phase = "confirm" /\ Step("info", Trusted)
    <3>1. SessionOK("info", Trusted)
      BY <1>1, <2>3 DEF Trusted, Link
    <3> QED
      BY <1>3, <2>3, <3>1 DEF Phases
  <2>4. CASE Fail("authentication")
    BY <1>2, <2>4 DEF Errors
  <2> QED
    BY <1>8, <2>1, <2>2, <2>3, <2>4 DEF SaslContinue, SaslFinal, Confirmed
<1>9. CASE InfoNotice
  <2> DEFINE l == [link EXCEPT !.notices = @ + 1]
  <2>1. SessionOK("info", l) /\ Step("info", l)
    BY <1>1, <1>9, ConnectAssumption DEF InfoNotice, Received, Link
  <2> QED
    BY <1>3, <2>1 DEF Phases
<1>10. CASE InfoDone
  <2>1. SessionOK("probe", link) /\ Step("probe", link)
    BY <1>1, <1>10 DEF InfoDone
  <2> QED
    BY <1>3, <2>1 DEF Phases
<1> QED
  BY <1>4, <1>5, <1>6, <1>7, <1>8, <1>9, <1>10

\* Polling the Connection consumes the notices in its queue.
LEMMA PolledOK ==
  ASSUME SessionOK(phase, link)
  PROVE  /\ Polled \in Link /\ Polled.notices = 0
         /\ Polled.logged = link.notices + link.logged
         /\ Polled.tls = link.tls /\ Polled.bound = link.bound
         /\ Polled.authenticated = link.authenticated /\ Polled.rows = link.rows
         /\ Polled.cut = link.cut /\ Polled.settings = link.settings
         /\ Polled.readOnly = link.readOnly
<1>1. link \in Link /\ link.notices + link.logged <= MaxNotices
  BY DEF SessionOK
<1>2. /\ link.notices \in 0..MaxNotices /\ link.logged \in 0..MaxNotices
  BY <1>1 DEF Link
<1>3. link.notices + link.logged \in 0..MaxNotices /\ 0 \in 0..MaxNotices
  BY <1>1, <1>2, ConnectAssumption
<1>4. Polled = [link EXCEPT !.notices = 0, !.logged = link.notices + link.logged]
  <2>1. link.logged + link.notices = link.notices + link.logged
    BY <1>2, ConnectAssumption
  <2> QED
    BY <1>1, <2>1 DEF Polled, Link
<1> QED
  BY <1>1, <1>3, <1>4 DEF Link

\* The end of the probe, with or without its answer.
LEMMA AfterProbeOK ==
  ASSUME ConnectInv, phase = "probe", NEW l \in Link, AfterProbe(l),
         l.tls = link.tls, l.bound = link.bound, l.authenticated = link.authenticated,
         l.notices + l.logged <= MaxNotices,
         l.settings = IF l.cut THEN 0 ELSE l.rows
  PROVE  ConnectInv'
<1> USE DEF SessionOK, Opening, Encrypted, Authenticating, Ready, Unprobed
<1>1. SessionOK("probe", link)
  BY DEF ConnectInv
<1>2. CASE cfg.attrs = "any"
  <2>1. SessionOK("connected", l)
    BY <1>1, <1>2
  <2>2. Step("connected", l) /\ "connected" \in Phases
    BY <1>2 DEF AfterProbe, Phases, Ended
  <2> QED
    BY <2>1, <2>2, StepOK
<1>3. CASE cfg.attrs # "any"
  <2>1. SessionOK("attrs", l)
    BY <1>1, <1>3
  <2>2. Step("attrs", l) /\ "attrs" \in Phases
    BY <1>3 DEF AfterProbe, Phases
  <2> QED
    BY <2>1, <2>2, StepOK
<1> QED
  BY <1>2, <1>3

\* The notices and rows of the probe, its end, and the session attributes.
LEMMA SessionStepOK ==
  ASSUME ConnectInv, Session
  PROVE  ConnectInv'
<1> USE DEF SessionOK, Opening, Encrypted, Authenticating, Ready, Unprobed
<1>1. SessionOK(phase, link) /\ cfg \in Config
  BY DEF ConnectInv, TypeOK
<1>2. \A e \in Errors : Fail(e) => ConnectInv'
  BY FailOK
<1>3. \A p \in Phases : \A l : SessionOK(p, l) /\ Step(p, l) => ConnectInv'
  BY StepOK
<1>4. /\ Polled \in Link /\ Polled.notices = 0
      /\ Polled.logged = link.notices + link.logged
      /\ Polled.tls = link.tls /\ Polled.bound = link.bound
      /\ Polled.authenticated = link.authenticated /\ Polled.rows = link.rows
      /\ Polled.cut = link.cut /\ Polled.settings = link.settings
      /\ Polled.readOnly = link.readOnly
  BY <1>1, PolledOK
<1> HIDE DEF Polled
<1>5. CASE ProbeNotice
  <2> DEFINE l == [Polled EXCEPT !.logged = @ + 1]
  <2>1. phase \in {"probe", "attrs"} /\ Step(phase, l)
    BY <1>5 DEF ProbeNotice
  <2>2. SessionOK(phase, l)
    BY <1>1, <1>4, <1>5, ConnectAssumption DEF ProbeNotice, Received, Link
  <2> QED
    BY <1>3, <2>1, <2>2 DEF Phases
<1>6. CASE ProbeRow
  <2> DEFINE l == Collects(Polled)
  <2>1. Step("probe", l)
    BY <1>6 DEF ProbeRow
  <2>2. SessionOK("probe", l)
    BY <1>1, <1>4, <1>6 DEF ProbeRow, Collects, Link
  <2> QED
    BY <1>3, <2>1, <2>2 DEF Phases
<1>7. CASE ProbeDone
  <2> DEFINE l == [Polled EXCEPT !.settings = link.rows]
  <2>1. phase = "probe" /\ AfterProbe(l)
    BY <1>7 DEF ProbeDone
  <2>2. /\ l \in Link /\ l.settings = link.rows /\ l.rows = link.rows /\ ~l.cut
        /\ l.tls = link.tls /\ l.bound = link.bound /\ l.authenticated = link.authenticated
        /\ l.notices + l.logged <= MaxNotices
    BY <1>1, <1>4, <2>1 DEF Link
  <2> QED
    BY <2>1, <2>2, AfterProbeOK
<1>8. CASE ProbeRefused
  <2> DEFINE l == [Polled EXCEPT !.cut = TRUE]
  <2>1. phase = "probe" /\ (AfterProbe(l) \/ Fail("db"))
    BY <1>8 DEF ProbeRefused
  <2>2. /\ l \in Link /\ l.settings = link.settings /\ l.cut = TRUE
        /\ l.tls = link.tls /\ l.bound = link.bound /\ l.authenticated = link.authenticated
        /\ l.notices = 0 /\ l.logged = link.notices + link.logged
    BY <1>4 DEF Link
  <2>3. CASE AfterProbe(l)
    <3>1. link.settings = 0 /\ l.notices + l.logged <= MaxNotices
      BY <1>1, <1>4, <2>1, <2>2 DEF Link
    <3>2. l.settings = IF l.cut THEN 0 ELSE l.rows
      BY <2>2, <3>1
    <3> HIDE DEF l, SessionOK
    <3> QED
      BY <2>1, <2>2, <2>3, <3>1, <3>2, AfterProbeOK
  <2>4. CASE Fail("db")
    BY <1>2, <2>4 DEF Errors
  <2> QED
    BY <2>1, <2>3, <2>4
<1>9. CASE SessionFails
  BY <1>2, <1>9 DEF SessionFails, Errors
<1>10. CASE Attrs
  <2>1. PICK ro \in {"on", "off", "other"} :
          IF \/ ro = "on" /\ cfg.attrs = "read-write"
             \/ ro = "off" /\ cfg.attrs = "read-only"
          THEN Fail("session")
          ELSE Step("connected", [Polled EXCEPT !.readOnly = ro])
    BY <1>10 DEF Attrs
  <2> DEFINE l == [Polled EXCEPT !.readOnly = ro]
  <2>2. CASE Fail("session")
    BY <1>2, <2>2 DEF Errors
  <2>3. CASE /\ ~(ro = "on" /\ cfg.attrs = "read-write")
             /\ ~(ro = "off" /\ cfg.attrs = "read-only")
             /\ Step("connected", l)
    <3>1. SessionOK("connected", l)
      BY <1>1, <1>4, <1>10, <2>3 DEF Attrs, Link
    <3> QED
      BY <1>3, <2>3, <3>1 DEF Phases, Ended
  <2> QED
    BY <2>1, <2>2, <2>3
<1> QED
  BY <1>5, <1>6, <1>7, <1>8, <1>9, <1>10 DEF Session

-----------------------------------------------------------------------------
(* The theorems                                                            *)

LEMMA ConnectInvStart == Init => ConnectInv
<1> SUFFICES ASSUME Init PROVE ConnectInv
  OBVIOUS
<1>1. cfg \in Config /\ NumHosts \in Nat
  BY HostsCounted, ConnectAssumption DEF Init
<1>2. <<>> \in Seq(1..NumHosts) /\ <<>> \in Seq(1..MaxAddrs)
  BY EmptySeq
<1>3. TypeOK
  BY <1>1, <1>2, NoLinkType DEF Init, TypeOK, Phases, Errors
<1>4. SessionOK(phase, link)
  BY NoLinkType, ConnectAssumption
  DEF Init, SessionOK, NoLink, Opening, Encrypted, Authenticating, Ready, Unprobed
<1> QED
  BY <1>3, <1>4 DEF ConnectInv

LEMMA ConnectInvStep == ConnectInv /\ [Next]_vars => ConnectInv'
<1> SUFFICES ASSUME ConnectInv, [Next]_vars PROVE ConnectInv'
  OBVIOUS
<1>1. CASE Hosts
  BY <1>1, HostsOK
<1>2. CASE Raw
  BY <1>2, OpeningOK, AuthenticatingOK DEF Raw
<1>3. CASE Session
  BY <1>3, SessionStepOK
<1>4. CASE Finished \/ UNCHANGED vars
  <2>1. UNCHANGED vars
    BY <1>4 DEF Finished
  <2> QED
    BY <2>1 DEF vars, ConnectInv, TypeOK, SessionOK, NumHosts
<1> QED
  BY <1>1, <1>2, <1>3, <1>4 DEF Next

LEMMA ConnectInvariant == Spec => []ConnectInv
BY ConnectInvStart, ConnectInvStep, PTL DEF Spec

\* Every variable keeps its type: in particular the notices queued in a Connection
\* and those its probe consumes (connect_raw.rs, connect.rs) never exceed those sent.
THEOREM ConnectTypeCorrect == Spec => []TypeOK
<1>1. ConnectInv => TypeOK
  BY DEF ConnectInv
<1> QED
  BY <1>1, ConnectInvariant, PTL

\* connect hands out a connection only if it meets the configuration, whatever the
\* servers on the way did.
THEOREM ConnectedCorrect == Spec => []ConnectedAsAsked
<1>1. ConnectInv => ConnectedAsAsked
  <2> SUFFICES ASSUME ConnectInv, phase = "connected" PROVE ConnectedAsAsked
    BY DEF ConnectedAsAsked
  <2>1. SessionOK("connected", link)
    BY DEF ConnectInv
  <2> QED
    BY <2>1 DEF ConnectedAsAsked, SessionOK, Encrypted, Authenticating, Ready
<1> QED
  BY <1>1, ConnectInvariant, PTL

\* The settings a Client starts with are those of a complete answer, or none.
THEOREM SettingsCorrect == Spec => []SettingsWhole
<1>1. ConnectInv => SettingsWhole
  BY DEF ConnectInv, SessionOK, SettingsWhole
<1> QED
  BY <1>1, ConnectInvariant, PTL

-----------------------------------------------------------------------------
(* The two loops, over hosts and over addresses                            *)

\* x may be tried before y.
Follows(x, y) == x # y /\ (cfg.balance = "disable" => x < y)
InOrder(s) == \A i, j \in 1..Len(s) : i < j => Follows(s[i], s[j])

\* What is still to be tried is in order, and comes after all that was tried.
OrderInv ==
  /\ attempts \in Seq(Nat \X Nat)
  /\ phase = "check" => host = 0 /\ attempts = <<>>
  /\ InOrder(order) /\ InOrder(addrs)
  /\ \A k \in 1..Len(order) : Follows(host, order[k])
  /\ \A i \in 1..Len(attempts) :
       /\ \A k \in 1..Len(order) : Follows(attempts[i][1], order[k])
       /\ attempts[i][1] # host => Follows(attempts[i][1], host)
       /\ attempts[i][1] = host =>
            /\ phase # "lookup"
            /\ \A k \in 1..Len(addrs) : Follows(attempts[i][2], addrs[k])
  /\ TriedInOrder

\* The phases in which `addrs' holds the rest of what was found for `host'.
Between == {"check", "host", "lookup", "failed"}
StillListed(h, a) ==
  h = host /\ phase \notin Between /\ \E k \in 1..Len(addrs) : addrs[k] = a

\* Every address found was tried or is still listed; there is an error to return
\* once the hosts are used up.
CoverInv ==
  /\ resolved \in [1..NumHosts -> SUBSET Nat]
  /\ attempts \in Seq(Nat \X Nat)
  /\ \A h \in 1..NumHosts : \A a \in resolved[h] :
       <<h, a>> \in Attempted \/ StillListed(h, a)
  /\ phase = "host" => order # <<>> \/ error # "none"
  /\ phase = "failed" => error = "config" \/ (order = <<>> /\ error # "none")

-----------------------------------------------------------------------------
(* Lists                                                                   *)

\* However the numbers up to n are arranged, all of them are there, in order.
LEMMA ArrangedAll ==
  ASSUME NEW n \in Nat, NEW t \in Arranged([i \in 1..n |-> i])
  PROVE  /\ Len(t) = n
         /\ InOrder(t)
         /\ \A a \in 1..n : \E k \in 1..n : t[k] = a
<1> DEFINE s == [i \in 1..n |-> i]
<1>1. s \in Seq(1..n) /\ Len(s) = n
  BY CountingType
<1>2. t \in Seq(1..n)
  BY ArrangedType
<1>3. CASE t = s
  <2>1. InOrder(t)
    BY <1>1, <1>3 DEF InOrder, Follows
  <2> QED
    BY <1>1, <1>3, <2>1
<1>4. CASE t \in Orders(s) /\ cfg.balance = "random"
  <2>1. /\ t \in [1..n -> {s[i] : i \in 1..n}]
        /\ \A i, j \in 1..n : t[i] = t[j] => i = j
    BY <1>1, <1>4 DEF Orders
  <2>2. {s[i] : i \in 1..n} = 1..n
    OBVIOUS
  <2>3. t \in [1..n -> 1..n]
    BY <2>1, <2>2
  <2>4. Len(t) = n
    <3>1. Len(t) \in Nat /\ DOMAIN t = 1..Len(t)
      BY <1>2, LenProperties
    <3>2. 1..Len(t) = 1..n
      BY <2>3, <3>1
    <3>3. Len(t) \in Nat
      BY <3>1
    <3> HIDE DEF s
    <3> QED
      BY <3>2, <3>3
  <2>5. t \in Injection(1..n, 1..n)
    BY <2>1, <2>3, Fun_IsInj
  <2>6. t \in Surjection(1..n, 1..n)
    <3>1. IsFiniteSet(1..n)
      BY FS_Interval
    <3> QED
      BY <2>5, <3>1, FS_Injection
  <2>7. \A a \in 1..n : \E k \in 1..n : t[k] = a
    BY <2>6 DEF Surjection
  <2>8. InOrder(t)
    BY <1>4, <2>1, <2>4 DEF InOrder, Follows
  <2> QED
    BY <2>4, <2>7, <2>8
<1> QED
  BY <1>3, <1>4 DEF Arranged

LEMMA TailElements ==
  ASSUME NEW S, NEW s \in Seq(S), s # <<>>
  PROVE  /\ Len(s) \in Nat \ {0} /\ s[1] \in S /\ Head(s) = s[1]
         /\ Len(Tail(s)) = Len(s) - 1
         /\ \A i \in 1..Len(Tail(s)) : i + 1 \in 1..Len(s) /\ Tail(s)[i] = s[i + 1]
<1>1. Len(s) \in Nat \ {0}
  BY EmptySeq, LenProperties
<1>2. /\ Head(s) \in S /\ Len(Tail(s)) = Len(s) - 1
      /\ \A i \in 1..Len(Tail(s)) : Tail(s)[i] = s[i + 1]
  BY HeadTailProperties
<1>3. Head(s) = s[1]
  OBVIOUS
<1>4. \A i \in 1..Len(Tail(s)) : i + 1 \in 1..Len(s)
  BY <1>1, <1>2
<1> QED
  BY <1>1, <1>2, <1>3, <1>4

LEMMA TailInOrder ==
  ASSUME NEW S, NEW s \in Seq(S), s # <<>>, InOrder(s)
  PROVE  /\ InOrder(Tail(s))
         /\ \A k \in 1..Len(Tail(s)) : Follows(Head(s), Tail(s)[k])
<1>1. /\ Len(s) \in Nat \ {0} /\ Len(Tail(s)) = Len(s) - 1
      /\ \A i \in 1..Len(Tail(s)) : Tail(s)[i] = s[i + 1]
  BY TailElements
<1>2. Head(s) = s[1]
  BY TailElements
<1>3. InOrder(Tail(s))
  BY <1>1 DEF InOrder
<1>4. \A k \in 1..Len(Tail(s)) : Follows(Head(s), Tail(s)[k])
  BY <1>1, <1>2 DEF InOrder
<1> QED
  BY <1>3, <1>4

-----------------------------------------------------------------------------
(* Steps of a session leave the loops alone                                *)

LEMMA SessionStays ==
  ASSUME ConnectInv, Raw \/ Session
  PROVE  /\ UNCHANGED <<cfg, order, host, addrs, error, resolved, attempts>>
         /\ phase \notin Between /\ phase' \notin Between
<1> USE DEF Step, Fail, Goto, AfterError, hostVars, Between
<1>1. CASE Socket \/ SocketFails \/ WithoutTls \/ DirectRefused \/ DirectTls
           \/ AskForTls \/ TlsHandshake \/ TlsFails \/ Startup \/ StartupFails
  BY <1>1 DEF Socket, SocketFails, WithoutTls, DirectRefused, DirectTls, AskForTls,
              TlsHandshake, TlsFails, Startup, StartupFails
<1>2. CASE AuthOk \/ AuthPassword \/ AuthUnsupported \/ AuthSasl \/ SaslContinue
           \/ SaslFinal \/ Confirmed \/ InfoNotice \/ InfoDone
  BY <1>2 DEF AuthOk, AuthPassword, AuthUnsupported, AuthSasl, SaslContinue, SaslFinal,
              Confirmed, InfoNotice, InfoDone
<1>3. CASE ProbeNotice \/ ProbeRow \/ ProbeDone \/ ProbeRefused \/ SessionFails \/ Attrs
  BY <1>3 DEF ProbeNotice, ProbeRow, ProbeDone, ProbeRefused, SessionFails, Attrs,
              AfterProbe
<1> QED
  BY <1>1, <1>2, <1>3 DEF Raw, Session

LEMMA TriedStays ==
  ASSUME OrderInv, UNCHANGED <<cfg, attempts>>
  PROVE  TriedInOrder'
<1>1. TriedInOrder
  BY DEF OrderInv
<1> QED
  BY <1>1 DEF TriedInOrder

\* Nothing moves, and the phase is not one these invariants ask about.
LEMMA OrderStays ==
  ASSUME OrderInv, UNCHANGED <<cfg, order, host, addrs, attempts>>,
         phase' # "check", phase' = "lookup" => phase = "lookup"
  PROVE  OrderInv'
<1>1. TriedInOrder'
  BY TriedStays
<1> QED
  BY <1>1 DEF OrderInv, InOrder, Follows

LEMMA CoverStays ==
  ASSUME CoverInv, UNCHANGED <<cfg, order, host, addrs, error, resolved, attempts>>,
         phase \notin Between, phase' \notin Between
  PROVE  CoverInv'
<1>1. NumHosts' = NumHosts /\ Attempted' = Attempted
  BY DEF NumHosts, Attempted
<1>2. \A h, a : StillListed(h, a) => StillListed(h, a)'
  BY DEF StillListed
<1>3. phase' # "host" /\ phase' # "failed"
  BY DEF Between
<1> QED
  BY <1>1, <1>2, <1>3 DEF CoverInv

-----------------------------------------------------------------------------
(* Steps of the loops keep the order                                       *)

\* An address leaves the list, and is attempted.
LEMMA NextAddressOrder ==
  ASSUME ConnectInv, OrderInv, NextAddress
  PROVE  OrderInv'
<1> DEFINE n == Len(attempts)
           new == <<host, Head(addrs)>>
<1>1. /\ UNCHANGED <<cfg, order, host>>
      /\ addrs # <<>> /\ addrs' = Tail(addrs) /\ phase' = "socket"
      /\ attempts' = Append(attempts, new)
  BY DEF NextAddress, Goto
<1>2. /\ addrs \in Seq(1..MaxAddrs) /\ host \in Nat /\ attempts \in Seq(Nat \X Nat)
      /\ phase = "address"
  BY HostsCounted DEF ConnectInv, TypeOK, OrderInv, NextAddress
<1>3. /\ Head(addrs) \in 1..MaxAddrs /\ Len(addrs) \in Nat \ {0} /\ Head(addrs) = addrs[1]
      /\ Len(Tail(addrs)) = Len(addrs) - 1
      /\ \A k \in 1..Len(Tail(addrs)) : Tail(addrs)[k] = addrs[k + 1]
  BY <1>1, <1>2, TailElements
<1>4. new \in Nat \X Nat
  BY <1>2, <1>3, ConnectAssumption
<1>5. /\ attempts' \in Seq(Nat \X Nat) /\ n \in Nat /\ Len(attempts') = n + 1
      /\ \A i \in 1..n : attempts'[i] = attempts[i]
      /\ attempts'[n + 1] = new
  BY <1>1, <1>2, <1>4, AppendProperties, LenProperties
<1>6. new[1] = host /\ new[2] = addrs[1]
  BY <1>3
<1>7. InOrder(addrs') /\ \A k \in 1..Len(addrs') : Follows(addrs[1], addrs'[k])
  BY <1>1, <1>2, <1>3, TailInOrder DEF OrderInv
<1> HIDE DEF n, new
<1>8. ASSUME NEW i \in 1..Len(attempts')
      PROVE  /\ \A k \in 1..Len(order) : Follows(attempts'[i][1], order[k])
             /\ attempts'[i][1] # host => Follows(attempts'[i][1], host)
             /\ attempts'[i][1] = host =>
                  \A k \in 1..Len(addrs') : Follows(attempts'[i][2], addrs'[k])
  <2>1. CASE i = n + 1
    BY <1>5, <1>6, <1>7, <2>1 DEF OrderInv
  <2>2. CASE i \in 1..n
    <3>1. \A k \in 1..Len(addrs') : k + 1 \in 1..Len(addrs) /\ addrs'[k] = addrs[k + 1]
      BY <1>1, <1>3
    <3> QED
      BY <1>5, <2>2, <3>1 DEF OrderInv, n
  <2> QED
    BY <1>5, <2>1, <2>2
<1>9. TriedInOrder'
  <2> SUFFICES ASSUME NEW i \in 1..Len(attempts'), NEW j \in 1..Len(attempts'), i < j
               PROVE  /\ attempts'[i] # attempts'[j]
                      /\ cfg.balance = "disable" =>
                           \/ attempts'[i][1] < attempts'[j][1]
                           \/ /\ attempts'[i][1] = attempts'[j][1]
                              /\ attempts'[i][2] < attempts'[j][2]
    BY <1>1 DEF TriedInOrder
  <2>1. i \in 1..n
    BY <1>5
  <2>2. CASE j = n + 1
    <3>1. /\ attempts[i][1] # host => Follows(attempts[i][1], host)
          /\ attempts[i][1] = host => Follows(attempts[i][2], addrs[1])
      BY <1>3, <2>1 DEF OrderInv, n
    <3> QED
      BY <1>5, <1>6, <2>1, <2>2, <3>1 DEF Follows
  <2>3. CASE j \in 1..n
    <3>1. attempts'[i] = attempts[i] /\ attempts'[j] = attempts[j]
      BY <1>5, <2>1, <2>3
    <3>2. TriedInOrder
      BY DEF OrderInv
    <3> QED
      BY <2>1, <2>3, <3>1, <3>2 DEF TriedInOrder, n
  <2> QED
    BY <1>5, <2>2, <2>3
<1>10. /\ InOrder(order)' /\ InOrder(addrs)'
       /\ \A k \in 1..Len(order') : Follows(host, order[k])'
  BY <1>1, <1>7 DEF OrderInv, InOrder, Follows
<1>11. \A i \in 1..Len(attempts') :
         /\ \A k \in 1..Len(order') : Follows(attempts[i][1], order[k])'
         /\ attempts'[i][1] # host' => Follows(attempts[i][1], host)'
         /\ attempts'[i][1] = host' =>
              \A k \in 1..Len(addrs') : Follows(attempts[i][2], addrs[k])'
  BY <1>1, <1>8 DEF Follows
<1> QED
  BY <1>1, <1>5, <1>9, <1>10, <1>11 DEF OrderInv

LEMMA HostsOrder ==
  ASSUME ConnectInv, OrderInv, Hosts
  PROVE  OrderInv'
<1> USE DEF Goto
<1>0. /\ NumHosts \in Nat /\ order \in Seq(1..NumHosts) /\ addrs \in Seq(1..MaxAddrs)
      /\ host \in Nat
  BY HostsCounted DEF ConnectInv, TypeOK
<1>1. CASE CheckConfig
  <2>1. /\ UNCHANGED <<cfg, host, addrs, attempts>> /\ host = 0 /\ attempts = <<>>
        /\ phase' \in {"failed", "host"}
        /\ order' = order \/ order' \in Arranged([i \in 1..NumHosts |-> i])
    BY <1>1 DEF CheckConfig, OrderInv
  <2>2. CASE order' = order
    BY <2>1, <2>2, OrderStays
  <2>3. CASE order' \in Arranged([i \in 1..NumHosts |-> i])
    <3>1. InOrder(order') /\ order' \in Seq(1..NumHosts)
      BY <1>0, <2>3, ArrangedAll, ArrangedType
    <3>2. \A k \in 1..Len(order') : order'[k] \in 1..NumHosts
      BY <3>1, ElementOfSeq
    <3>3. \A k \in 1..Len(order') : Follows(0, order'[k])
      BY <1>0, <3>2 DEF Follows
    <3>4. attempts' = <<>> /\ Len(attempts') = 0
      BY <2>1
    <3>5. TriedInOrder'
      BY <3>4 DEF TriedInOrder
    <3> QED
      BY <2>1, <3>1, <3>3, <3>4, <3>5 DEF OrderInv, InOrder, Follows
  <2> QED
    BY <2>1, <2>2, <2>3
<1>2. CASE NextHost
  <2>1. /\ UNCHANGED <<cfg, attempts>> /\ order # <<>>
        /\ host' = Head(order) /\ order' = Tail(order)
        /\ phase' # "check" /\ addrs' \in {addrs, <<1>>}
    BY <1>2 DEF NextHost
  <2>2. /\ InOrder(order') /\ \A k \in 1..Len(order') : Follows(host', order'[k])
    BY <1>0, <2>1, TailInOrder DEF OrderInv
  <2>3. /\ Len(order) \in Nat \ {0} /\ host' = order[1] /\ Len(order') = Len(order) - 1
        /\ \A k \in 1..Len(order') : k + 1 \in 1..Len(order) /\ order'[k] = order[k + 1]
    BY <1>0, <2>1, TailElements
  <2>4. InOrder(addrs')
    <3>1. InOrder(<<1>>)
      BY DEF InOrder
    <3> QED
      BY <2>1, <3>1 DEF OrderInv
  <2>5. \A i \in 1..Len(attempts) :
          /\ \A k \in 1..Len(order') : Follows(attempts[i][1], order'[k])
          /\ attempts[i][1] # host' /\ Follows(attempts[i][1], host')
    <3> TAKE i \in 1..Len(attempts)
    <3>1. \A k \in 1..Len(order) : Follows(attempts[i][1], order[k])
      BY DEF OrderInv
    <3>2. \A k \in 1..Len(order') : Follows(attempts[i][1], order'[k])
      BY <2>3, <3>1
    <3>3. Follows(attempts[i][1], order[1])
      BY <2>3, <3>1
    <3> QED
      BY <2>3, <3>2, <3>3 DEF Follows
  <2>6. TriedInOrder'
    BY <2>1, TriedStays
  <2> QED
    BY <2>1, <2>2, <2>4, <2>5, <2>6 DEF OrderInv, InOrder, Follows
<1>3. CASE NoMoreHosts \/ LookupFails \/ NoMoreAddresses
  <2>1. /\ UNCHANGED <<cfg, order, host, addrs, attempts>>
        /\ phase' \in {"failed", "host"}
    BY <1>3 DEF NoMoreHosts, LookupFails, NoMoreAddresses, hostVars
  <2> QED
    BY <2>1, OrderStays
<1>4. CASE Lookup
  <2>1. UNCHANGED <<cfg, order, host, attempts>> /\ phase = "lookup" /\ phase' = "address"
    BY <1>4 DEF Lookup
  <2>2. PICK n \in 0..MaxAddrs : addrs' \in Arranged([i \in 1..n |-> i])
    BY <1>4 DEF Lookup
  <2>3. InOrder(addrs')
    BY <2>2, ArrangedAll, ConnectAssumption
  <2>4. TriedInOrder'
    BY <2>1, TriedStays
  <2> QED
    BY <2>1, <2>3, <2>4 DEF OrderInv, InOrder, Follows
<1>5. CASE NextAddress
  BY <1>5, NextAddressOrder
<1> QED
  BY <1>1, <1>2, <1>3, <1>4, <1>5 DEF Hosts

LEMMA OrderStart == Init => OrderInv
<1> SUFFICES ASSUME Init PROVE OrderInv
  OBVIOUS
<1>1. /\ attempts = <<>> /\ order = <<>> /\ addrs = <<>> /\ host = 0
      /\ Len(attempts) = 0 /\ Len(order) = 0 /\ Len(addrs) = 0
  BY DEF Init
<1>2. <<>> \in Seq(Nat \X Nat)
  BY EmptySeq
<1> QED
  BY <1>1, <1>2 DEF OrderInv, InOrder, TriedInOrder

LEMMA OrderStep == ConnectInv /\ OrderInv /\ [Next]_vars => OrderInv'
<1> SUFFICES ASSUME ConnectInv, OrderInv, [Next]_vars PROVE OrderInv'
  OBVIOUS
<1>1. CASE Hosts
  BY <1>1, HostsOrder
<1>2. CASE Raw \/ Session
  BY <1>2, SessionStays, OrderStays DEF Between
<1>3. CASE Finished \/ UNCHANGED vars
  <2>1. UNCHANGED <<cfg, order, host, addrs, attempts, phase>>
    BY <1>3 DEF Finished, vars
  <2>2. TriedInOrder'
    BY <2>1, TriedStays
  <2> QED
    BY <2>1, <2>2 DEF OrderInv, InOrder, Follows
<1> QED
  BY <1>1, <1>2, <1>3 DEF Next

\* connect and connect_host try no address twice and, unless they shuffle, follow
\* the order of the configuration, wherever an attempt fails.
THEOREM TriedInOrderCorrect == Spec => []TriedInOrder
<1>1. OrderInv => TriedInOrder
  BY DEF OrderInv
<1>2. Spec => []OrderInv
  BY OrderStart, OrderStep, ConnectInvariant, PTL DEF Spec
<1> QED
  BY <1>1, <1>2, PTL

-----------------------------------------------------------------------------
(* Steps of the loops leave no address out                                 *)

\* What was attempted, and is no longer waited for, is covered.
LEMMA AllCovered ==
  ASSUME CoverInv, phase \in Between
  PROVE  \A h \in 1..NumHosts : \A a \in resolved[h] : <<h, a>> \in Attempted
BY DEF CoverInv, StillListed

LEMMA HostsCover ==
  ASSUME ConnectInv, CoverInv, Hosts
  PROVE  CoverInv'
<1> USE DEF Goto
<1>0. /\ NumHosts \in Nat /\ order \in Seq(1..NumHosts) /\ addrs \in Seq(1..MaxAddrs)
      /\ host \in Nat
  BY HostsCounted DEF ConnectInv, TypeOK
<1>1. CASE CheckConfig
  <2>1. /\ UNCHANGED <<cfg, resolved, attempts>> /\ phase \in Between
        /\ \/ phase' = "failed" /\ error' = "config"
           \/ /\ phase' = "host" /\ NumHosts # 0
              /\ order' \in Arranged([i \in 1..NumHosts |-> i])
    BY <1>1 DEF CheckConfig, Between, Mismatch
  <2>2. phase' = "host" => order' # <<>>
    <3>1. order' \in Arranged([i \in 1..NumHosts |-> i]) => Len(order') = NumHosts
      BY <1>0, ArrangedAll
    <3> QED
      BY <2>1, <3>1, EmptySeq
  <2>3. NumHosts' = NumHosts /\ Attempted' = Attempted
    BY <2>1 DEF NumHosts, Attempted
  <2> QED
    BY <2>1, <2>2, <2>3, AllCovered DEF CoverInv
<1>2. CASE NextHost
  <2>1. /\ UNCHANGED <<cfg, attempts>> /\ phase \in Between
        /\ \/ phase' = "lookup" /\ resolved' = resolved
           \/ /\ phase' = "address" /\ addrs' = <<1>>
              /\ resolved' = [resolved EXCEPT ![host'] = {1}]
    BY <1>2 DEF NextHost, Between
  <2>2. NumHosts' = NumHosts /\ Attempted' = Attempted
    BY <2>1 DEF NumHosts, Attempted
  <2>3. resolved' \in [1..NumHosts -> SUBSET Nat]
    <3>1. resolved \in [1..NumHosts -> SUBSET Nat] /\ {1} \in SUBSET Nat
      BY DEF CoverInv
    <3> QED
      BY <2>1, <3>1
  <2>4. ASSUME NEW h \in 1..NumHosts, NEW a \in resolved'[h]
        PROVE  <<h, a>> \in Attempted \/ StillListed(h, a)'
    <3>1. CASE a \in resolved[h]
      BY <2>1, <3>1, AllCovered
    <3>2. CASE a \notin resolved[h]
      <4>1. h = host' /\ a = 1 /\ phase' = "address" /\ addrs' = <<1>>
        BY <2>1, <3>2 DEF CoverInv
      <4>2. Len(addrs') = 1 /\ addrs'[1] = 1
        BY <4>1
      <4> QED
        BY <4>1, <4>2 DEF StillListed, Between
    <3> QED
      BY <3>1, <3>2
  <2> QED
    BY <2>1, <2>2, <2>3, <2>4 DEF CoverInv
<1>3. CASE NoMoreHosts
  <2>1. /\ UNCHANGED <<cfg, order, error, resolved, attempts>>
        /\ phase = "host" /\ phase' = "failed" /\ order = <<>>
    BY <1>3 DEF NoMoreHosts, hostVars
  <2>2. NumHosts' = NumHosts /\ Attempted' = Attempted
    BY <2>1 DEF NumHosts, Attempted
  <2> QED
    BY <2>1, <2>2, AllCovered DEF CoverInv, Between
<1>4. CASE LookupFails
  <2>1. /\ UNCHANGED <<cfg, resolved, attempts>> /\ error' = "lookup"
        /\ phase = "lookup" /\ phase' = "host"
    BY <1>4 DEF LookupFails
  <2>2. NumHosts' = NumHosts /\ Attempted' = Attempted
    BY <2>1 DEF NumHosts, Attempted
  <2> QED
    BY <2>1, <2>2, AllCovered DEF CoverInv, Between
<1>5. CASE Lookup
  <2>1. UNCHANGED <<cfg, host, attempts>> /\ phase = "lookup" /\ phase' = "address"
    BY <1>5 DEF Lookup
  <2>2. PICK n \in 0..MaxAddrs : /\ addrs' \in Arranged([i \in 1..n |-> i])
                                 /\ resolved' = [resolved EXCEPT ![host] = 1..n]
    BY <1>5 DEF Lookup
  <2>3. n \in Nat
    BY ConnectAssumption
  <2>4. Len(addrs') = n /\ \A a \in 1..n : \E k \in 1..n : addrs'[k] = a
    BY <2>2, <2>3, ArrangedAll
  <2>5. NumHosts' = NumHosts /\ Attempted' = Attempted
    BY <2>1 DEF NumHosts, Attempted
  <2>6. resolved' \in [1..NumHosts -> SUBSET Nat]
    <3>1. 1..n \in SUBSET Nat
      OBVIOUS
    <3> QED
      BY <2>2, <3>1 DEF CoverInv
  <2>7. ASSUME NEW h \in 1..NumHosts, NEW a \in resolved'[h]
        PROVE  <<h, a>> \in Attempted \/ StillListed(h, a)'
    <3>1. CASE h = host
      <4>1. a \in 1..n
        BY <2>2, <3>1 DEF CoverInv
      <4> QED
        BY <2>1, <2>4, <3>1, <4>1 DEF StillListed, Between
    <3>2. CASE h # host
      <4>1. a \in resolved[h]
        BY <2>2, <3>2 DEF CoverInv
      <4> QED
        BY <2>1, <4>1, AllCovered DEF Between
    <3> QED
      BY <3>1, <3>2
  <2> QED
    BY <2>1, <2>5, <2>6, <2>7 DEF CoverInv
<1>6. CASE NextAddress
  <2> DEFINE new == <<host, Head(addrs)>>
  <2>1. /\ UNCHANGED <<cfg, order, host, error, resolved>>
        /\ addrs # <<>> /\ addrs' = Tail(addrs) /\ phase' = "socket"
        /\ attempts' = Append(attempts, new)
    BY <1>6 DEF NextAddress
  <2>2. /\ Head(addrs) = addrs[1] /\ addrs[1] \in 1..MaxAddrs
        /\ Len(addrs) \in Nat \ {0} /\ Len(Tail(addrs)) = Len(addrs) - 1
        /\ \A k \in 1..Len(Tail(addrs)) : Tail(addrs)[k] = addrs[k + 1]
    BY <1>0, <2>1, TailElements
  <2>3. new \in Nat \X Nat
    BY <1>0, <2>2, ConnectAssumption
  <2>4. /\ attempts' \in Seq(Nat \X Nat) /\ Len(attempts) \in Nat
        /\ Len(attempts') = Len(attempts) + 1
        /\ \A i \in 1..Len(attempts) : attempts'[i] = attempts[i]
        /\ attempts'[Len(attempts) + 1] = new
    BY <2>1, <2>3, AppendProperties, LenProperties DEF CoverInv
  <2> HIDE DEF new
  <2>5. Attempted \subseteq Attempted' /\ new \in Attempted'
    <3>1. \A i \in 1..Len(attempts) : i \in 1..Len(attempts') /\ attempts'[i] = attempts[i]
      BY <2>4
    <3>2. Len(attempts) + 1 \in 1..Len(attempts')
      BY <2>4
    <3> QED
      BY <2>4, <3>1, <3>2 DEF Attempted
  <2>6. NumHosts' = NumHosts
    BY <2>1 DEF NumHosts
  <2>7. ASSUME NEW h \in 1..NumHosts, NEW a \in resolved[h]
        PROVE  <<h, a>> \in Attempted' \/ StillListed(h, a)'
    <3>1. CASE <<h, a>> \in Attempted
      BY <2>5, <3>1
    <3>2. CASE StillListed(h, a)
      <4>1. PICK k \in 1..Len(addrs) : addrs[k] = a /\ h = host
        BY <3>2 DEF StillListed
      <4>2. CASE k = 1
        BY <2>2, <2>5, <4>1, <4>2 DEF new
      <4>3. CASE k # 1
        <5>1. k - 1 \in 1..Len(addrs') /\ addrs'[k - 1] = a
          BY <2>1, <2>2, <4>1, <4>3
        <5> QED
          BY <2>1, <4>1, <5>1 DEF StillListed, Between
      <4> QED
        BY <4>2, <4>3
    <3> QED
      BY <3>1, <3>2 DEF CoverInv
  <2> QED
    BY <2>1, <2>4, <2>6, <2>7 DEF CoverInv
<1>7. CASE NoMoreAddresses
  <2>1. /\ UNCHANGED <<cfg, resolved, attempts>> /\ addrs = <<>>
        /\ phase = "address" /\ phase' = "host" /\ error' # "none"
    BY <1>7 DEF NoMoreAddresses
  <2>2. NumHosts' = NumHosts /\ Attempted' = Attempted
    BY <2>1 DEF NumHosts, Attempted
  <2>3. \A h, a : ~StillListed(h, a)
    BY <2>1, EmptySeq DEF StillListed
  <2> QED
    BY <2>1, <2>2, <2>3 DEF CoverInv
<1> QED
  BY <1>1, <1>2, <1>3, <1>4, <1>5, <1>6, <1>7 DEF Hosts

LEMMA CoverStart == Init => CoverInv
<1> SUFFICES ASSUME Init PROVE CoverInv
  OBVIOUS
<1>1. /\ attempts = <<>> /\ phase = "check" /\ resolved = [i \in 1..NumHosts |-> {}]
  BY DEF Init
<1>2. <<>> \in Seq(Nat \X Nat)
  BY EmptySeq
<1>3. {} \in SUBSET Nat
  OBVIOUS
<1>4. resolved \in [1..NumHosts -> SUBSET Nat] /\ \A h \in 1..NumHosts : resolved[h] = {}
  BY <1>1, <1>3
<1> QED
  BY <1>1, <1>2, <1>4 DEF CoverInv

LEMMA CoverStep == ConnectInv /\ CoverInv /\ [Next]_vars => CoverInv'
<1> SUFFICES ASSUME ConnectInv, CoverInv, [Next]_vars PROVE CoverInv'
  OBVIOUS
<1>1. CASE Hosts
  BY <1>1, HostsCover
<1>2. CASE Raw \/ Session
  BY <1>2, SessionStays, CoverStays
<1>3. CASE Finished \/ UNCHANGED vars
  <2>1. UNCHANGED <<cfg, order, host, addrs, error, resolved, attempts, phase>>
    BY <1>3 DEF Finished, vars
  <2>2. NumHosts' = NumHosts /\ Attempted' = Attempted
    BY <2>1 DEF NumHosts, Attempted
  <2>3. \A h, a : StillListed(h, a) => StillListed(h, a)'
    BY <2>1 DEF StillListed
  <2> QED
    BY <2>1, <2>2, <2>3 DEF CoverInv
<1> QED
  BY <1>1, <1>2, <1>3 DEF Next

\* connect fails only when every address found for every host has been attempted,
\* and there is then an error to return: its `error.unwrap()' never panics.
THEOREM FailsOnlyAfterAllCorrect == Spec => []FailsOnlyAfterAll
<1>1. CoverInv => FailsOnlyAfterAll
  <2> SUFFICES ASSUME CoverInv, phase = "failed", error # "config"
               PROVE  /\ order = <<>> /\ error # "none"
                      /\ \A h \in 1..NumHosts : \A a \in resolved[h] : <<h, a>> \in Attempted
    BY DEF FailsOnlyAfterAll
  <2> QED
    BY AllCovered DEF CoverInv, Between
<1>2. Spec => []CoverInv
  BY CoverStart, CoverStep, ConnectInvariant, PTL DEF Spec
<1> QED
  BY <1>1, <1>2, PTL
=============================================================================
