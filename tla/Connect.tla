-------------------------------- MODULE Connect --------------------------------
(***************************************************************************)
(* Connecting: connect.rs goes over hosts and their addresses; for each it *)
(* opens a socket, negotiates TLS (connect_tls.rs), starts the session and *)
(* authenticates (connect_raw.rs), asks a KingbaseES server for its        *)
(* settings, and checks target_session_attrs.  Any failure moves on to the *)
(* next address, then to the next host; the error returned is the last.    *)
(*                                                                         *)
(* What a server does is free at every step.  Sockets, TLS libraries and   *)
(* the cryptography of SCRAM are external: a step of theirs succeeds or    *)
(* fails.                                                                  *)
(***************************************************************************)
EXTENDS Naturals, Sequences

CONSTANTS
  Configs,     \* the configurations callers use
  MaxAddrs,    \* addresses a host name resolves to
  MaxNotices   \* notices a server sends while a session is set up

HostKind == {"tcp", "unix"}

\* Config, as far as connecting reads it.  `hosts' and `hostaddrs' may both be
\* given; `can' and `endpoint' are what the TLS connector is able to do.
Config == [hosts : Seq(HostKind), hostaddrs : Nat, ports : Nat,
           balance : {"disable", "random"},
           ssl : {"disable", "prefer", "require"},
           negotiation : {"postgres", "direct"}, can : BOOLEAN, endpoint : BOOLEAN,
           binding : {"disable", "prefer", "require"}, password : BOOLEAN,
           attrs : {"any", "read-write", "read-only"}]

ASSUME ConnectAssumption ==
  /\ Configs \subseteq Config
  /\ MaxAddrs \in Nat \ {0}
  /\ MaxNotices \in Nat

VARIABLES
  cfg,      \* the configuration
  phase,    \* what connect is waiting for, or how it ended
  order,    \* hosts still to be tried
  host,     \* the host being tried
  addrs,    \* its addresses still to be tried
  last,     \* the last error met at this host
  error,    \* the last error met at an earlier host
  link,     \* the session being set up
  resolved, \* history: addresses found for each host tried
  attempts  \* history: the sockets opened, or not, in order

vars == <<cfg, phase, order, host, addrs, last, error, link, resolved, attempts>>
hostVars == <<cfg, order, host, addrs, error, resolved, attempts>>

\* A session: is it under TLS, was the authentication bound to that channel and
\* complete, the notices in the Connection's queue and those already consumed,
\* rows read by the probe, was its answer cut short, settings stored, and whether
\* the server is read-only.
NoLink == [tls |-> FALSE, bound |-> FALSE, authenticated |-> FALSE, notices |-> 0,
           logged |-> 0, rows |-> 0, cut |-> FALSE, settings |-> 0,
           readOnly |-> "unknown"]

Max2(a, b) == IF a > b THEN a ELSE b
NumHosts == Max2(Len(cfg.hosts), cfg.hostaddrs)
Ended == {"connected", "failed"}
Errors == {"none", "config", "lookup", "unresolved", "socket", "tls", "io", "db",
           "unexpected", "closed", "authentication", "password", "session"}

Phases == {"check", "host", "lookup", "address", "socket", "tls", "handshake", "startup",
           "auth", "sasl", "proof", "confirm", "info", "probe", "attrs"} \cup Ended
Link == [tls : BOOLEAN, bound : BOOLEAN, authenticated : BOOLEAN, notices : 0..MaxNotices,
         logged : 0..MaxNotices, rows : 0..2, cut : BOOLEAN, settings : 0..2,
         readOnly : {"unknown", "on", "off", "other"}]

TypeOK ==
  /\ cfg \in Config
  /\ phase \in Phases
  /\ order \in Seq(1..NumHosts)
  /\ host \in 0..NumHosts
  /\ addrs \in Seq(1..MaxAddrs)
  /\ last \in Errors /\ error \in Errors
  /\ link \in Link

Init ==
  /\ cfg \in Configs
  /\ phase = "check"
  /\ order = <<>> /\ host = 0 /\ addrs = <<>>
  /\ last = "none" /\ error = "none"
  /\ link = NoLink
  /\ resolved = [i \in 1..NumHosts |-> {}]
  /\ attempts = <<>>

Goto(p) == phase' = p

-----------------------------------------------------------------------------
(* Hosts and addresses: connect, connect_host                              *)

Orders(s) == {t \in [1..Len(s) -> {s[i] : i \in 1..Len(s)}] :
                \A i, j \in 1..Len(s) : t[i] = t[j] => i = j}

\* The order something is tried in: as given, or shuffled.
\* (Shuffled: a mutant that shuffles all the same.)
Shuffled(s) == Orders(s)
Arranged(s) == IF cfg.balance = "random" THEN Orders(s) ELSE {s}

HasHosts == cfg.hosts # <<>>
Mismatch ==
  \/ NumHosts = 0
  \/ HasHosts /\ cfg.hostaddrs # 0 /\ Len(cfg.hosts) # cfg.hostaddrs
  \/ cfg.ports > 1 /\ cfg.ports # NumHosts

CheckConfig ==
  /\ phase = "check"
  /\ IF Mismatch
     THEN Goto("failed") /\ error' = "config" /\ UNCHANGED order
     ELSE Goto("host") /\ order' \in Arranged([i \in 1..NumHosts |-> i]) /\ UNCHANGED error
  /\ UNCHANGED <<cfg, host, addrs, last, link, resolved, attempts>>

\* The host name, for TLS, and what the socket is opened to.
HasHostname == HasHosts /\ cfg.hosts[host] = "tcp"
IsUnix(h) == HasHosts /\ cfg.hosts[h] = "unix" /\ cfg.hostaddrs = 0

NextHost ==
  /\ phase = "host" /\ order # <<>>
  /\ host' = Head(order)
  /\ order' = Tail(order)
  /\ last' = "none"
  /\ IF IsUnix(host')
     THEN /\ addrs' = <<1>>
          /\ resolved' = [resolved EXCEPT ![host'] = {1}]
          /\ Goto("address")
     ELSE /\ Goto("lookup")
          /\ UNCHANGED <<addrs, resolved>>
  /\ UNCHANGED <<cfg, error, link, attempts>>

\* error.unwrap(): there is one, since there was a host.
NoMoreHosts ==
  /\ phase = "host" /\ order = <<>>
  /\ Goto("failed")
  /\ UNCHANGED <<hostVars, last, link>>

\* A hostaddr is its own only address.
Lookup ==
  /\ phase = "lookup"
  /\ \E n \in 0..MaxAddrs :
       /\ cfg.hostaddrs # 0 => n = 1
       /\ addrs' \in Arranged([i \in 1..n |-> i])
       /\ resolved' = [resolved EXCEPT ![host] = 1..n]
  /\ Goto("address")
  /\ UNCHANGED <<cfg, order, host, last, error, link, attempts>>

LookupFails ==
  /\ phase = "lookup" /\ cfg.hostaddrs = 0
  /\ error' = "lookup"
  /\ Goto("host")
  /\ UNCHANGED <<cfg, order, host, addrs, last, link, resolved, attempts>>

NextAddress ==
  /\ phase = "address" /\ addrs # <<>>
  /\ attempts' = Append(attempts, <<host, Head(addrs)>>)
  /\ addrs' = Tail(addrs)
  /\ link' = NoLink
  /\ Goto("socket")
  /\ UNCHANGED <<cfg, order, host, last, error, resolved>>

NoMoreAddresses ==
  /\ phase = "address" /\ addrs = <<>>
  /\ error' = IF last = "none" THEN "unresolved" ELSE last
  /\ Goto("host")
  /\ UNCHANGED <<cfg, order, host, addrs, last, link, resolved, attempts>>

\* connect_once returns an error; the loop goes on.
\* (GiveUp: a mutant for which it is final.)
GiveUp == "failed"
AfterError == "address"
Fail(e) == last' = e /\ Goto(AfterError) /\ UNCHANGED <<hostVars, link>>

\* A step of connect_once succeeds.
Step(p, l) == Goto(p) /\ link' = l /\ UNCHANGED <<hostVars, last>>

-----------------------------------------------------------------------------
(* Socket and TLS: connect_socket, connect_tls                             *)

Socket ==
  /\ phase = "socket"
  /\ Step("tls", link)

\* Refused, timed out, or make_tls_connect does not like the host name.
SocketFails ==
  /\ phase = "socket"
  /\ Fail("socket")

\* SslMode::Disable, or Prefer with a connector that cannot.
Plain == cfg.ssl = "disable" \/ (cfg.ssl = "prefer" /\ ~cfg.can)

WithoutTls ==
  /\ phase = "tls" /\ Plain
  /\ Step("startup", link)

DirectRefused ==
  /\ phase = "tls" /\ ~Plain /\ cfg.ssl = "prefer" /\ cfg.negotiation = "direct"
  /\ Fail("tls")

DirectTls ==
  /\ phase = "tls" /\ ~Plain /\ cfg.ssl = "require" /\ cfg.negotiation = "direct"
  /\ Step("handshake", link)

\* An SSLRequest is answered with `S', or something else, or not at all.
\* (MayStayPlain: a mutant that forgets what the mode was.)
AlwaysPlain == TRUE
MayStayPlain == cfg.ssl # "require"

AskForTls ==
  /\ phase = "tls" /\ ~Plain /\ cfg.negotiation = "postgres"
  /\ \/ Step("handshake", link)
     \/ IF MayStayPlain THEN Step("startup", link) ELSE Fail("tls")
     \/ Fail("io")

TlsHandshake ==
  /\ phase = "handshake" /\ HasHostname /\ cfg.can
  /\ Step("startup", [link EXCEPT !.tls = TRUE])

TlsFails ==
  /\ phase = "handshake"
  /\ Fail("tls")

-----------------------------------------------------------------------------
(* Startup and authentication: connect_raw                                 *)

Startup ==
  /\ phase = "startup"
  /\ Step("auth", link)

\* An I/O error, an ErrorResponse, a message that does not belong here (notices
\* among them), or the end of the stream.
StartupFails ==
  /\ phase \in {"startup", "auth", "sasl", "proof", "confirm", "info"}
  /\ \E e \in {"io", "db", "unexpected", "closed"} : Fail(e)

MayBeUnbound == cfg.binding # "require"

Trusted == [link EXCEPT !.authenticated = TRUE]

AuthOk ==
  /\ phase = "auth"
  /\ IF MayBeUnbound THEN Step("info", Trusted) ELSE Fail("authentication")

AuthPassword ==
  /\ phase = "auth"
  /\ IF ~MayBeUnbound THEN Fail("authentication")
     ELSE IF ~cfg.password THEN Fail("password")
     ELSE Step("confirm", link)

AuthUnsupported ==
  /\ phase = "auth"
  /\ Fail("authentication")

\* The end point of the channel, unless the caller wants none of it.
EndPoint == link.tls /\ cfg.endpoint /\ cfg.binding # "disable"

\* The mechanism, from those the server offers.
Plus(offer) == "plus" \in offer /\ EndPoint

AuthSasl ==
  /\ phase = "auth"
  /\ \E offer \in SUBSET {"scram", "plus"} :
       IF ~cfg.password THEN Fail("password")
       ELSE IF offer = {} THEN Fail("authentication")
       ELSE IF Plus(offer) THEN Step("sasl", [link EXCEPT !.bound = TRUE])
       ELSE IF MayBeUnbound THEN Step("sasl", link)
       ELSE Fail("authentication")

\* ScramSha256::update and finish accept the server's messages, or do not.
SaslContinue ==
  /\ phase = "sasl"
  /\ Step("proof", link) \/ Fail("authentication")

SaslFinal ==
  /\ phase = "proof"
  /\ Step("confirm", link) \/ Fail("authentication")

Confirmed ==
  /\ phase = "confirm"
  /\ Step("info", Trusted)

Received == link.notices + link.logged

\* read_info: keys and parameters leave no trace here, a notice is delayed.
InfoNotice ==
  /\ phase = "info" /\ Received < MaxNotices
  /\ Step("info", [link EXCEPT !.notices = @ + 1])

InfoDone ==
  /\ phase = "info"
  /\ Step("probe", link)

-----------------------------------------------------------------------------
(* The probe and the session attributes: connect_once                      *)

\* Both poll the Connection as a future, which logs its notices away, the delayed
\* ones first.  (Repeats: a mutant that leaves them in the queue.)
Repeats == [link EXCEPT !.logged = @ + link.notices]
Polled == [link EXCEPT !.notices = 0, !.logged = @ + link.notices]

ProbeNotice ==
  /\ phase \in {"probe", "attrs"} /\ Received < MaxNotices
  /\ Step(phase, [Polled EXCEPT !.logged = @ + 1])

\* Settings are collected, and stored when the answer is complete.
\* (StoresRows: a mutant that stores them as they come.)
StoresRows(l) == [l EXCEPT !.rows = @ + 1, !.settings = @ + 1]
Collects(l) == [l EXCEPT !.rows = @ + 1]

ProbeRow ==
  /\ phase = "probe" /\ link.rows < 2
  /\ Step("probe", Collects(Polled))

AfterProbe(l) == Step(IF cfg.attrs = "any" THEN "connected" ELSE "attrs", l)

ProbeDone ==
  /\ phase = "probe"
  /\ AfterProbe([Polled EXCEPT !.settings = link.rows])

\* An ErrorResponse: four SQLSTATEs are ignored.
ProbeRefused ==
  /\ phase = "probe"
  /\ AfterProbe([Polled EXCEPT !.cut = TRUE]) \/ Fail("db")

SessionFails ==
  /\ phase \in {"probe", "attrs"}
  /\ \E e \in {"db", "io", "closed", "unexpected"} : Fail(e)

Attrs ==
  /\ phase = "attrs"
  /\ \E ro \in {"on", "off", "other"} :
       IF \/ ro = "on" /\ cfg.attrs = "read-write"
          \/ ro = "off" /\ cfg.attrs = "read-only"
       THEN Fail("session")
       ELSE Step("connected", [Polled EXCEPT !.readOnly = ro])

-----------------------------------------------------------------------------
Hosts == CheckConfig \/ NextHost \/ NoMoreHosts \/ Lookup \/ LookupFails
           \/ NextAddress \/ NoMoreAddresses
Raw == Socket \/ SocketFails \/ WithoutTls \/ DirectRefused \/ DirectTls \/ AskForTls
         \/ TlsHandshake \/ TlsFails \/ Startup \/ StartupFails \/ AuthOk
         \/ AuthPassword \/ AuthUnsupported \/ AuthSasl \/ SaslContinue \/ SaslFinal
         \/ Confirmed \/ InfoNotice \/ InfoDone
Session == ProbeNotice \/ ProbeRow \/ ProbeDone \/ ProbeRefused \/ SessionFails \/ Attrs

Finished == phase \in Ended /\ UNCHANGED vars

Next == Hosts \/ Raw \/ Session \/ Finished

Spec == Init /\ [][Next]_vars

-----------------------------------------------------------------------------
(* Properties                                                              *)

\* A connection is handed out only if it meets the configuration: TLS when it is
\* required and none when it is disabled, channel binding when required, and only
\* over TLS, none when disabled, and a server of the right kind.
ConnectedAsAsked ==
  phase = "connected" =>
    /\ link.authenticated
    /\ cfg.ssl = "require" => link.tls
    /\ cfg.ssl = "disable" => ~link.tls
    /\ cfg.binding = "require" => link.bound
    /\ cfg.binding = "disable" => ~link.bound
    /\ link.bound => link.tls
    /\ cfg.attrs = "read-write" => link.readOnly # "on"
    /\ cfg.attrs = "read-only" => link.readOnly # "off"
    /\ cfg.attrs # "any" => link.readOnly # "unknown"

Attempted == {attempts[i] : i \in 1..Len(attempts)}

\* connect fails only after every address of every host has been tried, and then
\* has an error to return.
FailsOnlyAfterAll ==
  phase = "failed" /\ error # "config" =>
    /\ order = <<>> /\ error # "none"
    /\ \A h \in 1..NumHosts : \A a \in resolved[h] : <<h, a>> \in Attempted

\* No address is tried twice and, unless they are shuffled, they are tried in the
\* order in which they are given.
TriedInOrder ==
  \A i, j \in 1..Len(attempts) :
    i < j => /\ attempts[i] # attempts[j]
             /\ cfg.balance = "disable" =>
                  \/ attempts[i][1] < attempts[j][1]
                  \/ attempts[i][1] = attempts[j][1] /\ attempts[i][2] < attempts[j][2]

\* The settings of a Client are all of the server's answer, or the defaults: an
\* answer cut short by an error the probe ignores leaves nothing behind.
SettingsWhole ==
  phase \in {"attrs", "connected"} =>
    link.settings = IF link.cut THEN 0 ELSE link.rows

\* CHANGELOG: notices sent while connecting are returned first by the Connection.
NoticesReturned == phase = "connected" => link.logged = 0
=============================================================================
