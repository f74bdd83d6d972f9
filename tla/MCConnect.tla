------------------------------ MODULE MCConnect ------------------------------
(* Configurations for model-checking Connect.                              *)
EXTENDS Connect

Base == [hosts |-> <<"tcp">>, hostaddrs |-> 0, ports |-> 1, balance |-> "disable",
         ssl |-> "prefer", negotiation |-> "postgres", can |-> TRUE, endpoint |-> TRUE,
         binding |-> "prefer", password |-> TRUE, attrs |-> "any"]

\* One host, and everything a session can be asked for.
Sessions ==
  {[Base EXCEPT !.hosts = h, !.ssl = s, !.negotiation = n, !.can = c, !.endpoint = e,
                !.binding = b, !.password = p, !.attrs = a] :
     h \in {<<"tcp">>, <<"unix">>}, s \in {"disable", "prefer", "require"},
     n \in {"postgres", "direct"}, c \in BOOLEAN, e \in BOOLEAN,
     b \in {"disable", "prefer", "require"}, p \in BOOLEAN,
     a \in {"any", "read-write", "read-only"}}

\* Several hosts, given in every way.
HostLists ==
  {[Base EXCEPT !.hosts = h, !.hostaddrs = a, !.ports = p, !.balance = o, !.ssl = "disable"] :
     h \in {<<>>, <<"tcp">>, <<"tcp", "tcp">>, <<"unix", "tcp">>},
     a \in 0..2, p \in 0..2, o \in {"disable", "random"}}

MCConfigs == Sessions \cup HostLists
MCHostLists == HostLists
=============================================================================
