----------------------------- MODULE MCDiscovery ----------------------------
(***************************************************************************)
(* Clients for the runs of Discovery.  A client always has the three       *)
(* built-in discoverers; WithMethod adds to them or replaces one.          *)
(***************************************************************************)
EXTENDS Discovery

BuiltIn == [stun |-> "stun", dns |-> "query", http |-> "query"]

WithRouter == [stun |-> "stun", dns |-> "query", http |-> "query",
               router |-> "custom"]

Client(methods, kind, targets, timeout, attemptTimeout) ==
  [methods |-> methods, kind |-> kind,
   targets |-> [m \in DOMAIN kind |-> IF m \in targets THEN 1 ELSE 0],
   timeout |-> timeout, attemptTimeout |-> attemptTimeout]

\* The default order; two that only query, with their own cap; one with a name
\* nobody registered; one that repeats a method; one without DNS servers; a
\* custom discoverer before and behind a built-in one.
MCClients ==
  { Client(<<"stun", "dns", "http">>, BuiltIn, {"stun", "dns", "http"}, 0, 2),
    Client(<<"dns", "http">>, BuiltIn, {"dns", "http"}, 4, 5),
    Client(<<"dns", "nobody">>, BuiltIn, {"dns"}, 0, 5),
    Client(<<"dns", "stun", "dns">>, BuiltIn, {"dns", "stun"}, 6, 1),
    Client(<<"dns", "http">>, BuiltIn, {"http"}, 0, 2),
    Client(<<"router", "dns">>, WithRouter, {"dns"}, 0, 2),
    Client(<<"stun", "router">>, WithRouter, {"stun"}, 3, 5) }

\* Discoverers that keep their contract, and one that finds nothing without
\* saying so.
MCCustomResults ==
  {[ip |-> ip, version |-> VersionOf(ip)] : ip \in IPs \cup {NoIP}}

\* One that returns the version it was not asked about.
MCAnyResults == [ip : IPs, version : {"IPv4Only", "IPv6Only"}]

\* STUN alone, with a cap on the call.
MCStunOnly == { Client(<<"stun">>, BuiltIn, {"stun"}, 2, 5) }
=============================================================================
