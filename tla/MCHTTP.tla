------------------------------- MODULE MCHTTP -------------------------------
(***************************************************************************)
(* Options for the run of HTTP.  Those that are about lists leave out the  *)
(* endpoints, so that no request is made; those that are about requests    *)
(* hold no slice of the caller's.                                          *)
(***************************************************************************)
EXTENDS HTTP, TLC

Set(field, value) == [set |-> field, to |-> value]

WithMethod(name, d) == [set |-> "custom", name |-> name, to |-> d]

MCCallerArrays == [order |-> <<"dns", "stun">>, other |-> <<"http">>, empty |-> <<>>]

MCItems == {"stun", "dns", "http", "default"}

MCOptionLists ==
  { <<Set("httpEndpoints", "empty"), Set("methods", "other"), Set("methods", "order"),
      Set("methods", "empty"), Set("timeout", 3), Set("timeout", -1)>>,
    <<Set("httpEndpoints", "empty"), Set("stunServers", "order"),
      Set("stunServers", "empty"), Set("dnsServers", "order")>>,
    <<WithMethod("router", "d1"), WithMethod("http", "d2"), WithMethod("", "d1"),
      WithMethod("router", "d2"), WithMethod("http", "nil"), [set |-> "nil"]>>,
    <<Set("attemptTimeout", 1), Set("attemptTimeout", 0), Set("httpClient", "tripper"),
      Set("httpClient", "transport"), Set("httpClient", "nil")>>,
    <<Set("httpClient", "dialsTLS")>>,
    <<Set("httpClient", "tripper")>> }

\* An address and something else, within the limit, of exactly the limit, a byte
\* longer and longer than that.
MCBodies ==
  { [length |-> 1, address |-> "ipv4"], [length |-> 1, address |-> NoIP],
    [length |-> 2, address |-> "ipv6"], [length |-> 3, address |-> "ipv4"],
    [length |-> 4, address |-> NoIP] }

\* Connections are interchangeable, and so are attempts.
MCSymmetry == Permutations(Conns) \cup Permutations(Attempts)
=============================================================================
