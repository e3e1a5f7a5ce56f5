-------------------------------- MODULE HTTP --------------------------------
(***************************************************************************)
(* The HTTP discoverer of http.go, from the client New derives for each    *)
(* family to the attempts that share its connections.  net/http is         *)
(* external and modelled by what matters here: a transport has a pool, an  *)
(* idle connection, or one of HTTP/2 in use, is taken before one is        *)
(* dialed, a dial outlives the request it was for, and a body that is      *)
(* closed unread costs a connection of HTTP/1.  Beside the attempts, the   *)
(* rest of the program uses the transport the clients were derived from.   *)
(***************************************************************************)
EXTENDS Construction, Addresses

CONSTANTS
  Attempts,  \* bound: attempts under way at a time
  Conns,     \* bound: connections open at a time
  Bodies,    \* what an endpoint may answer: how long, and which address it is
  Limit      \* maxAddressBodyBytes

ASSUME HTTPAssumption ==
  /\ Limit \in Nat
  /\ Bodies \subseteq [length : Nat, address : IPs \cup {NoIP}]
  /\ "none" \notin Attempts \cup Conns /\ "others" \notin Attempts

\* The transport in the caller's http.Client, or http.DefaultTransport, and its
\* clones, each named for its family.
Transports == Families \cup {"theirs"}

VARIABLES
  transport,  \* the families each transport may dial
  clients,    \* the transport of each family's client, and of everyone else's
  conn,
  attempt

requests == <<conn, attempt>>
httpVars == <<vars, transport, clients, requests>>

Closed ==
  [state |-> "closed", at |-> "theirs", family |-> "4", http2 |-> FALSE, users |-> {}]

Idle == [state |-> "idle", via |-> "tripper", family |-> "4", conn |-> "none",
         body |-> [length |-> 0, address |-> NoIP], ip |-> NoIP]

HTTPInit ==
  /\ Init
  /\ transport = [t \in Transports |-> IF t = "theirs" THEN Families ELSE {}]
  /\ clients = [u \in Transports |-> "theirs"]
  /\ conn = [c \in Conns |-> Closed]
  /\ attempt = [a \in Attempts |-> Idle]

-----------------------------------------------------------------------------
(* newHTTPDiscoverer.                                                      *)

\* MUTANT: DialContext is set on the transport itself, last for IPv6.
Dialers_NotCloned ==
  [transport EXCEPT !["theirs"] = {"6"}, !["4"] = {"6"}, !["6"] = {"6"}]

\* What DialContext of the clones dials, unless a DialTLSContext that was cloned
\* with the rest comes before it.
Dialers ==
  [t \in Transports |->
     IF t = "theirs" \/ config.httpClient = "dialsTLS" THEN Families ELSE {t}]

\* MUTANT: the client is not copied, and its Transport replaced.
ClientForFamily_Shared ==
  [u \in Transports |-> IF config.httpClient = "none" THEN u ELSE "6"]

\* clientForFamily: a copy of the base with a clone of its transport; another
\* RoundTripper is left as it is.
ClientForFamily ==
  [u \in Transports |->
     IF u # "theirs" /\ config.httpClient = "tripper" THEN "tripper" ELSE u]

NewHTTPDiscoverer ==
  /\ Build
  /\ transport' = Dialers
  /\ clients' = ClientForFamily
  /\ UNCHANGED requests

-----------------------------------------------------------------------------
(* tryProtocol, and the transport it goes through.                         *)

client == <<vars, transport, clients>>

\* The connections that have room for a request.
Pool(t) ==
  {c \in Conns : /\ conn[c].state = "open" /\ conn[c].at = t
                 /\ conn[c].users = {} \/ conn[c].http2}

\* A dial goes on for nobody when its request has another connection, or ended.
Orphaned(a) ==
  [c \in Conns |-> IF conn[c].state = "dialing"
                   THEN [conn[c] EXCEPT !.users = @ \ {a}] ELSE conn[c]]

Dialing(a) == {c \in Conns : conn[c].state = "dialing" /\ a \in conn[c].users}

Dialed(t, user) == [Closed EXCEPT !.state = "dialing", !.at = t, !.users = {user}]

\* Only the built-in discoverer asks the endpoints, when it has any.
Begin(a, f) ==
  /\ phase = "built" /\ Kind("http") = "query" /\ Value.targets["http"] > 0
  /\ attempt[a].state = "idle"
  /\ attempt' = [attempt EXCEPT ![a] =
       [Idle EXCEPT !.via = clients[f], !.family = f,
                    !.state = IF clients[f] = "tripper" THEN "asking" ELSE "wanting"]]
  /\ UNCHANGED <<client, conn>>

TakeIdle(a) ==
  /\ attempt[a].state = "wanting"
  /\ \E c \in Pool(attempt[a].via) :
       /\ conn' = [Orphaned(a) EXCEPT ![c].users = @ \cup {a}]
       /\ attempt' = [attempt EXCEPT ![a].state = "asking", ![a].conn = c]
  /\ UNCHANGED client

Dial(a) ==
  /\ attempt[a].state = "wanting"
  /\ Pool(attempt[a].via) = {} /\ Dialing(a) = {}
  /\ \E c \in Conns :
       /\ conn[c].state = "closed"
       /\ conn' = [conn EXCEPT ![c] = Dialed(attempt[a].via, a)]
  /\ UNCHANGED <<client, attempt>>

\* To whoever it was dialed for, or to the pool.
Connected(c) ==
  /\ conn[c].state = "dialing"
  /\ \E f \in transport[conn[c].at], h2 \in BOOLEAN :
       conn' = [conn EXCEPT ![c] = [@ EXCEPT !.state = "open", !.family = f, !.http2 = h2]]
  /\ attempt' = [a \in Attempts |->
       IF a \in conn[c].users THEN [attempt[a] EXCEPT !.state = "asking", !.conn = c]
       ELSE attempt[a]]
  /\ UNCHANGED client

\* A dial fails, or an idle connection is given up by either side.
ConnectionEnds(c) ==
  /\ conn[c].state = "dialing" \/ (conn[c].state = "open" /\ conn[c].users = {})
  /\ conn' = [conn EXCEPT ![c] = Closed]
  /\ attempt' = [a \in Attempts |->
       IF a \in conn[c].users THEN [attempt[a] EXCEPT !.state = "done"] ELSE attempt[a]]
  /\ UNCHANGED client

\* The user is done with the connection, and it is kept or dropped; one of
\* HTTP/2 loses a stream only.
Release(c, user, ends) ==
  \/ /\ "keep" \in ends \/ conn[c].http2
     /\ conn' = [conn EXCEPT ![c].users = @ \ {user}]
  \/ /\ "drop" \in ends /\ ~ conn[c].http2
     /\ conn' = [conn EXCEPT ![c] = Closed]

\* A response may send the request elsewhere, by the same client.
Redirect(a) ==
  /\ attempt[a].state = "asking" /\ attempt[a].via # "tripper"
  /\ Release(attempt[a].conn, a, {"keep", "drop"})
  /\ attempt' = [attempt EXCEPT ![a].state = "wanting", ![a].conn = "none"]
  /\ UNCHANGED client

\* MUTANT: the reader stops at the limit itself.
Read_NoMore(body) == IF body.length > Limit THEN Limit ELSE body.length

\* io.ReadAll of a LimitReader that lets one byte more through.
Read(body) == IF body.length > Limit + 1 THEN Limit + 1 ELSE body.length

\* The beginning of a body may be an address the body is not.
Parsed(body) == IF Read(body) = body.length THEN {body.address} ELSE IPs \cup {NoIP}

\* resp.Body.Close: with the body unread, there is no use for the connection.
BodyClose(body) == IF Read(body) < body.length THEN {"drop"} ELSE {"keep", "drop"}

\* The response arrives and is read, down to the checks of the address.
Answered(a) ==
  /\ attempt[a].state = "asking"
  /\ \E body \in Bodies : \E ip \in Parsed(body) :
       /\ attempt' = [attempt EXCEPT ![a] =
            [@ EXCEPT !.state = "done", !.conn = "none", !.body = body,
                      !.ip = IF \/ Read(body) > Limit \/ ip = NoIP
                                \/ FamilyMismatch(ip, attempt[a].family)
                             THEN NoIP ELSE ip]]
       /\ IF attempt[a].conn = "none" THEN conn' = conn
          ELSE Release(attempt[a].conn, a, BodyClose(body))
  /\ UNCHANGED client

\* MUTANT: a body is closed only once it has been read.
RequestFails_NotClosed(a) ==
  /\ attempt[a].state \in {"wanting", "asking"}
  /\ attempt' = [attempt EXCEPT ![a].state = "done", ![a].conn = "none"]
  /\ conn' = Orphaned(a)
  /\ UNCHANGED client

\* The request cannot be made, its context ends, or its body breaks off.
RequestFails(a) ==
  /\ attempt[a].state \in {"wanting", "asking"}
  /\ attempt' = [attempt EXCEPT ![a].state = "done", ![a].conn = "none"]
  /\ IF attempt[a].conn = "none" THEN conn' = Orphaned(a)
     ELSE Release(attempt[a].conn, a, {"drop"})
  /\ UNCHANGED client

\* The round has the outcome; the next attempt can start.
Collected(a) ==
  /\ attempt[a].state = "done"
  /\ attempt' = [attempt EXCEPT ![a] = Idle]
  /\ UNCHANGED <<client, conn>>

\* The rest of the program, at any time, by a client it shares.
OthersUse(c) ==
  /\ \/ /\ c \in Pool(clients["theirs"])
        /\ conn' = [conn EXCEPT ![c].users = @ \cup {"others"}]
     \/ /\ conn[c].state = "closed"
        /\ conn' = [conn EXCEPT ![c] = Dialed(clients["theirs"], "others")]
     \/ /\ conn[c].state = "open" /\ "others" \in conn[c].users
        /\ Release(c, "others", {"keep", "drop"})
  /\ UNCHANGED <<client, attempt>>

Network == \E c \in Conns : Connected(c) \/ ConnectionEnds(c) \/ OthersUse(c)

Attempt(a) ==
  \/ \E f \in Families : Begin(a, f)
  \/ TakeIdle(a) \/ Dial(a) \/ Redirect(a) \/ Answered(a)
  \/ RequestFails(a) \/ Collected(a)

HTTPNext ==
  \/ (Options \/ Caller) /\ UNCHANGED <<transport, clients, requests>>
  \/ NewHTTPDiscoverer
  \/ Network
  \/ \E a \in Attempts : Attempt(a)

HTTPSpec == HTTPInit /\ [][HTTPNext]_httpVars

-----------------------------------------------------------------------------
(* Properties.                                                             *)

TypeOK ==
  /\ ConstructionOK
  /\ transport \in [Transports -> SUBSET Families]
  /\ clients \in [Transports -> Transports \cup {"tripper"}]
  /\ conn \in [Conns -> [state : {"closed", "dialing", "open"}, at : Transports,
                         family : Families, http2 : BOOLEAN,
                         users : SUBSET (Attempts \cup {"others"})]]
  /\ attempt \in [Attempts -> [state : {"idle", "wanting", "asking", "done"},
                               via : Transports \cup {"tripper"}, family : Families,
                               conn : Conns \cup {"none"},
                               body : [length : Nat, address : IPs \cup {NoIP}],
                               ip : IPs \cup {NoIP}]]

\* "The address family is still forced per attempt": whichever pool, redirect or
\* late dial its connection comes from, it is of the attempt's family, unless the
\* caller's client does its own dialing.
FamilyForced ==
  config.httpClient \notin {"dialsTLS", "tripper"} =>
    \A a \in Attempts : attempt[a].state = "asking" =>
      conn[attempt[a].conn].family = attempt[a].family

\* "A client never shares state with another": the rest of the program finds its
\* transport as it was, its own connections in the pool and no others.
TheirsUntouched ==
  /\ transport["theirs"] = Families
  /\ clients["theirs"] = "theirs"
  /\ \A c \in Conns : conn[c].users # {} =>
       ("others" \in conn[c].users <=> conn[c].at = "theirs")

\* "Anything larger is not an address": what an attempt finds is all the
\* endpoint answered, and of the family asked for; an answer of exactly the limit
\* is not lost.
AnswerIsWholeBody ==
  \A a \in Attempts :
    LET body == attempt[a].body IN
    /\ attempt[a].ip # NoIP =>
         /\ attempt[a].ip = body.address /\ body.length <= Limit
         /\ ~ FamilyMismatch(attempt[a].ip, attempt[a].family)
    /\ body.length <= Limit /\ body.address # NoIP
       /\ ~ FamilyMismatch(body.address, attempt[a].family)
       => attempt[a].ip = body.address

\* v1 "left the idle connections of every attempt behind": a connection that is
\* open has an attempt that uses it, or is where a client looks for it.
NothingLeftBehind ==
  \A c \in Conns : conn[c].state = "open" =>
    /\ \A a \in conn[c].users \cap Attempts :
         attempt[a].state = "asking" /\ attempt[a].conn = c
    /\ \E u \in Transports : clients[u] = conn[c].at
=============================================================================
