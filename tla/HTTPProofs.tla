----------------------------- MODULE HTTPProofs -----------------------------
(***************************************************************************)
(* Theorems of HTTP, for any options, attempts, connections and bodies:    *)
(* each attempt asks over its family, nothing borrowed is changed, no      *)
(* connection is left behind, and an address is all of an answer.          *)
(***************************************************************************)
EXTENDS HTTP, ConstructionProofs

Users == Attempts \cup {"others"}

ConnType == [state : {"closed", "dialing", "open"}, at : Transports,
             family : Families, http2 : BOOLEAN, users : SUBSET Users]

AttemptType == [state : {"idle", "wanting", "asking", "done"},
                via : Transports \cup {"tripper"}, family : Families,
                conn : Conns \cup {"none"},
                body : [length : Nat, address : IPs \cup {NoIP}],
                ip : IPs \cup {NoIP}]

Types == conn \in [Conns -> ConnType] /\ attempt \in [Attempts -> AttemptType]

\* What the two families go through, before and after New.
Wired ==
  /\ phase # "built" =>
       /\ transport = [t \in Transports |-> IF t = "theirs" THEN Families ELSE {}]
       /\ clients = [u \in Transports |-> "theirs"]
  /\ phase = "built" => transport = Dialers /\ clients = ClientForFamily

AttemptOK(a) ==
  LET x == attempt[a] IN
  /\ x.state \in {"wanting", "asking"} => phase = "built" /\ x.via = clients[x.family]
  /\ x.state = "wanting" => x.via # "tripper"
  /\ x.state = "asking" /\ x.via # "tripper" =>
       x.conn \in Conns /\ a \in conn[x.conn].users /\ conn[x.conn].state = "open"
  /\ x.state # "asking" \/ x.via = "tripper" => x.conn = "none"

\* Who uses a connection, and where he got it.
ConnOK(c) ==
  LET k == conn[c] IN
  /\ k.state = "closed" => k.users = {}
  /\ k.state # "closed" => clients[k.at] = k.at
  /\ k.state = "open" => k.family \in transport[k.at]
  /\ k.state = "dialing" \/ ~ k.http2 => \A x, y \in k.users : x = y
  /\ "others" \in k.users => k.at = "theirs"
  /\ \A a \in k.users \cap Attempts :
       /\ attempt[a].via = k.at
       /\ k.state = "dialing" => attempt[a].state = "wanting"
       /\ k.state = "open" => attempt[a].state = "asking" /\ attempt[a].conn = c

OneDial ==
  \A c, d \in Conns : \A a \in Attempts :
    c \in Dialing(a) /\ d \in Dialing(a) => c = d

AnswerOK(x) ==
  /\ x.ip # NoIP =>
       /\ x.ip = x.body.address /\ x.body.length <= Limit
       /\ ~ FamilyMismatch(x.ip, x.family)
  /\ x.body.length <= Limit /\ x.body.address # NoIP
     /\ ~ FamilyMismatch(x.body.address, x.family)
     => x.ip = x.body.address

Answers == \A a \in Attempts : AnswerOK(attempt[a])

Sharing == OneDial /\ (\A a \in Attempts : AttemptOK(a)) /\ (\A c \in Conns : ConnOK(c))

HInv == IInv /\ Wired /\ Types /\ Answers /\ Sharing

-----------------------------------------------------------------------------
(* Facts about the operators.                                              *)

LEMMA TransportFacts ==
  /\ Families \subseteq Transports /\ "theirs" \in Transports
  /\ "theirs" \notin Families /\ "tripper" \notin Transports
  /\ Families = {"4", "6"}
BY DEF Transports, Families

LEMMA ClosedType == Closed \in ConnType /\ Closed.state = "closed" /\ Closed.users = {}
BY TransportFacts DEF Closed, ConnType, Users

LEMMA IdleType ==
  Idle \in AttemptType /\ Idle.state = "idle" /\ Idle.conn = "none" /\ Idle.ip = NoIP
BY TransportFacts DEF Idle, AttemptType, NoIP

LEMMA NamesDiffer == "none" \notin Attempts \cup Conns /\ "others" \notin Attempts
BY HTTPAssumption

\* The families a connection may have come with the transport it is of.
LEMMA WiredFacts ==
  ASSUME Wired
  PROVE  /\ transport["theirs"] = Families /\ clients["theirs"] = "theirs"
         /\ \A t \in Transports : transport[t] \subseteq Families
         /\ \A u \in Transports : clients[u] \in Transports \cup {"tripper"}
         /\ phase = "built" => \A f \in Families : clients[f] \in {f, "tripper"}
<1>1. CASE phase # "built"
  <2>1. /\ transport = [t \in Transports |-> IF t = "theirs" THEN Families ELSE {}]
        /\ clients = [u \in Transports |-> "theirs"]
    BY <1>1 DEF Wired
  <2> QED BY <1>1, <2>1, TransportFacts
<1>2. CASE phase = "built"
  <2>1. transport = Dialers /\ clients = ClientForFamily
    BY <1>2 DEF Wired
  <2>2. /\ transport["theirs"] = Families
        /\ \A t \in Transports : transport[t] \subseteq Families
    BY <2>1, TransportFacts DEF Dialers, Transports
  <2>3. /\ clients["theirs"] = "theirs"
        /\ \A u \in Transports : clients[u] \in {u, "tripper"}
    BY <2>1, TransportFacts DEF ClientForFamily
  <2> QED BY <2>2, <2>3, TransportFacts
<1> QED BY <1>1, <1>2

\* The one who lets go is gone from the connection, and nobody else is unless it
\* is closed, which happens to one that was his alone.
LEMMA ReleaseFacts ==
  ASSUME Types, NEW c \in Conns, NEW u, NEW ends,
         Release(c, u, ends), ConnOK(c), u \in conn[c].users
  PROVE  /\ conn' \in [Conns -> ConnType]
         /\ \A d \in Conns \ {c} : conn'[d] = conn[d]
         /\ \/ conn'[c] = [conn[c] EXCEPT !.users = @ \ {u}]
            \/ conn'[c] = Closed /\ conn[c].users = {u}
<1>1. conn[c] \in ConnType
  BY DEF Types
<1>2. CASE conn' = [conn EXCEPT ![c].users = @ \ {u}]
  <2>1. [conn[c] EXCEPT !.users = @ \ {u}] \in ConnType
    BY <1>1 DEF ConnType
  <2> QED BY <1>2, <2>1 DEF Types
<1>3. CASE ~ conn[c].http2 /\ conn' = [conn EXCEPT ![c] = Closed]
  <2>1. conn[c].users = {u}
    BY <1>3 DEF ConnOK
  <2> QED BY <1>3, <2>1, ClosedType DEF Types
<1> QED BY <1>2, <1>3 DEF Release

LEMMA SameClient ==
  ASSUME UNCHANGED client
  PROVE  /\ phase' = phase /\ config' = config
         /\ transport' = transport /\ clients' = clients
         /\ UNCHANGED vars
BY DEF client, vars

\* Whoever uses a connection no longer, and has done what he wanted it for or
\* looks for another, leaves the others what they have.
LEMMA LettingGo ==
  ASSUME Types, Types', Sharing, UNCHANGED client, NEW u,
         \A c \in Conns :
           \/ conn'[c] = conn[c] /\ u \notin conn[c].users \cap Attempts
           \/ conn'[c] = [conn[c] EXCEPT !.users = @ \ {u}]
           \/ conn'[c] = Closed /\ conn[c].users \subseteq {u},
         \A b \in Attempts :
           IF b # u THEN attempt'[b] = attempt[b]
           ELSE /\ attempt'[b].state \in {"idle", "wanting", "done"}
                /\ attempt'[b].conn = "none"
                /\ attempt'[b].state = "wanting" =>
                     /\ attempt[b].state = "asking" /\ attempt[b].via # "tripper"
                     /\ attempt'[b].via = attempt[b].via
                     /\ attempt'[b].family = attempt[b].family
  PROVE  Sharing'
<1>1. \A c \in Conns :
        /\ conn'[c].users \subseteq conn[c].users
        /\ u \in Attempts => u \notin conn'[c].users
        /\ \/ /\ conn'[c].state = conn[c].state /\ conn'[c].at = conn[c].at
              /\ conn'[c].family = conn[c].family /\ conn'[c].http2 = conn[c].http2
              /\ conn[c].users \subseteq conn'[c].users \cup {u}
           \/ /\ conn'[c].state = "closed" /\ conn'[c].users = {}
              /\ conn[c].users \subseteq {u}
  BY ClosedType DEF Types, ConnType
<1>2. ASSUME NEW b \in Attempts PROVE AttemptOK(b)'
  <2>1. AttemptOK(b)
    BY DEF Sharing
  <2>2. CASE b = u
    BY <2>1, <2>2, SameClient DEF AttemptOK
  <2>3. CASE b # u
    BY <2>1, <2>3, <1>1, SameClient DEF AttemptOK
  <2> QED BY <2>2, <2>3
<1>3. ASSUME NEW c \in Conns PROVE ConnOK(c)'
  <2>1. ConnOK(c)
    BY DEF Sharing
  <2> QED BY <2>1, <1>1, SameClient DEF ConnOK
<1>4. OneDial'
  BY <1>1 DEF Sharing, OneDial, Dialing
<1> QED BY <1>2, <1>3, <1>4 DEF Sharing

-----------------------------------------------------------------------------
(* The attempts.                                                           *)

Net == Types /\ Answers /\ Sharing

\* Who does not ask, or look for a connection, has none.
LEMMA Free ==
  ASSUME HInv, NEW a \in Attempts, attempt[a].state \notin {"wanting", "asking"},
         NEW c \in Conns
  PROVE  a \notin conn[c].users
BY DEF HInv, Types, Sharing, ConnOK, ConnType

LEMMA StepBegin ==
  ASSUME HInv, NEW a \in Attempts, NEW f \in Families, Begin(a, f)
  PROVE  Net'
<1> DEFINE r == [Idle EXCEPT !.via = clients[f], !.family = f,
                   !.state = IF clients[f] = "tripper" THEN "asking" ELSE "wanting"]
<1>0. UNCHANGED client
  BY DEF Begin
<1>1. attempt' = [attempt EXCEPT ![a] = r] /\ conn' = conn /\ phase = "built"
  BY DEF Begin
<1>2. clients[f] \in Transports \cup {"tripper"}
  BY WiredFacts, TransportFacts DEF HInv
<1>3. /\ r \in AttemptType /\ r.via = clients[f] /\ r.family = f /\ r.conn = "none"
      /\ r.state = IF clients[f] = "tripper" THEN "asking" ELSE "wanting"
      /\ r.ip = NoIP /\ r.body.address = NoIP
  BY <1>2, TransportFacts DEF Idle, AttemptType, NoIP
<1> HIDE DEF r
<1>4. Types'
  BY <1>1, <1>3 DEF HInv, Types
<1>5. Answers'
  BY <1>1, <1>3 DEF HInv, Types, Answers, AnswerOK
<1>6. ASSUME NEW b \in Attempts PROVE AttemptOK(b)'
  <2>1. AttemptOK(b)
    BY DEF HInv, Sharing
  <2>2. CASE b = a
    BY <2>2, <1>0, <1>1, <1>3, SameClient DEF HInv, Types, AttemptOK
  <2>3. CASE b # a
    BY <2>1, <2>3, <1>0, <1>1, SameClient DEF HInv, Types, AttemptOK
  <2> QED BY <2>2, <2>3
<1>7. \A c \in Conns : ConnOK(c)'
  BY <1>0, <1>1, Free, SameClient DEF HInv, Types, Sharing, ConnOK, Begin
<1>8. OneDial'
  BY <1>1 DEF HInv, Sharing, OneDial, Dialing
<1> QED BY <1>4, <1>5, <1>6, <1>7, <1>8 DEF Net, Sharing

LEMMA StepTakeIdle ==
  ASSUME HInv, NEW a \in Attempts, TakeIdle(a)
  PROVE  Net'
<1>1. PICK c \in Pool(attempt[a].via) :
        /\ conn' = [Orphaned(a) EXCEPT ![c].users = @ \cup {a}]
        /\ attempt' = [attempt EXCEPT ![a].state = "asking", ![a].conn = c]
  BY DEF TakeIdle
<1>2. /\ c \in Conns /\ conn[c].state = "open" /\ conn[c].at = attempt[a].via
      /\ conn[c].users = {} \/ conn[c].http2
      /\ attempt[a].state = "wanting" /\ "others" # a
  BY <1>1, NamesDiffer DEF TakeIdle, Pool
<1>3. /\ conn' \in [Conns -> ConnType]
      /\ conn'[c] = [conn[c] EXCEPT !.users = @ \cup {a}]
      /\ \A d \in Conns \ {c} :
           conn'[d] = IF conn[d].state = "dialing"
                      THEN [conn[d] EXCEPT !.users = @ \ {a}] ELSE conn[d]
  <2>1. \A d \in Conns : Orphaned(a)[d] \in ConnType
    BY DEF HInv, Types, Orphaned, ConnType
  <2>2. [Orphaned(a)[c] EXCEPT !.users = @ \cup {a}] \in ConnType
    BY <1>2, <2>1 DEF ConnType, Users
  <2> QED BY <1>1, <1>2, <2>1, <2>2 DEF Orphaned
<1>4. /\ attempt' \in [Attempts -> AttemptType]
      /\ attempt'[a].state = "asking" /\ attempt'[a].conn = c
      /\ attempt'[a].via = attempt[a].via /\ attempt'[a].family = attempt[a].family
      /\ attempt'[a].body = attempt[a].body /\ attempt'[a].ip = attempt[a].ip
      /\ \A b \in Attempts : b # a => attempt'[b] = attempt[b]
  <2>1. attempt[a] \in AttemptType
    BY DEF HInv, Types
  <2> QED BY <1>1, <1>2, <2>1 DEF HInv, Types, AttemptType
<1>5. UNCHANGED client
  BY DEF TakeIdle
<1>6. ASSUME NEW d \in Conns
      PROVE  /\ conn'[d].state = conn[d].state /\ conn'[d].at = conn[d].at
             /\ conn'[d].family = conn[d].family /\ conn'[d].http2 = conn[d].http2
             /\ d = c => conn'[d].users = conn[d].users \cup {a}
             /\ d # c => conn'[d].users = conn[d].users \ {a}
  <2>1. conn[d] \in ConnType /\ ConnOK(d)
    BY DEF HInv, Types, Sharing
  <2>2. conn[d].state # "dialing" => a \notin conn[d].users
    BY <2>1, <1>2 DEF ConnType, ConnOK
  <2> QED BY <1>2, <1>3, <2>1, <2>2 DEF ConnType
<1>7. ASSUME NEW b \in Attempts PROVE AttemptOK(b)'
  <2>1. AttemptOK(b)
    BY DEF HInv, Sharing
  <2>2. CASE b = a
    BY <2>1, <2>2, <1>2, <1>4, <1>5, <1>6, SameClient DEF AttemptOK, HInv, Types, AttemptType
  <2>3. CASE b # a
    BY <2>1, <2>3, <1>4, <1>5, <1>6, SameClient DEF AttemptOK
  <2> QED BY <2>2, <2>3
<1>8. ASSUME NEW d \in Conns PROVE ConnOK(d)'
  <2>1. ConnOK(d)
    BY DEF HInv, Sharing
  <2>2. CASE d = c
    BY <2>1, <2>2, <1>2, <1>4, <1>5, <1>6, SameClient DEF ConnOK, HInv, Types, AttemptType
  <2>3. CASE d # c
    BY <2>1, <2>3, <1>4, <1>5, <1>6, SameClient DEF ConnOK
  <2> QED BY <2>2, <2>3
<1>9. OneDial'
  BY <1>2, <1>6 DEF HInv, Sharing, OneDial, Dialing
<1>10. Answers'
  BY <1>4 DEF HInv, Types, AttemptType, Answers, AnswerOK
<1> QED BY <1>3, <1>4, <1>7, <1>8, <1>9, <1>10 DEF Net, Types, Sharing

\* A connection that is dialed, by an attempt or by the rest of the program.
LEMMA NewDial ==
  ASSUME HInv, UNCHANGED <<client, attempt>>, NEW u \in Users, NEW t \in Transports,
         NEW c \in Conns, conn[c].state = "closed",
         conn' = [conn EXCEPT ![c] = Dialed(t, u)], clients[t] = t,
         u = "others" => t = "theirs",
         u \in Attempts => attempt[u].state = "wanting" /\ attempt[u].via = t
                           /\ Dialing(u) = {}
  PROVE  Net'
<1>1. /\ Dialed(t, u) \in ConnType /\ Dialed(t, u).state = "dialing"
      /\ Dialed(t, u).at = t /\ Dialed(t, u).users = {u}
  BY ClosedType DEF Dialed, Closed, ConnType
<1>2. /\ conn' \in [Conns -> ConnType] /\ conn'[c] = Dialed(t, u)
      /\ \A d \in Conns : d # c => conn'[d] = conn[d]
  BY <1>1 DEF HInv, Types
<1>3. UNCHANGED client /\ attempt' = attempt /\ ConnOK(c)
  BY DEF HInv, Sharing
<1>4. conn[c].users = {}
  BY <1>3 DEF ConnOK
<1>5. ASSUME NEW b \in Attempts PROVE AttemptOK(b)'
  <2>1. AttemptOK(b)
    BY DEF HInv, Sharing
  <2> QED BY <2>1, <1>2, <1>3, <1>4, SameClient DEF AttemptOK
<1>6. ASSUME NEW d \in Conns PROVE ConnOK(d)'
  <2>1. CASE d = c
    BY <2>1, <1>1, <1>2, <1>3, SameClient DEF ConnOK
  <2>2. CASE d # c
    BY <2>2, <1>2, <1>3, SameClient DEF ConnOK, HInv, Sharing
  <2> QED BY <2>1, <2>2
<1>7. OneDial'
  BY <1>1, <1>2, NamesDiffer DEF HInv, Sharing, OneDial, Dialing
<1> QED BY <1>2, <1>3, <1>5, <1>6, <1>7 DEF HInv, Net, Types, Answers, Sharing

LEMMA StepDial == ASSUME HInv, NEW a \in Attempts, Dial(a) PROVE Net'
<1>1. PICK c \in Conns :
        conn[c].state = "closed" /\ conn' = [conn EXCEPT ![c] = Dialed(attempt[a].via, a)]
  BY DEF Dial
<1>2. attempt[a].state = "wanting" /\ Dialing(a) = {} /\ UNCHANGED <<client, attempt>>
  BY DEF Dial
<1>3. /\ phase = "built" /\ attempt[a].via = clients[attempt[a].family]
      /\ attempt[a].via # "tripper" /\ attempt[a].family \in Families
  BY <1>2 DEF HInv, Types, AttemptType, Sharing, AttemptOK
<1>4. /\ attempt[a].via \in Transports
      /\ clients[attempt[a].via] = attempt[a].via
  BY <1>3, WiredFacts, TransportFacts DEF HInv
<1>5. a \in Users /\ a # "others"
  BY NamesDiffer DEF Users
<1> QED BY <1>1, <1>2, <1>4, <1>5, NewDial

LEMMA StepConnected == ASSUME HInv, NEW c \in Conns, Connected(c) PROVE Net'
<1>1. PICK f \in transport[conn[c].at], h2 \in BOOLEAN :
        conn' = [conn EXCEPT ![c] = [@ EXCEPT !.state = "open", !.family = f, !.http2 = h2]]
  BY DEF Connected
<1>2. UNCHANGED client /\ conn[c].state = "dialing"
  BY DEF Connected
<1>3. conn[c] \in ConnType /\ ConnOK(c) /\ f \in Families
  <2>1. conn[c] \in ConnType /\ ConnOK(c)
    BY DEF HInv, Types, Sharing
  <2> QED BY <2>1, WiredFacts DEF ConnType, HInv
<1>4. /\ conn' \in [Conns -> ConnType]
      /\ conn'[c].state = "open" /\ conn'[c].at = conn[c].at /\ conn'[c].family = f
      /\ conn'[c].users = conn[c].users
      /\ \A d \in Conns : d # c => conn'[d] = conn[d]
  <2>1. /\ [conn[c] EXCEPT !.state = "open", !.family = f, !.http2 = h2] \in ConnType
    BY <1>3 DEF ConnType
  <2> QED BY <1>1, <1>3, <2>1 DEF HInv, Types, ConnType
<1>5. /\ attempt' \in [Attempts -> AttemptType]
      /\ \A b \in Attempts :
           /\ attempt'[b].via = attempt[b].via /\ attempt'[b].family = attempt[b].family
           /\ attempt'[b].body = attempt[b].body /\ attempt'[b].ip = attempt[b].ip
           /\ b \in conn[c].users => attempt'[b].state = "asking" /\ attempt'[b].conn = c
           /\ b \notin conn[c].users => attempt'[b] = attempt[b]
  <2>1. attempt' = [a \in Attempts |->
          IF a \in conn[c].users THEN [attempt[a] EXCEPT !.state = "asking", !.conn = c]
          ELSE attempt[a]]
    BY DEF Connected
  <2>2. \A b \in Attempts : attempt[b] \in AttemptType
    BY DEF HInv, Types
  <2>3. \A b \in Attempts :
          LET r == [attempt[b] EXCEPT !.state = "asking", !.conn = c] IN
          /\ r \in AttemptType /\ r.state = "asking" /\ r.conn = c
          /\ r.via = attempt[b].via /\ r.family = attempt[b].family
          /\ r.body = attempt[b].body /\ r.ip = attempt[b].ip
    BY <2>2 DEF AttemptType
  <2> QED BY <2>1, <2>2, <2>3
<1>6. ASSUME NEW b \in Attempts PROVE AttemptOK(b)'
  <2>1. AttemptOK(b)
    BY DEF HInv, Sharing
  <2>2. CASE b \in conn[c].users
    <3>1. attempt[b].state = "wanting"
      BY <2>2, <1>2, <1>3 DEF ConnOK
    <3> QED BY <2>1, <2>2, <3>1, <1>2, <1>4, <1>5, SameClient DEF AttemptOK
  <2>3. CASE b \notin conn[c].users
    BY <2>1, <2>3, <1>2, <1>4, <1>5, SameClient DEF AttemptOK
  <2> QED BY <2>2, <2>3
<1>7. ASSUME NEW d \in Conns PROVE ConnOK(d)'
  <2>1. CASE d = c
    BY <2>1, <1>1, <1>2, <1>3, <1>4, <1>5, SameClient DEF ConnOK
  <2>2. CASE d # c
    <3>1. ConnOK(d) /\ conn'[d] = conn[d]
      BY <2>2, <1>4 DEF HInv, Sharing
    <3>2. \A b \in conn[d].users \cap Attempts : b \notin conn[c].users
      <4>1. ASSUME NEW b \in Attempts, b \in conn[d].users, b \in conn[c].users
            PROVE  FALSE
        <5>1. attempt[b].state = "wanting"
          BY <4>1, <1>2, <1>3 DEF ConnOK
        <5>2. conn[d].state = "dialing"
          BY <4>1, <5>1, <3>1 DEF ConnOK, HInv, Types, ConnType
        <5> QED BY <4>1, <5>2, <2>2, <1>2 DEF HInv, Sharing, OneDial, Dialing
      <4> QED BY <4>1
    <3> QED BY <3>1, <3>2, <1>2, <1>5, SameClient DEF ConnOK
  <2> QED BY <2>1, <2>2
<1>8. OneDial'
  BY <1>4 DEF HInv, Sharing, OneDial, Dialing
<1>9. Answers'
  BY <1>5 DEF HInv, Answers, AnswerOK
<1> QED BY <1>4, <1>5, <1>6, <1>7, <1>8, <1>9 DEF Net, Types, Sharing

LEMMA StepConnectionEnds == ASSUME HInv, NEW c \in Conns, ConnectionEnds(c) PROVE Net'
<1>1. /\ conn' = [conn EXCEPT ![c] = Closed] /\ UNCHANGED client
      /\ conn[c].state = "dialing" \/ conn[c].users = {}
  BY DEF ConnectionEnds
<1>2. /\ conn' \in [Conns -> ConnType] /\ conn'[c] = Closed
      /\ \A d \in Conns : d # c => conn'[d] = conn[d]
  BY <1>1, ClosedType DEF HInv, Types
<1>3. /\ attempt' \in [Attempts -> AttemptType]
      /\ \A b \in Attempts :
           /\ b \notin conn[c].users => attempt'[b] = attempt[b]
           /\ b \in conn[c].users =>
                attempt'[b].state = "done" /\ attempt'[b].conn = attempt[b].conn
           /\ attempt'[b].ip = attempt[b].ip /\ attempt'[b].body = attempt[b].body
           /\ attempt'[b].family = attempt[b].family
  <2>1. attempt' = [a \in Attempts |->
          IF a \in conn[c].users THEN [attempt[a] EXCEPT !.state = "done"] ELSE attempt[a]]
    BY DEF ConnectionEnds
  <2>2. \A b \in Attempts : attempt[b] \in AttemptType
    BY DEF HInv, Types
  <2>3. \A b \in Attempts :
          LET r == [attempt[b] EXCEPT !.state = "done"] IN
          /\ r \in AttemptType /\ r.state = "done" /\ r.conn = attempt[b].conn
          /\ r.ip = attempt[b].ip /\ r.body = attempt[b].body
          /\ r.family = attempt[b].family
    BY <2>2 DEF AttemptType
  <2> QED BY <2>1, <2>2, <2>3
<1>4. conn[c] \in ConnType /\ ConnOK(c)
  BY DEF HInv, Types, Sharing
<1>5. \A d \in Conns, b \in Attempts :
        d # c /\ b \in conn[c].users => b \notin conn[d].users
  <2> SUFFICES ASSUME NEW d \in Conns, NEW b \in Attempts,
                      d # c, b \in conn[c].users, b \in conn[d].users
               PROVE  FALSE
    OBVIOUS
  <2>1. attempt[b].state = "wanting" /\ conn[c].state = "dialing"
    BY <1>1, <1>4 DEF ConnOK
  <2>2. conn[d] \in ConnType /\ ConnOK(d)
    BY DEF HInv, Types, Sharing
  <2>3. conn[d].state = "dialing"
    BY <2>1, <2>2 DEF ConnType, ConnOK
  <2> QED BY <2>1, <2>3 DEF HInv, Sharing, OneDial, Dialing
<1>6. Types' /\ Answers'
  BY <1>2, <1>3 DEF HInv, Types, Answers, AnswerOK
<1>7. CASE conn[c].users = {}
  <2> DEFINE u == "none"
  <2>1. \A b \in Attempts : b # u /\ attempt'[b] = attempt[b]
    BY <1>3, <1>7, NamesDiffer
  <2> HIDE DEF u
  <2>2. Sharing'
    BY <1>1, <1>2, <1>6, <1>7, <2>1, LettingGo DEF HInv
  <2> QED BY <1>6, <2>2 DEF Net
\* By the one it was dialed for.
<1>8. CASE conn[c].users # {}
  <2>1. PICK u : conn[c].users = {u}
    <3>1. PICK u \in conn[c].users : TRUE
      BY <1>8
    <3>2. \A v \in conn[c].users : v = u
      BY <1>1, <1>4, <1>8, <3>1 DEF ConnOK
    <3> QED BY <3>1, <3>2
  <2>2. \A d \in Conns :
          \/ conn'[d] = conn[d] /\ u \notin conn[d].users \cap Attempts
          \/ conn'[d] = Closed /\ conn[d].users \subseteq {u}
    BY <1>2, <1>5, <2>1
  <2>3. ASSUME NEW b \in Attempts
        PROVE  IF b # u THEN attempt'[b] = attempt[b]
               ELSE attempt'[b].state = "done" /\ attempt'[b].conn = "none"
    <3>1. b = u => attempt[b].state = "wanting"
      BY <1>1, <1>4, <1>8, <2>1 DEF ConnOK
    <3>2. AttemptOK(b)
      BY DEF HInv, Sharing
    <3> QED BY <3>1, <3>2, <1>3, <2>1 DEF AttemptOK
  <2>4. Sharing'
    BY <1>1, <1>6, <2>2, <2>3, LettingGo DEF HInv
  <2> QED BY <1>6, <2>4 DEF Net
<1> QED BY <1>7, <1>8

GivesBack(a) ==
  \/ attempt[a].conn # "none" /\ \E ends : Release(attempt[a].conn, a, ends)
  \/ attempt[a].conn = "none" /\ conn' = Orphaned(a)
  \/ attempt[a].conn = "none" /\ conn' = conn /\ attempt[a].state = "asking"

\* An attempt that leaves its connection, if it has one, for good or for another.
LEMMA Leaves ==
  ASSUME HInv, UNCHANGED client, NEW a \in Attempts, NEW r \in AttemptType,
         attempt[a].state \in {"wanting", "asking"}, GivesBack(a),
         attempt' = [attempt EXCEPT ![a] = r],
         r.conn = "none", r.state \in {"wanting", "done"}, AnswerOK(r),
         r.state = "wanting" =>
           /\ attempt[a].state = "asking" /\ attempt[a].via # "tripper"
           /\ r.via = attempt[a].via /\ r.family = attempt[a].family
  PROVE  Net'
<1>1. AttemptOK(a) /\ attempt[a] \in AttemptType
  BY DEF HInv, Sharing, Types
<1>2. \A c \in Conns : conn[c] \in ConnType /\ ConnOK(c)
  BY DEF HInv, Sharing, Types
<1>3. /\ conn' \in [Conns -> ConnType]
      /\ \A c \in Conns :
           \/ conn'[c] = conn[c] /\ a \notin conn[c].users \cap Attempts
           \/ conn'[c] = [conn[c] EXCEPT !.users = @ \ {a}]
           \/ conn'[c] = Closed /\ conn[c].users \subseteq {a}
  <2>1. CASE attempt[a].conn # "none"
    <3>1. attempt[a].state = "asking" /\ attempt[a].conn \in Conns
          /\ a \in conn[attempt[a].conn].users
      BY <1>1, <2>1 DEF AttemptOK
    <3>2. PICK ends : Release(attempt[a].conn, a, ends)
      BY <2>1 DEF GivesBack
    <3>3. /\ conn' \in [Conns -> ConnType]
          /\ \A d \in Conns : d # attempt[a].conn => conn'[d] = conn[d]
          /\ \/ conn'[attempt[a].conn] = [conn[attempt[a].conn] EXCEPT !.users = @ \ {a}]
             \/ /\ conn'[attempt[a].conn] = Closed
                /\ conn[attempt[a].conn].users = {a}
      BY <3>1, <3>2, <1>2, ReleaseFacts DEF HInv
    <3>4. \A d \in Conns : d # attempt[a].conn => a \notin conn[d].users
      BY <3>1, <1>2 DEF ConnOK, ConnType
    <3> QED BY <3>3, <3>4
  <2>2. CASE attempt[a].conn = "none" /\ conn' = Orphaned(a)
    <3>1. \A c \in Conns : [conn[c] EXCEPT !.users = @ \ {a}] \in ConnType
      BY <1>2 DEF ConnType
    <3>2. \A c \in Conns : conn[c].state # "dialing" => a \notin conn[c].users
      BY <2>2, <1>2, NamesDiffer DEF ConnOK, ConnType
    <3> QED BY <2>2, <3>1, <3>2, <1>2 DEF Orphaned
  <2>3. CASE attempt[a].conn = "none" /\ conn' = conn /\ attempt[a].state = "asking"
    <3>1. \A c \in Conns : a \notin conn[c].users
      BY <2>3, <1>2, NamesDiffer DEF ConnOK, ConnType
    <3> QED BY <2>3, <3>1 DEF HInv, Types
  <2> QED BY <2>1, <2>2, <2>3 DEF GivesBack
<1>4. /\ attempt' \in [Attempts -> AttemptType] /\ attempt'[a] = r
      /\ \A b \in Attempts : b # a => attempt'[b] = attempt[b]
  BY DEF HInv, Types
<1>5. Types' /\ Answers'
  BY <1>3, <1>4 DEF HInv, Types, Answers, AnswerOK
<1>6. Sharing'
  BY <1>3, <1>4, <1>5, LettingGo DEF HInv
<1> QED BY <1>5, <1>6 DEF Net

LEMMA StepRedirect == ASSUME HInv, NEW a \in Attempts, Redirect(a) PROVE Net'
<1> DEFINE r == [attempt[a] EXCEPT !.state = "wanting", !.conn = "none"]
<1>1. /\ attempt[a].state = "asking" /\ attempt[a].via # "tripper"
      /\ Release(attempt[a].conn, a, {"keep", "drop"}) /\ UNCHANGED client
  BY DEF Redirect
<1>2. attempt[a] \in AttemptType /\ AttemptOK(a) /\ AnswerOK(attempt[a])
  BY DEF HInv, Types, Sharing, Answers
<1>3. /\ r \in AttemptType /\ r.state = "wanting" /\ r.conn = "none"
      /\ r.via = attempt[a].via /\ r.family = attempt[a].family
      /\ r.ip = attempt[a].ip /\ r.body = attempt[a].body
  BY <1>2 DEF AttemptType
<1>4. attempt' = [attempt EXCEPT ![a] = r]
  BY <1>2 DEF Redirect, AttemptType, HInv, Types
<1>5. attempt[a].conn # "none"
  BY <1>1, <1>2, NamesDiffer DEF AttemptOK
<1> HIDE DEF r
<1>6. AnswerOK(r)
  BY <1>2, <1>3 DEF AnswerOK
<1>7. GivesBack(a)
  BY <1>1, <1>5 DEF GivesBack
<1> QED BY <1>1, <1>3, <1>4, <1>6, <1>7, Leaves

\* What a body is read as is an address only if it was read whole.
LEMMA ReadFacts ==
  ASSUME NEW body \in Bodies, NEW ip \in Parsed(body), Read(body) <= Limit
  PROVE  ip = body.address /\ body.length <= Limit
BY HTTPAssumption DEF Read, Parsed

LEMMA ShortIsRead ==
  ASSUME NEW body \in Bodies, body.length <= Limit
  PROVE  Read(body) <= Limit /\ Parsed(body) = {body.address}
BY HTTPAssumption DEF Read, Parsed

LEMMA StepAnswered == ASSUME HInv, NEW a \in Attempts, Answered(a) PROVE Net'
<1>1. PICK body \in Bodies : \E ip \in Parsed(body) :
       /\ attempt' = [attempt EXCEPT ![a] =
            [@ EXCEPT !.state = "done", !.conn = "none", !.body = body,
                      !.ip = IF \/ Read(body) > Limit \/ ip = NoIP
                                \/ FamilyMismatch(ip, attempt[a].family)
                             THEN NoIP ELSE ip]]
       /\ IF attempt[a].conn = "none" THEN conn' = conn
          ELSE Release(attempt[a].conn, a, BodyClose(body))
  BY DEF Answered
<1>2. PICK ip \in Parsed(body) :
        attempt' = [attempt EXCEPT ![a] =
            [@ EXCEPT !.state = "done", !.conn = "none", !.body = body,
                      !.ip = IF \/ Read(body) > Limit \/ ip = NoIP
                                \/ FamilyMismatch(ip, attempt[a].family)
                             THEN NoIP ELSE ip]]
  BY <1>1
<1> DEFINE found == IF \/ Read(body) > Limit \/ ip = NoIP
                       \/ FamilyMismatch(ip, attempt[a].family)
                    THEN NoIP ELSE ip
           r == [attempt[a] EXCEPT !.state = "done", !.conn = "none", !.body = body,
                                   !.ip = found]
<1>3. attempt[a].state = "asking" /\ UNCHANGED client
  BY DEF Answered
<1>4. attempt[a] \in AttemptType
  BY DEF HInv, Types
<1>5. /\ body \in [length : Nat, address : IPs \cup {NoIP}]
      /\ ip \in IPs \cup {NoIP} /\ Read(body) \in Nat /\ Limit \in Nat
  BY HTTPAssumption DEF Parsed, Read
<1>6. found \in IPs \cup {NoIP}
  BY <1>5
<1> HIDE DEF found
<1>7. /\ r \in AttemptType /\ r.state = "done" /\ r.conn = "none"
      /\ r.family = attempt[a].family /\ r.body = body /\ r.ip = found
  BY <1>4, <1>5, <1>6 DEF AttemptType
<1>8. attempt' = [attempt EXCEPT ![a] = r]
  BY <1>2 DEF found
<1> HIDE DEF r
<1>9. AnswerOK(r)
  <2>1. found # NoIP => /\ Read(body) <= Limit /\ found = ip
                        /\ ~ FamilyMismatch(ip, attempt[a].family)
    BY <1>5 DEF found
  <2>2. found # NoIP => ip = body.address /\ body.length <= Limit
    BY <2>1, ReadFacts
  <2>3. body.length <= Limit => Read(body) <= Limit /\ ip = body.address
    BY ShortIsRead
  <2>4. ~ (Read(body) <= Limit /\ Read(body) > Limit)
    BY <1>5
  <2>5. body.length <= Limit /\ body.address # NoIP
        /\ ~ FamilyMismatch(body.address, attempt[a].family) => found = body.address
    BY <2>3, <2>4 DEF found
  <2> QED BY <1>7, <2>1, <2>2, <2>5 DEF AnswerOK
<1>10. GivesBack(a)
  BY <1>1, <1>3 DEF GivesBack
<1> QED BY <1>3, <1>7, <1>8, <1>9, <1>10, Leaves

LEMMA StepRequestFails == ASSUME HInv, NEW a \in Attempts, RequestFails(a) PROVE Net'
<1> DEFINE r == [attempt[a] EXCEPT !.state = "done", !.conn = "none"]
<1>1. /\ attempt[a].state \in {"wanting", "asking"} /\ UNCHANGED client
      /\ IF attempt[a].conn = "none" THEN conn' = Orphaned(a)
         ELSE Release(attempt[a].conn, a, {"drop"})
  BY DEF RequestFails
<1>2. attempt[a] \in AttemptType /\ AttemptOK(a) /\ AnswerOK(attempt[a])
  BY DEF HInv, Types, Sharing, Answers
<1>3. /\ r \in AttemptType /\ r.state = "done" /\ r.conn = "none"
      /\ r.family = attempt[a].family
      /\ r.ip = attempt[a].ip /\ r.body = attempt[a].body
  BY <1>2 DEF AttemptType
<1>4. attempt' = [attempt EXCEPT ![a] = r]
  BY <1>2 DEF RequestFails, AttemptType, HInv, Types
<1> HIDE DEF r
<1>5. AnswerOK(r)
  BY <1>2, <1>3 DEF AnswerOK
<1>6. GivesBack(a)
  BY <1>1 DEF GivesBack
<1> QED BY <1>1, <1>3, <1>4, <1>5, <1>6, Leaves

LEMMA StepCollected == ASSUME HInv, NEW a \in Attempts, Collected(a) PROVE Net'
<1>1. /\ attempt[a].state = "done" /\ attempt' = [attempt EXCEPT ![a] = Idle]
      /\ conn' = conn /\ UNCHANGED client
  BY DEF Collected
<1>2. /\ attempt' \in [Attempts -> AttemptType] /\ attempt'[a] = Idle
      /\ \A b \in Attempts : b # a => attempt'[b] = attempt[b]
  BY <1>1, IdleType DEF HInv, Types
<1>3. AnswerOK(Idle)
  BY DEF AnswerOK, Idle, NoIP
<1>4. Types' /\ Answers'
  BY <1>1, <1>2, <1>3 DEF HInv, Types, Answers
<1>5. \A c \in Conns : a \notin conn[c].users
  BY <1>1, Free
<1>6. Sharing'
  BY <1>1, <1>2, <1>4, <1>5, IdleType, LettingGo DEF HInv
<1> QED BY <1>4, <1>6 DEF Net

-----------------------------------------------------------------------------
(* The rest of the program, and the construction of the client.            *)

LEMMA StepOthersUse == ASSUME HInv, NEW c \in Conns, OthersUse(c) PROVE Net'
<1>1. /\ UNCHANGED client /\ attempt' = attempt /\ clients["theirs"] = "theirs"
      /\ conn[c] \in ConnType /\ ConnOK(c)
  BY WiredFacts DEF OthersUse, HInv, Types, Sharing
<1>2. CASE c \in Pool("theirs") /\ conn' = [conn EXCEPT ![c].users = @ \cup {"others"}]
  <2>1. /\ conn[c].state = "open" /\ conn[c].at = "theirs"
        /\ conn[c].users = {} \/ conn[c].http2
    BY <1>2 DEF Pool
  <2>2. /\ conn' \in [Conns -> ConnType]
        /\ conn'[c].users = conn[c].users \cup {"others"}
        /\ conn'[c].state = conn[c].state /\ conn'[c].at = conn[c].at
        /\ conn'[c].family = conn[c].family /\ conn'[c].http2 = conn[c].http2
        /\ \A d \in Conns : d # c => conn'[d] = conn[d]
    <3>1. /\ [conn[c] EXCEPT !.users = @ \cup {"others"}] \in ConnType
      BY <1>1 DEF ConnType, Users
    <3> QED BY <1>1, <1>2, <3>1 DEF HInv, Types, ConnType
  <2>3. ASSUME NEW b \in Attempts PROVE AttemptOK(b)'
    <3>1. AttemptOK(b)
      BY DEF HInv, Sharing
    <3> QED BY <3>1, <1>1, <2>2, SameClient DEF AttemptOK
  <2>4. ASSUME NEW d \in Conns PROVE ConnOK(d)'
    <3>1. ConnOK(d)
      BY DEF HInv, Sharing
    <3>2. CASE d = c
      BY <3>1, <3>2, <1>1, <2>1, <2>2, NamesDiffer, SameClient DEF ConnOK
    <3>3. CASE d # c
      BY <3>1, <3>3, <1>1, <2>2, SameClient DEF ConnOK
    <3> QED BY <3>2, <3>3
  <2>5. OneDial'
    BY <2>1, <2>2 DEF HInv, Sharing, OneDial, Dialing
  <2> QED BY <1>1, <2>2, <2>3, <2>4, <2>5 DEF HInv, Net, Types, Answers, Sharing
<1>3. CASE /\ conn[c].state = "closed"
           /\ conn' = [conn EXCEPT ![c] = Dialed("theirs", "others")]
  BY <1>1, <1>3, NamesDiffer, TransportFacts, NewDial DEF Users
<1>4. CASE /\ conn[c].state = "open" /\ "others" \in conn[c].users
           /\ Release(c, "others", {"keep", "drop"})
  <2>1. /\ conn' \in [Conns -> ConnType]
        /\ \A d \in Conns \ {c} : conn'[d] = conn[d]
        /\ \/ conn'[c] = [conn[c] EXCEPT !.users = @ \ {"others"}]
           \/ conn'[c] = Closed /\ conn[c].users = {"others"}
    BY <1>1, <1>4, ReleaseFacts DEF HInv
  <2>2. Types' /\ Answers'
    BY <1>1, <2>1 DEF HInv, Types, Answers
  <2>3. \A b \in Attempts : b # "others" /\ attempt'[b] = attempt[b]
    BY <1>1, NamesDiffer
  <2>4. \A d \in Conns :
          \/ conn'[d] = conn[d] /\ "others" \notin conn[d].users \cap Attempts
          \/ conn'[d] = [conn[d] EXCEPT !.users = @ \ {"others"}]
          \/ conn'[d] = Closed /\ conn[d].users \subseteq {"others"}
    BY <2>1, NamesDiffer
  <2>5. Sharing'
    BY <1>1, <2>2, <2>3, <2>4, LettingGo DEF HInv
  <2> QED BY <2>2, <2>5 DEF Net
<1> QED BY <1>1, <1>2, <1>3, <1>4 DEF OthersUse

\* No attempt is made before the client is built, and whoever has the caller's
\* transport keeps it.
LEMMA StepConstruction ==
  ASSUME HInv, UNCHANGED requests, UNCHANGED clients \/ clients' = ClientForFamily,
         UNCHANGED transport \/ transport' = Dialers,
         phase = "built" => UNCHANGED <<phase, transport, clients>>
  PROVE  Net'
<1>1. conn' = conn /\ attempt' = attempt
  BY DEF requests
<1>2. CASE phase = "built"
  <2>1. phase' = phase /\ transport' = transport /\ clients' = clients
    BY <1>2
  <2> QED BY <1>1, <2>1
      DEF HInv, Net, Types, Answers, Sharing, AttemptOK, ConnOK, OneDial, Dialing
<1>3. CASE phase # "built"
  <2>1. /\ transport = [t \in Transports |-> IF t = "theirs" THEN Families ELSE {}]
        /\ clients = [u \in Transports |-> "theirs"]
    BY <1>3 DEF HInv, Wired
  <2>2. /\ clients'["theirs"] = "theirs" /\ transport'["theirs"] = Families
    BY <2>1, TransportFacts DEF ClientForFamily, Dialers
  <2>3. ASSUME NEW b \in Attempts PROVE AttemptOK(b)'
    <3>1. AttemptOK(b) /\ attempt[b].state \notin {"wanting", "asking"}
      BY <1>3 DEF HInv, Sharing, AttemptOK
    <3> QED BY <1>1, <3>1 DEF AttemptOK
  <2>4. ASSUME NEW c \in Conns PROVE ConnOK(c)'
    <3>1. ConnOK(c) /\ conn[c] \in ConnType
      BY DEF HInv, Sharing, Types
    <3>2. conn[c].state # "closed" => conn[c].at = "theirs"
      BY <2>1, <3>1 DEF ConnOK, ConnType
    <3>3. conn[c].family \in Families
      BY <3>1 DEF ConnType
    <3> QED BY <1>1, <2>2, <3>1, <3>2, <3>3 DEF ConnOK
  <2> QED BY <1>1, <2>3, <2>4 DEF HInv, Net, Types, Answers, Sharing, OneDial, Dialing
<1> QED BY <1>2, <1>3

LEMMA InitHInv == HTTPInit => HInv
<1> SUFFICES ASSUME HTTPInit PROVE HInv
  OBVIOUS
<1>1. IInv
  BY InitIInv DEF HTTPInit
<1>2. /\ phase = "given" /\ conn = [c \in Conns |-> Closed]
      /\ attempt = [a \in Attempts |-> Idle]
      /\ transport = [t \in Transports |-> IF t = "theirs" THEN Families ELSE {}]
      /\ clients = [u \in Transports |-> "theirs"]
  BY DEF HTTPInit, Init
<1>3. Wired
  BY <1>2 DEF Wired
<1>4. Types
  BY <1>2, ClosedType, IdleType DEF Types
<1>5. AnswerOK(Idle)
  BY DEF AnswerOK, Idle, NoIP
<1>6. Answers
  BY <1>2, <1>5 DEF Answers
<1>7. Sharing
  BY <1>2, ClosedType, IdleType DEF Sharing, OneDial, Dialing, AttemptOK, ConnOK
<1> QED BY <1>1, <1>3, <1>4, <1>6, <1>7 DEF HInv

\* A step of the whole is one of the construction, or leaves it alone.
LEMMA StepIsConstruction == [HTTPNext]_httpVars => [Next]_vars
BY DEF HTTPNext, Network, Attempt, Begin, TakeIdle, Dial, Connected, ConnectionEnds,
       Redirect, Answered, RequestFails, Collected, OthersUse, NewHTTPDiscoverer,
       Next, client, httpVars

LEMMA StepHInv == HInv /\ [HTTPNext]_httpVars => HInv'
<1> SUFFICES ASSUME HInv, [HTTPNext]_httpVars PROVE HInv'
  OBVIOUS
<1>1. IInv'
  BY StepIsConstruction, StepIInv DEF HInv
<1>2. CASE (Options \/ Caller) /\ UNCHANGED <<transport, clients, requests>>
  <2>1. /\ phase = "built" => phase' = phase /\ config' = config
        /\ phase # "built" => phase' # "built"
    BY <1>2 DEF Options, Caller, CallNew, SetDuration, SetList, SetHTTPClient,
                Register, SkipNil, Applies, CallerWrites, ConfiguredMethods
  <2>2. Wired'
    BY <1>2, <2>1 DEF HInv, Wired, Dialers, ClientForFamily
  <2>3. Net'
    BY <1>2, <2>1, StepConstruction
  <2> QED BY <1>1, <2>2, <2>3 DEF HInv, Net
<1>3. CASE NewHTTPDiscoverer
  <2>1. /\ phase = "new" /\ phase' = "built" /\ config' = config
        /\ transport' = Dialers /\ clients' = ClientForFamily /\ UNCHANGED requests
    BY <1>3 DEF NewHTTPDiscoverer, Build
  <2>2. Wired'
    BY <2>1 DEF Wired, Dialers, ClientForFamily
  <2>3. Net'
    BY <2>1, StepConstruction
  <2> QED BY <1>1, <2>2, <2>3 DEF HInv, Net
<1>4. CASE UNCHANGED httpVars
  BY <1>4 DEF HInv, httpVars, vars, requests, IInv, ConfigOK, ArraysOK, Wired, Dialers,
     ClientForFamily, Types, Answers, Sharing, AttemptOK, ConnOK, OneDial, Dialing
<1>5. CASE Network \/ \E a \in Attempts : Attempt(a)
  <2>1. UNCHANGED client
    BY <1>5 DEF Network, Attempt, Begin, TakeIdle, Dial, Connected, ConnectionEnds,
                Redirect, Answered, RequestFails, Collected, OthersUse, client
  <2>2. Wired'
    BY <2>1, SameClient DEF HInv, Wired, Dialers, ClientForFamily
  <2>3. Net'
    BY <1>5, StepBegin, StepTakeIdle, StepDial, StepConnected, StepConnectionEnds,
       StepRedirect, StepAnswered, StepRequestFails, StepCollected, StepOthersUse
    DEF Network, Attempt
  <2> QED BY <1>1, <2>2, <2>3 DEF HInv, Net
<1> QED BY <1>2, <1>3, <1>4, <1>5 DEF HTTPNext

-----------------------------------------------------------------------------
(* Theorems.                                                               *)

\* What holds between any two steps of a client under construction, its
\* attempts, their connections and the rest of the program.
THEOREM HTTPInvariance == HTTPSpec => []HInv
<1>1. HTTPInit => HInv
  BY InitHInv
<1>2. HInv /\ [HTTPNext]_httpVars => HInv'
  BY StepHInv
<1> QED BY <1>1, <1>2, PTL DEF HTTPSpec

\* The client that makes HTTP attempts is one that Construction describes, so
\* that what is proved of New holds while its attempts are under way.
THEOREM HTTPIsConstruction == HTTPSpec => Spec
<1>1. HTTPInit => Init
  BY DEF HTTPInit
<1> QED BY <1>1, StepIsConstruction, PTL DEF HTTPSpec, Spec

\* The transports, connections and attempts are of their types (http.go).
THEOREM HTTPTypes == HTTPSpec => []TypeOK
<1>1. HInv => transport \in [Transports -> SUBSET Families]
              /\ clients \in [Transports -> Transports \cup {"tripper"}]
  <2> SUFFICES ASSUME HInv
               PROVE  transport \in [Transports -> SUBSET Families]
                      /\ clients \in [Transports -> Transports \cup {"tripper"}]
    OBVIOUS
  <2>1. transport = [t \in Transports |-> transport[t]]
        /\ clients = [u \in Transports |-> clients[u]]
    BY DEF HInv, Wired, Dialers, ClientForFamily
  <2>2. /\ \A t \in Transports : transport[t] \subseteq Families
        /\ \A u \in Transports : clients[u] \in Transports \cup {"tripper"}
    BY WiredFacts DEF HInv
  <2> QED BY <2>1, <2>2
<1>2. HInv /\ ConstructionOK => TypeOK
  BY <1>1 DEF HInv, Types, ConnType, AttemptType, Users, TypeOK
<1> QED BY <1>2, HTTPInvariance, HTTPIsConstruction, ClientsAreRunnable, PTL

\* Unless the caller's client dials for itself, an attempt asks over a connection
\* of its own family, however it came to it (clientForFamily, http.go).
THEOREM FamiliesAreForced == HTTPSpec => []FamilyForced
<1>1. HInv => FamilyForced
  <2> SUFFICES ASSUME HInv, config.httpClient \notin {"dialsTLS", "tripper"},
                      NEW a \in Attempts, attempt[a].state = "asking"
               PROVE  conn[attempt[a].conn].family = attempt[a].family
    BY DEF FamilyForced
  <2>1. /\ phase = "built" /\ attempt[a].via = clients[attempt[a].family]
        /\ attempt[a].family \in Families
    BY DEF HInv, Types, AttemptType, Sharing, AttemptOK
  <2>2. attempt[a].via = attempt[a].family /\ transport[attempt[a].via] = {attempt[a].family}
    BY <2>1, TransportFacts DEF HInv, Wired, Dialers, ClientForFamily
  <2>3. /\ attempt[a].conn \in Conns /\ a \in conn[attempt[a].conn].users
        /\ conn[attempt[a].conn].state = "open"
    BY <2>1, <2>2, TransportFacts DEF HInv, Sharing, AttemptOK
  <2>4. /\ conn[attempt[a].conn].family \in transport[conn[attempt[a].conn].at]
        /\ conn[attempt[a].conn].at = attempt[a].via
    BY <2>3 DEF HInv, Sharing, ConnOK
  <2> QED BY <2>2, <2>4
<1> QED BY <1>1, HTTPInvariance, PTL

\* The transport a client was derived from, its connections and whoever else uses
\* it see nothing of the attempts (newHTTPDiscoverer, http.go).
THEOREM OthersAreUntouched == HTTPSpec => []TheirsUntouched
<1>1. HInv => TheirsUntouched
  <2> SUFFICES ASSUME HInv PROVE TheirsUntouched
    OBVIOUS
  <2>1. transport["theirs"] = Families /\ clients["theirs"] = "theirs"
    BY WiredFacts DEF HInv
  <2>2. ASSUME NEW c \in Conns, NEW a \in Attempts, a \in conn[c].users
        PROVE  conn[c].at # "theirs"
    <3>1. ConnOK(c) /\ conn[c] \in ConnType /\ AttemptOK(a) /\ attempt[a] \in AttemptType
      BY DEF HInv, Sharing, Types
    <3>2. attempt[a].via = conn[c].at /\ attempt[a].state \in {"wanting", "asking"}
      BY <2>2, <3>1 DEF ConnOK, ConnType
    <3>3. phase = "built" /\ attempt[a].via = clients[attempt[a].family]
      BY <3>1, <3>2 DEF AttemptOK
    <3> QED BY <3>1, <3>2, <3>3, WiredFacts, TransportFacts DEF HInv, AttemptType
  <2>3. ASSUME NEW c \in Conns, conn[c].users # {}
        PROVE  "others" \in conn[c].users <=> conn[c].at = "theirs"
    <3>1. ConnOK(c) /\ conn[c].users \subseteq Attempts \cup {"others"}
      BY DEF HInv, Sharing, Types, ConnType, Users
    <3> QED BY <2>2, <2>3, <3>1 DEF ConnOK
  <2> QED BY <2>1, <2>3 DEF TheirsUntouched
<1> QED BY <1>1, HTTPInvariance, PTL

\* An address is reported only if it is all of an answer within the limit and of
\* the attempt's family, and such an answer is not lost (tryProtocol, http.go).
THEOREM AnswersAreWhole == HTTPSpec => []AnswerIsWholeBody
<1>1. HInv => AnswerIsWholeBody
  BY DEF HInv, Answers, AnswerOK, AnswerIsWholeBody
<1> QED BY <1>1, HTTPInvariance, PTL

\* No way out of an attempt leaves it a connection, and no connection is out of
\* the reach of every client (tryProtocol and clientForFamily, http.go).
THEOREM NothingIsLeftBehind == HTTPSpec => []NothingLeftBehind
<1>1. HInv => NothingLeftBehind
  BY DEF HInv, Sharing, Types, ConnType, ConnOK, NothingLeftBehind
<1> QED BY <1>1, HTTPInvariance, PTL

\* Attempts, redirects and the rest of the program change no configuration.
THEOREM AttemptsChangeNoClient == HTTPSpec => FixedAtConstruction
BY HTTPIsConstruction, NobodyChangesAClient, PTL
=============================================================================
