---------------------------- MODULE Construction ----------------------------
(***************************************************************************)
(* New of publicip.go and the options it applies.  Slices are references:  *)
(* an array belongs to the caller, who may write to what he holds between  *)
(* the calls, or to the client.  The fields that only tests and the log    *)
(* use are left out.                                                       *)
(***************************************************************************)
EXTENDS Client

CONSTANTS
  OptionLists,           \* the options New may be given
  CallerArrays,          \* what the arrays hold that the caller passes
  Items,                 \* the elements of slices
  Written,               \* what the caller may write to one
  DefaultAttemptTimeout  \* defaultAttemptTimeout

Durations == {"timeout", "attemptTimeout"}
Lists == {"methods", "stunServers", "dnsServers", "httpEndpoints"}

\* What WithHTTPClient is given: no client, one without a Transport, with an
\* http.Transport, with one that dials TLS itself, with another RoundTripper.
Bases == {"none", "client", "transport", "dialsTLS", "tripper"}

Arrays == DOMAIN CallerArrays \cup Lists \cup {"returned"}

ASSUME ConstructionAssumption ==
  /\ DOMAIN CallerArrays \cap (Lists \cup {"returned"}) = {}
  /\ \A a \in DOMAIN CallerArrays : CallerArrays[a] \in Seq(Items)
  /\ {"stun", "dns", "http", "default"} \cup Written \subseteq Items
  /\ DefaultAttemptTimeout \in Nat \ {0}
  /\ \A opts \in OptionLists : opts \in Seq({opts[j] : j \in DOMAIN opts})
  /\ \A opts \in OptionLists : \A i \in DOMAIN opts :
       LET o == opts[i] IN
       \/ o.set \in Durations /\ o.to \in Int
       \/ o.set \in Lists /\ o.to \in DOMAIN CallerArrays
       \/ o.set = "httpClient" /\ o.to \in Bases \cup {"nil"}
       \/ o.set = "custom" /\ o.name \in STRING /\ o.to \in STRING
       \/ o.set = "nil"

VARIABLES
  options,  \* the arguments of New
  phase,    \* "given", "new" while New runs, "built"
  i,        \* index of the next option
  config,
  array,    \* what each array holds
  held      \* the arrays the caller has a slice of

vars == <<options, phase, i, config, array, held>>

\* Which servers there are makes no difference here, that there are any does.
Defaults ==
  [f \in Lists |-> IF f = "methods" THEN <<"stun", "dns", "http">> ELSE <<"default">>]

\* defaultConfig; a list is the array of its own name until it is replaced.
DefaultConfig ==
  [timeout |-> 0, attemptTimeout |-> DefaultAttemptTimeout,
   methods |-> "methods", stunServers |-> "stunServers",
   dnsServers |-> "dnsServers", httpEndpoints |-> "httpEndpoints",
   httpClient |-> "none", custom |-> [m \in {} |-> "nil"]]

Init ==
  /\ options \in OptionLists
  /\ phase = "given"
  /\ i = 1
  /\ config = DefaultConfig
  /\ array = [a \in Arrays |->
                CASE a \in DOMAIN CallerArrays -> CallerArrays[a]
                  [] a \in Lists -> Defaults[a]
                  [] OTHER -> <<>>]
  /\ held = {options[j].to : j \in {l \in DOMAIN options : options[l].set \in Lists}}

-----------------------------------------------------------------------------
(* The options, in order.                                                  *)

CallNew ==
  /\ phase = "given"
  /\ phase' = "new"
  /\ UNCHANGED <<options, i, config, array, held>>

Option == options[i]

Applies(fields) == phase = "new" /\ i \in DOMAIN options /\ Option.set \in fields

\* MUTANT: zero and less are taken as they are.
SetDuration_Any ==
  /\ Applies(Durations)
  /\ config' = [config EXCEPT ![Option.set] = Option.to]
  /\ i' = i + 1
  /\ UNCHANGED <<options, phase, array, held>>

SetDuration ==
  /\ Applies(Durations)
  /\ config' = IF Option.to > 0 THEN [config EXCEPT ![Option.set] = Option.to]
               ELSE config
  /\ i' = i + 1
  /\ UNCHANGED <<options, phase, array, held>>

\* MUTANT: the client keeps the slice it was given.
SetList_Alias ==
  /\ Applies(Lists)
  /\ config' = IF Option.set = "methods" /\ array[Option.to] = <<>> THEN config
               ELSE [config EXCEPT ![Option.set] = Option.to]
  /\ i' = i + 1
  /\ UNCHANGED <<options, phase, array, held>>

\* A copy of what the slice holds now; an empty list of methods is no list.
SetList ==
  /\ Applies(Lists)
  /\ array' = IF Option.set = "methods" /\ array[Option.to] = <<>> THEN array
              ELSE [array EXCEPT ![Option.set] = array[Option.to]]
  /\ i' = i + 1
  /\ UNCHANGED <<options, phase, config, held>>

SetHTTPClient ==
  /\ Applies({"httpClient"})
  /\ config' = IF Option.to # "nil" THEN [config EXCEPT !.httpClient = Option.to]
               ELSE config
  /\ i' = i + 1
  /\ UNCHANGED <<options, phase, array, held>>

\* MUTANT: each option makes a map of its own.
Registered_Alone(custom, name, d) == [m \in {name} |-> d]

Registered(custom, name, d) ==
  [m \in DOMAIN custom \cup {name} |-> IF m = name THEN d ELSE custom[m]]

Register ==
  /\ Applies({"custom"})
  /\ config' = IF Option.name = "" \/ Option.to = "nil" THEN config
               ELSE [config EXCEPT !.custom = Registered(@, Option.name, Option.to)]
  /\ i' = i + 1
  /\ UNCHANGED <<options, phase, array, held>>

SkipNil ==
  /\ Applies({"nil"})
  /\ i' = i + 1
  /\ UNCHANGED <<options, phase, config, array, held>>

Build ==
  /\ phase = "new" /\ i \notin DOMAIN options
  /\ phase' = "built"
  /\ UNCHANGED <<options, i, config, array, held>>

-----------------------------------------------------------------------------
(* The caller.                                                             *)

CallerWrites ==
  /\ phase # "new"
  /\ \E a \in held : \E k \in DOMAIN array[a] : \E item \in Written :
       array' = [array EXCEPT ![a][k] = item]
  /\ UNCHANGED <<options, phase, i, config, held>>

\* MUTANT: the client's own slice is returned.
ConfiguredMethods_Own ==
  /\ phase = "built"
  /\ held' = held \cup {config.methods}
  /\ UNCHANGED <<options, phase, i, config, array>>

ConfiguredMethods ==
  /\ phase = "built"
  /\ array' = [array EXCEPT !["returned"] = array[config.methods]]
  /\ held' = held \cup {"returned"}
  /\ UNCHANGED <<options, phase, i, config>>

Options ==
  \/ CallNew \/ SetDuration \/ SetList \/ SetHTTPClient \/ Register \/ SkipNil

Caller == CallerWrites \/ ConfiguredMethods

Next == Options \/ Build \/ Caller

Spec == Init /\ [][Next]_vars

-----------------------------------------------------------------------------
(* The client, and properties.                                             *)

BuiltIns == [stun |-> "stunServers", dns |-> "dnsServers", http |-> "httpEndpoints"]

Kind(m) ==
  CASE m \in DOMAIN config.custom -> "custom" [] m = "stun" -> "stun" [] OTHER -> "query"

\* The map of discoverers New makes, custom ones last, and the configuration.
Value ==
  LET names == DOMAIN BuiltIns \cup DOMAIN config.custom IN
  [methods        |-> array[config.methods],
   kind           |-> [m \in names |-> Kind(m)],
   targets        |-> [m \in names |-> IF Kind(m) = "custom" THEN 0
                                       ELSE Len(array[config[BuiltIns[m]]])],
   timeout        |-> config.timeout,
   attemptTimeout |-> config.attemptTimeout]

\* Whatever the options say, a client is one that Discovery can run: nothing
\* disarms the default of an attempt.
ConstructionOK ==
  /\ phase \in {"given", "new", "built"}
  /\ i \in Nat \ {0}
  /\ config.httpClient \in Bases
  /\ \A f \in Lists : config[f] \in Arrays
  /\ array \in [Arrays -> Seq(Items)]
  /\ held \subseteq Arrays
  /\ IsClient(Value)

\* Option j says something.  An empty list of servers or endpoints does: there are
\* none (ZeroLeavesTheDefault is about what the documentation says of it).
Says(j) ==
  LET o == options[j] IN
  CASE o.set \in Durations -> o.to > 0
    [] o.set = "methods" -> array[o.to] # <<>>
    [] o.set = "httpClient" -> o.to # "nil"
    [] o.set = "custom" -> o.name # "" /\ o.to # "nil"
    [] OTHER -> TRUE

Meant(f) == {j \in DOMAIN options : j < i /\ options[j].set = f /\ Says(j)}

IsLast(j, set) == j \in set /\ \A l \in set : l <= j

View(f) == IF f \in Lists THEN array[config[f]] ELSE config[f]

Said(j) == IF options[j].set \in Lists THEN array[options[j].to] ELSE options[j].to

\* "Options are applied in order, so a later one wins", each for its own field
\* or name and only when it says something, in the sense of the code; otherwise
\* the default stays.
LaterWins ==
  phase = "new" =>
    /\ \A f \in Durations \cup Lists \cup {"httpClient"} :
         /\ \A j \in Meant(f) : IsLast(j, Meant(f)) => View(f) = Said(j)
         /\ Meant(f) = {} =>
              View(f) = IF f \in Lists THEN Defaults[f] ELSE DefaultConfig[f]
    /\ DOMAIN config.custom = {options[j].name : j \in Meant("custom")}
    /\ \A m \in DOMAIN config.custom :
         LET named == {j \in Meant("custom") : options[j].name = m} IN
         \A j \in named : IsLast(j, named) => config.custom[m] = options[j].to

\* Option j is the zero value of its kind.
SaysZero(j) ==
  LET o == options[j] IN
  CASE o.set \in Durations -> o.to = 0
    [] o.set \in Lists -> array[o.to] = <<>>
    [] o.set = "httpClient" -> o.to = "nil"

\* "The zero value of an option means leave the default alone" (src/README.md): a
\* field for which New was given nothing but zeros has its default.
ZeroLeavesTheDefault ==
  phase = "new" =>
    \A f \in Durations \cup Lists \cup {"httpClient"} :
      (\A j \in DOMAIN options : j < i /\ options[j].set = f => SaysZero(j)) =>
        View(f) = IF f \in Lists THEN Defaults[f] ELSE DefaultConfig[f]

\* "Its configuration is fixed at construction": no write to a slice that went
\* into an option, or came out of ConfiguredMethods, reaches the client.
FixedAtConstruction ==
  [][phase = "built" =>
       config' = config /\ \A f \in Lists : View(f)' = View(f)]_vars
=============================================================================
