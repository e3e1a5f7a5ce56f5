-------------------------- MODULE ConstructionProofs ------------------------
(***************************************************************************)
(* Theorems of Construction, for any options in any order and any writes   *)
(* of the caller: New makes a client that Discovery can run, and nobody    *)
(* changes it afterwards.                                                  *)
(***************************************************************************)
EXTENDS Construction, TLAPS

Fields == Durations \cup Lists \cup {"httpClient", "custom"}

\* The client refers to arrays of its own only.
ConfigOK ==
  /\ config = [f \in Fields |-> config[f]]
  /\ config.timeout \in Nat /\ config.attemptTimeout \in Nat \ {0}
  /\ \A f \in Lists : config[f] = f
  /\ config.httpClient \in Bases

\* The caller has a slice of none of them.
ArraysOK ==
  /\ array \in [Arrays -> Seq(Items)]
  /\ held \subseteq Arrays \ Lists

IInv ==
  /\ options \in OptionLists
  /\ phase \in {"given", "new", "built"}
  /\ i \in Nat \ {0}
  /\ ConfigOK /\ ArraysOK

LEMMA FieldNames ==
  /\ "timeout" \in Fields /\ "attemptTimeout" \in Fields /\ "custom" \in Fields
  /\ "httpClient" \in Fields /\ Lists \subseteq Fields /\ Durations \subseteq Fields
  /\ Durations \cap Lists = {} /\ "custom" \notin Durations \cup Lists
  /\ "httpClient" \notin Durations \cup Lists
BY DEF Fields, Durations, Lists

LEMMA OptionKinds ==
  ASSUME IInv, NEW fields, Applies(fields)
  PROVE  /\ Option.set \in fields
         /\ Option.set \in Durations => Option.to \in Int
         /\ Option.set \in Lists => Option.to \in DOMAIN CallerArrays
         /\ Option.set = "httpClient" => Option.to \in Bases \cup {"nil"}
BY ConstructionAssumption
DEF IInv, Applies, Option, Durations, Lists

LEMMA InitIInv == Init => IInv
<1> SUFFICES ASSUME Init PROVE IInv
  OBVIOUS
<1>1. options \in OptionLists /\ phase = "given" /\ i = 1
  BY DEF Init
<1>2. ConfigOK
  BY ConstructionAssumption
  DEF Init, ConfigOK, DefaultConfig, Fields, Durations, Lists, Bases
<1>3. array \in [Arrays -> Seq(Items)]
  <2>1. \A f \in Lists : Defaults[f] \in Seq(Items)
    BY ConstructionAssumption DEF Defaults
  <2>2. <<>> \in Seq(Items)
    OBVIOUS
  <2> QED
    BY <2>1, <2>2, ConstructionAssumption DEF Init, Arrays
<1>4. held \subseteq Arrays \ Lists
  BY ConstructionAssumption DEF Init, Arrays, Lists, Durations
<1> QED
  BY <1>1, <1>2, <1>3, <1>4 DEF IInv, ArraysOK

LEMMA StepIInv == IInv /\ [Next]_vars => IInv'
<1> SUFFICES ASSUME IInv, [Next]_vars PROVE IInv'
  OBVIOUS
<1>1. CASE CallNew \/ Build \/ SkipNil \/ UNCHANGED vars
  BY <1>1 DEF CallNew, Build, SkipNil, vars, IInv, ConfigOK, ArraysOK
<1>2. CASE SetDuration
  <2>1. Option.set \in Durations /\ Option.to \in Int
    BY <1>2, OptionKinds DEF SetDuration
  <2>2. /\ \/ config' = config
           \/ Option.to > 0 /\ config' = [config EXCEPT ![Option.set] = Option.to]
        /\ i' = i + 1 /\ UNCHANGED <<options, phase, array, held>>
    BY <1>2 DEF SetDuration
  <2>3. ConfigOK'
    BY <2>1, <2>2 DEF IInv, ConfigOK, Fields, Durations, Lists
  <2> QED BY <2>2, <2>3 DEF IInv, ArraysOK
<1>3. CASE SetList
  <2>1. Option.set \in Lists /\ Option.to \in DOMAIN CallerArrays
    BY <1>3, OptionKinds DEF SetList
  <2>2. /\ array' = array \/ array' = [array EXCEPT ![Option.set] = array[Option.to]]
        /\ i' = i + 1 /\ UNCHANGED <<options, phase, config, held>>
    BY <1>3 DEF SetList
  <2>3. ArraysOK'
    BY <2>1, <2>2 DEF IInv, ArraysOK, Arrays
  <2> QED BY <2>2, <2>3 DEF IInv, ConfigOK
<1>4. CASE SetHTTPClient
  <2>1. Option.to \in Bases \cup {"nil"}
    BY <1>4, OptionKinds DEF SetHTTPClient
  <2>2. /\ \/ config' = config
           \/ Option.to # "nil" /\ config' = [config EXCEPT !.httpClient = Option.to]
        /\ i' = i + 1 /\ UNCHANGED <<options, phase, array, held>>
    BY <1>4 DEF SetHTTPClient
  <2>3. ConfigOK'
    BY <2>1, <2>2 DEF IInv, ConfigOK, Fields, Durations, Lists
  <2> QED BY <2>2, <2>3 DEF IInv, ArraysOK
<1>5. CASE Register
  <2>1. /\ \/ config' = config
           \/ config' = [config EXCEPT !.custom =
                           Registered(config.custom, Option.name, Option.to)]
        /\ i' = i + 1 /\ UNCHANGED <<options, phase, array, held>>
    BY <1>5 DEF Register
  <2>2. ConfigOK'
    BY <2>1 DEF IInv, ConfigOK, Fields, Durations, Lists
  <2> QED BY <2>1, <2>2 DEF IInv, ArraysOK
<1>6. CASE CallerWrites
  <2>0. PICK a \in held : \E k \in DOMAIN array[a], item \in Written :
          array' = [array EXCEPT ![a][k] = item]
    BY <1>6 DEF CallerWrites
  <2>1. PICK k \in DOMAIN array[a], item \in Written :
          array' = [array EXCEPT ![a][k] = item]
    BY <2>0
  <2>2. a \in Arrays /\ array[a] \in Seq(Items) /\ item \in Items
    BY <2>1, ConstructionAssumption DEF IInv, ArraysOK
  <2>3. [array[a] EXCEPT ![k] = item] \in Seq(Items)
    BY <2>1, <2>2
  <2>4. ArraysOK'
    BY <1>6, <2>1, <2>2, <2>3 DEF IInv, ArraysOK, CallerWrites
  <2> QED BY <1>6, <2>4 DEF IInv, ConfigOK, CallerWrites
<1>7. CASE ConfiguredMethods
  <2>1. config.methods \in Arrays /\ "returned" \in Arrays \ Lists
    BY DEF IInv, ConfigOK, Arrays, Lists
  <2>2. ArraysOK'
    BY <1>7, <2>1 DEF IInv, ArraysOK, ConfiguredMethods
  <2> QED BY <1>7, <2>2 DEF IInv, ConfigOK, ConfiguredMethods
<1> QED
  BY <1>1, <1>2, <1>3, <1>4, <1>5, <1>6, <1>7 DEF Next, Options, Caller

\* At each point of New and afterwards the client refers to its own arrays only,
\* and the caller has a slice of none of them.
THEOREM Invariance == Spec => []IInv
BY InitIInv, StepIInv, PTL DEF Spec

LEMMA Runnable ==
  ASSUME IInv
  PROVE  IsClient(Value)
<1> DEFINE names == DOMAIN BuiltIns \cup DOMAIN config.custom
<1>1. /\ DOMAIN BuiltIns = {"stun", "dns", "http"}
      /\ \A m \in DOMAIN BuiltIns : BuiltIns[m] \in Lists
  BY DEF BuiltIns, Lists
<1>2. \A f \in Lists : array[config[f]] \in Seq(Items)
  BY DEF IInv, ConfigOK, ArraysOK, Arrays
<1>3. \A m : Kind(m) \in Kinds
  BY DEF Kind, Kinds
<1>4. \A m \in names : Kind(m) # "custom" => Len(array[config[BuiltIns[m]]]) \in Nat
  BY <1>1, <1>2 DEF Kind
<1>5. Value.methods \in Seq({Value.methods[j] : j \in DOMAIN Value.methods})
  <2>1. Value.methods \in Seq(Items)
    BY <1>2 DEF Value, Lists
  <2> QED BY <2>1
<1>6. /\ DOMAIN Value = {"methods", "kind", "targets", "timeout", "attemptTimeout"}
      /\ Value.kind = [m \in names |-> Kind(m)]
      /\ Value.targets = [m \in names |-> IF Kind(m) = "custom" THEN 0
                                          ELSE Len(array[config[BuiltIns[m]]])]
      /\ Value.timeout = config.timeout /\ Value.attemptTimeout = config.attemptTimeout
  BY DEF Value
<1> QED
  BY <1>3, <1>4, <1>5, <1>6 DEF IsClient, IInv, ConfigOK

\* Whatever options New is given, in whatever order, and whatever the caller
\* does with his slices, it builds a client of the kind Discovery's theorems are
\* about.
THEOREM ClientsAreRunnable == Spec => []ConstructionOK
<1>1. IInv => ConstructionOK
  BY Runnable DEF IInv, ConstructionOK, ConfigOK, ArraysOK, Arrays
<1> QED
  BY <1>1, Invariance, PTL

\* No write of the caller reaches a client that was built.
THEOREM NobodyChangesAClient == Spec => FixedAtConstruction
<1>1. IInv /\ [Next]_vars =>
        [phase = "built" =>
           config' = config /\ \A f \in Lists : View(f)' = View(f)]_vars
  <2> SUFFICES ASSUME IInv, Next, phase = "built"
               PROVE  config' = config /\ \A f \in Lists : View(f)' = View(f)
    BY DEF vars
  <2>1. CASE CallerWrites
    <3>1. PICK a \in held : \E k \in DOMAIN array[a], item \in Written :
            array' = [array EXCEPT ![a][k] = item]
      BY <2>1 DEF CallerWrites
    <3>2. a \notin Lists /\ config' = config
      BY <2>1 DEF CallerWrites, IInv, ArraysOK
    <3> QED
      BY <3>1, <3>2 DEF IInv, ConfigOK, ArraysOK, View, Arrays
  <2>2. CASE ConfiguredMethods
    BY <2>2 DEF ConfiguredMethods, IInv, ConfigOK, ArraysOK, View, Arrays, Lists
  <2> QED
    BY <2>1, <2>2
    DEF Next, Options, Caller, CallNew, SetDuration, SetList, SetHTTPClient,
        Register, SkipNil, Build, Applies
<1> QED
  BY <1>1, Invariance, PTL DEF Spec, FixedAtConstruction

-----------------------------------------------------------------------------
(* The order of the options.                                               *)

OrderedFields == Durations \cup Lists \cup {"httpClient"}

\* What LaterWins says of a field, and of the map of discoverers.
LastSaid(f) ==
  /\ \A j \in Meant(f) : IsLast(j, Meant(f)) => View(f) = Said(j)
  /\ Meant(f) = {} => View(f) = IF f \in Lists THEN Defaults[f] ELSE DefaultConfig[f]

LastRegistered ==
  /\ DOMAIN config.custom = {options[j].name : j \in Meant("custom")}
  /\ \A m \in DOMAIN config.custom :
       LET named == {j \in Meant("custom") : options[j].name = m} IN
       \A j \in named : IsLast(j, named) => config.custom[m] = options[j].to

\* Nobody has touched the defaults before New looks at an option.
Untouched ==
  /\ i = 1 /\ config = DefaultConfig
  /\ \A f \in Lists : array[f] = Defaults[f]

InOrder ==
  /\ phase = "given" => Untouched
  /\ phase = "new" => LastRegistered /\ \A f \in OrderedFields : LastSaid(f)

LEMMA OptionsAreASequence ==
  ASSUME IInv
  PROVE  DOMAIN options \subseteq Nat \ {0}
<1>1. options \in Seq({options[j] : j \in DOMAIN options})
  BY ConstructionAssumption DEF IInv
<1> QED BY <1>1

\* What an option says does not change: nobody writes to the caller's arrays
\* while New runs.
LEMMA SaysTheSame ==
  ASSUME IInv, options' = options, \A a \in DOMAIN CallerArrays : array'[a] = array[a],
         NEW j \in DOMAIN options
  PROVE  (Says(j)' <=> Says(j)) /\ Said(j)' = Said(j)
<1>1. options[j].set \in Lists => options[j].to \in DOMAIN CallerArrays
  BY ConstructionAssumption DEF IInv, Durations, Lists
<1>2. "methods" \in Lists
  BY DEF Lists
<1>3. Said(j)' = Said(j)
  BY <1>1 DEF Said
<1>4. Says(j)' <=> Says(j)
  BY <1>1, <1>2 DEF Says
<1> QED BY <1>3, <1>4

LEMMA NothingMeantYet ==
  ASSUME IInv, i = 1, NEW f
  PROVE  Meant(f) = {}
BY OptionsAreASequence DEF Meant

\* The option that is applied is the last of those that say something.
LEMMA MeantGrows ==
  ASSUME IInv, options' = options, i' = i + 1, i \in DOMAIN options,
         \A a \in DOMAIN CallerArrays : array'[a] = array[a], NEW f
  PROVE  /\ Meant(f)' = IF options[i].set = f /\ Says(i) THEN Meant(f) \cup {i} ELSE Meant(f)
         /\ \A j \in Meant(f) : j \in DOMAIN options /\ j \in Nat /\ j < i
<1>1. i \in Nat /\ DOMAIN options \subseteq Nat
  BY OptionsAreASequence DEF IInv
<1>2. \A j \in DOMAIN options : Says(j)' <=> Says(j)
  BY SaysTheSame
<1>3. \A j \in DOMAIN options : j < i + 1 <=> j < i \/ j = i
  BY <1>1
<1>4. Meant(f)' = {j \in DOMAIN options : j < i + 1 /\ options[j].set = f /\ Says(j)}
  BY <1>2 DEF Meant
<1> QED BY <1>1, <1>3, <1>4 DEF Meant

LEMMA LastSaidStays ==
  ASSUME IInv, options' = options, i' = i + 1, i \in DOMAIN options,
         \A a \in DOMAIN CallerArrays : array'[a] = array[a],
         NEW f, LastSaid(f),
         View(f)' = IF options[i].set = f /\ Says(i) THEN Said(i) ELSE View(f)
  PROVE  LastSaid(f)'
<1>1. /\ Meant(f)' = IF options[i].set = f /\ Says(i) THEN Meant(f) \cup {i} ELSE Meant(f)
      /\ \A j \in Meant(f) : j \in DOMAIN options /\ j \in Nat /\ j < i
  BY MeantGrows
<1>2. \A j \in DOMAIN options : Said(j)' = Said(j)
  BY SaysTheSame
<1>3. PICK o \in DOMAIN options : o = i
  OBVIOUS
<1>4. CASE options[i].set = f /\ Says(i)
  <2>1. ASSUME NEW j \in Meant(f)', IsLast(j, Meant(f)') PROVE j = o
    <3>1. i \in Meant(f)' /\ i \in Nat
      BY <1>1, <1>4 DEF IInv
    <3>2. i <= j
      BY <2>1, <3>1 DEF IsLast
    <3> QED BY <1>1, <1>3, <1>4, <3>1, <3>2
  <2>2. View(f)' = Said(o)'
    BY <1>2, <1>3, <1>4
  <2>3. Meant(f)' # {}
    BY <1>1, <1>4
  <2> QED BY <2>1, <2>2, <2>3 DEF LastSaid, IsLast
<1>5. CASE ~ (options[i].set = f /\ Says(i))
  <2>1. Meant(f)' = Meant(f) /\ View(f)' = View(f)
    BY <1>1, <1>5
  <2> QED BY <1>1, <1>2, <2>1 DEF LastSaid, IsLast
<1> QED BY <1>4, <1>5

LEMMA LastRegisteredStays ==
  ASSUME IInv, options' = options, i' = i + 1, i \in DOMAIN options,
         \A a \in DOMAIN CallerArrays : array'[a] = array[a], LastRegistered,
         config'.custom = IF options[i].set = "custom" /\ Says(i)
                          THEN Registered(config.custom, options[i].name, options[i].to)
                          ELSE config.custom
  PROVE  LastRegistered'
<1>1. /\ Meant("custom")' = IF options[i].set = "custom" /\ Says(i)
                            THEN Meant("custom") \cup {i} ELSE Meant("custom")
      /\ \A j \in Meant("custom") : j \in DOMAIN options /\ j \in Nat /\ j < i
  BY MeantGrows
<1>2. /\ DOMAIN config.custom = {options[j].name : j \in Meant("custom")}
      /\ \A m \in DOMAIN config.custom :
           \A j \in {l \in Meant("custom") : options[l].name = m} :
             IsLast(j, {l \in Meant("custom") : options[l].name = m}) =>
               config.custom[m] = options[j].to
  BY DEF LastRegistered
<1>3. CASE ~ (options[i].set = "custom" /\ Says(i))
  <2>1. Meant("custom")' = Meant("custom") /\ config'.custom = config.custom
    BY <1>1, <1>3
  <2> QED BY <1>2, <2>1 DEF LastRegistered, IsLast
<1>4. CASE options[i].set = "custom" /\ Says(i)
  <2> DEFINE name == options[i].name
             to == options[i].to
  <2>1. /\ Meant("custom")' = Meant("custom") \cup {i}
        /\ config'.custom = [m \in DOMAIN config.custom \cup {name} |->
                              IF m = name THEN to ELSE config.custom[m]]
    BY <1>1, <1>4 DEF Registered
  <2>2. DOMAIN config'.custom = {options[j].name : j \in Meant("custom") \cup {i}}
    BY <1>2, <2>1
  <2>3. ASSUME NEW m \in DOMAIN config'.custom,
               NEW j \in {l \in Meant("custom") \cup {i} : options[l].name = m},
               IsLast(j, {l \in Meant("custom") \cup {i} : options[l].name = m})
        PROVE  config'.custom[m] = options[j].to
    <3>1. CASE m = name
      <4>1. i \in {l \in Meant("custom") \cup {i} : options[l].name = m} /\ i \in Nat
        BY <3>1 DEF IInv
      <4>2. i <= j
        BY <2>3, <4>1 DEF IsLast
      <4>3. j = i
        BY <1>1, <4>1, <4>2
      <4> QED BY <2>1, <2>3, <3>1, <4>3
    <3>2. CASE m # name
      <4>1. {l \in Meant("custom") \cup {i} : options[l].name = m}
              = {l \in Meant("custom") : options[l].name = m}
        BY <3>2
      <4>2. m \in DOMAIN config.custom /\ config'.custom[m] = config.custom[m]
        BY <2>1, <2>3, <3>2
      <4> QED BY <1>2, <2>3, <4>1, <4>2
    <3> QED BY <3>1, <3>2
  <2> QED BY <2>1, <2>2, <2>3 DEF LastRegistered, IsLast
<1> QED BY <1>3, <1>4

LEMMA NothingIsSaid ==
  ASSUME UNCHANGED <<options, i, config, array>>
  PROVE  /\ LastRegistered => LastRegistered'
         /\ \A f : LastSaid(f) => LastSaid(f)'
<1>1. \A j : (Says(j)' <=> Says(j)) /\ Said(j)' = Said(j)
  BY DEF Says, Said
<1>2. \A f : Meant(f)' = Meant(f)
  BY <1>1 DEF Meant
<1>3. \A f : View(f)' = View(f)
  BY DEF View
<1>4. LastRegistered => LastRegistered'
  BY <1>2 DEF LastRegistered, IsLast
<1>5. \A f : LastSaid(f) => LastSaid(f)'
  BY <1>1, <1>2, <1>3 DEF LastSaid, IsLast
<1> QED BY <1>4, <1>5

LEMMA InitInOrder == Init => InOrder
<1> SUFFICES ASSUME Init PROVE Untouched /\ phase = "given"
  BY DEF InOrder
<1>1. Lists \subseteq Arrays /\ Lists \cap DOMAIN CallerArrays = {}
  BY ConstructionAssumption DEF Arrays
<1> QED BY <1>1 DEF Init, Untouched

\* An option that says what it is for, and leaves the other fields alone, keeps
\* the order.
LEMMA OptionInOrder ==
  ASSUME IInv, InOrder, phase = "new", options' = options, i' = i + 1, phase' = phase,
         i \in DOMAIN options, \A a \in DOMAIN CallerArrays : array'[a] = array[a],
         config'.custom = IF options[i].set = "custom" /\ Says(i)
                          THEN Registered(config.custom, options[i].name, options[i].to)
                          ELSE config.custom,
         \A f \in OrderedFields :
           View(f)' = IF options[i].set = f /\ Says(i) THEN Said(i) ELSE View(f)
  PROVE  InOrder'
<1>1. LastRegistered'
  BY LastRegisteredStays DEF InOrder
<1>2. ASSUME NEW f \in OrderedFields PROVE LastSaid(f)'
  BY LastSaidStays DEF InOrder
<1> QED BY <1>1, <1>2 DEF InOrder

LEMMA CallersOwn ==
  ASSUME IInv
  PROVE  /\ DOMAIN CallerArrays \cap Lists = {} /\ DOMAIN CallerArrays \subseteq Arrays
         /\ Lists \subseteq Arrays
         /\ \A f \in Lists : View(f) = array[f]
         /\ \A f \in Durations \cup {"httpClient"} : View(f) = config[f]
BY ConstructionAssumption DEF IInv, ConfigOK, Arrays, View, Durations, Lists

LEMMA StepInOrder == IInv /\ InOrder /\ [Next]_vars => InOrder'
<1> SUFFICES ASSUME IInv, InOrder, [Next]_vars PROVE InOrder'
  OBVIOUS
<1>0. IInv'
  BY StepIInv
<1>1. CASE CallNew
  <2>1. /\ Untouched /\ i = 1 /\ phase' = "new"
        /\ UNCHANGED <<options, i, config, array, held>>
    BY <1>1 DEF CallNew, InOrder, Untouched
  <2>2. \A f : Meant(f) = {}
    BY <2>1, NothingMeantYet
  <2>3. \A f \in OrderedFields : LastSaid(f)
    <3>1. \A f \in Lists : View(f) = Defaults[f]
      BY <2>1, CallersOwn DEF Untouched
    <3>2. \A f \in Durations \cup {"httpClient"} : View(f) = DefaultConfig[f]
      BY <2>1, CallersOwn DEF Untouched
    <3>3. \A f \in Durations \cup {"httpClient"} : f \notin Lists
      BY DEF Durations, Lists
    <3> QED BY <2>2, <3>1, <3>2, <3>3 DEF OrderedFields, LastSaid
  <2>4. LastRegistered
    BY <2>1, <2>2 DEF LastRegistered, Untouched, DefaultConfig
  <2>5. LastRegistered' /\ \A f \in OrderedFields : LastSaid(f)'
    BY <2>1, <2>3, <2>4, NothingIsSaid
  <2> QED BY <2>1, <2>5 DEF InOrder
<1>2. CASE SetDuration
  <2>1. /\ phase = "new" /\ phase' = phase /\ i \in DOMAIN options
        /\ options[i].set \in Durations
        /\ config' = IF options[i].to > 0
                     THEN [config EXCEPT ![options[i].set] = options[i].to] ELSE config
        /\ i' = i + 1 /\ UNCHANGED <<options, array, held>>
    BY <1>2 DEF SetDuration, Applies, Option
  <2>2. Says(i) <=> options[i].to > 0
    BY <2>1 DEF Says, Durations
  <2>3. Said(i) = options[i].to
    BY <2>1 DEF Said, Durations, Lists
  <2>4. config'.custom = config.custom /\ options[i].set # "custom"
    BY <2>1 DEF IInv, ConfigOK, Durations
  <2>5. ASSUME NEW f \in OrderedFields
        PROVE  View(f)' = IF options[i].set = f /\ Says(i) THEN Said(i) ELSE View(f)
    <3>1. CASE f \in Lists
      BY <2>1, <3>1, <1>0, CallersOwn DEF Durations, Lists, IInv, ConfigOK, View
    <3>2. CASE f \in Durations \cup {"httpClient"}
      BY <2>1, <2>2, <2>3, <3>2 DEF Durations, Lists, IInv, ConfigOK, View, Fields
    <3> QED BY <3>1, <3>2 DEF OrderedFields
  <2> QED BY <2>1, <2>4, <2>5, OptionInOrder
<1>3. CASE SetList
  <2>1. /\ phase = "new" /\ phase' = phase /\ i \in DOMAIN options
        /\ options[i].set \in Lists /\ options[i].to \in DOMAIN CallerArrays
        /\ array' = IF options[i].set = "methods" /\ array[options[i].to] = <<>> THEN array
                    ELSE [array EXCEPT ![options[i].set] = array[options[i].to]]
        /\ i' = i + 1 /\ UNCHANGED <<options, config, held>>
    BY <1>3, OptionKinds DEF SetList, Applies, Option
  <2>2. Says(i) <=> ~ (options[i].set = "methods" /\ array[options[i].to] = <<>>)
    BY <2>1 DEF Says, Durations, Lists
  <2>3. Said(i) = array[options[i].to]
    BY <2>1 DEF Said
  <2>4. array \in [Arrays -> Seq(Items)] /\ options[i].set \in Arrays
    BY <2>1, CallersOwn DEF IInv, ArraysOK
  <2>5. \A a \in DOMAIN CallerArrays : array'[a] = array[a]
    BY <2>1, <2>4, CallersOwn
  <2>6. ASSUME NEW f \in OrderedFields
        PROVE  View(f)' = IF options[i].set = f /\ Says(i) THEN Said(i) ELSE View(f)
    <3>1. CASE f \in Lists
      <4>1. View(f) = array[f] /\ View(f)' = array'[f] /\ f \in Arrays
        BY <2>1, <3>1, CallersOwn DEF View, IInv, ConfigOK
      <4> QED BY <2>1, <2>2, <2>3, <2>4, <4>1
    <3>2. CASE f \in Durations \cup {"httpClient"}
      BY <2>1, <3>2 DEF View, Durations, Lists
    <3> QED BY <3>1, <3>2 DEF OrderedFields
  <2>7. options[i].set # "custom" /\ config'.custom = config.custom
    BY <2>1 DEF Lists
  <2> QED BY <2>1, <2>5, <2>6, <2>7, OptionInOrder
<1>4. CASE SetHTTPClient
  <2>1. /\ phase = "new" /\ phase' = phase /\ i \in DOMAIN options
        /\ options[i].set = "httpClient"
        /\ config' = IF options[i].to # "nil"
                     THEN [config EXCEPT !.httpClient = options[i].to] ELSE config
        /\ i' = i + 1 /\ UNCHANGED <<options, array, held>>
    BY <1>4 DEF SetHTTPClient, Applies, Option
  <2>2. Says(i) <=> options[i].to # "nil"
    BY <2>1 DEF Says, Durations
  <2>3. Said(i) = options[i].to
    BY <2>1 DEF Said, Lists
  <2>4. config'.custom = config.custom
    BY <2>1 DEF IInv, ConfigOK
  <2>5. ASSUME NEW f \in OrderedFields
        PROVE  View(f)' = IF options[i].set = f /\ Says(i) THEN Said(i) ELSE View(f)
    <3>1. CASE f \in Lists
      BY <2>1, <3>1, <1>0, CallersOwn DEF Lists, IInv, ConfigOK, View
    <3>2. CASE f \in Durations \cup {"httpClient"}
      BY <2>1, <2>2, <2>3, <3>2 DEF Durations, Lists, IInv, ConfigOK, View, Fields
    <3> QED BY <3>1, <3>2 DEF OrderedFields
  <2> QED BY <2>1, <2>4, <2>5, OptionInOrder
<1>5. CASE Register
  <2>1. /\ phase = "new" /\ phase' = phase /\ i \in DOMAIN options
        /\ options[i].set = "custom"
        /\ config' = IF options[i].name = "" \/ options[i].to = "nil" THEN config
                     ELSE [config EXCEPT !.custom =
                             Registered(config.custom, options[i].name, options[i].to)]
        /\ i' = i + 1 /\ UNCHANGED <<options, array, held>>
    BY <1>5 DEF Register, Applies, Option
  <2>2. Says(i) <=> options[i].name # "" /\ options[i].to # "nil"
    BY <2>1 DEF Says, Durations
  <2>3. config'.custom = IF Says(i)
                         THEN Registered(config.custom, options[i].name, options[i].to)
                         ELSE config.custom
    BY <2>1, <2>2 DEF IInv, ConfigOK, Fields
  <2>4. ASSUME NEW f \in OrderedFields PROVE View(f)' = View(f) /\ options[i].set # f
    BY <2>1 DEF OrderedFields, Durations, Lists, View, IInv, ConfigOK, Fields
  <2> QED BY <2>1, <2>3, <2>4, OptionInOrder
<1>6. CASE SkipNil
  <2>1. /\ phase = "new" /\ phase' = phase /\ i \in DOMAIN options
        /\ options[i].set = "nil" /\ i' = i + 1
        /\ UNCHANGED <<options, config, array, held>>
    BY <1>6 DEF SkipNil, Applies, Option
  <2>2. ASSUME NEW f \in OrderedFields PROVE View(f)' = View(f) /\ options[i].set # f
    BY <2>1 DEF OrderedFields, Durations, Lists, View
  <2> QED BY <2>1, <2>2, OptionInOrder
<1>7. CASE Build \/ ConfiguredMethods
  BY <1>7 DEF Build, ConfiguredMethods, InOrder
<1>8. CASE CallerWrites
  <2>0. PICK a \in held : \E k \in DOMAIN array[a], item \in Written :
          array' = [array EXCEPT ![a][k] = item]
    BY <1>8 DEF CallerWrites
  <2>1. a \notin Lists /\ phase # "new" /\ UNCHANGED <<options, phase, i, config, held>>
    BY <1>8 DEF CallerWrites, IInv, ArraysOK
  <2>2. \A f \in Lists : array'[f] = array[f]
    BY <2>0, <2>1, CallersOwn DEF IInv, ArraysOK
  <2> QED BY <2>1, <2>2 DEF InOrder, Untouched
<1>9. CASE UNCHANGED vars
  BY <1>9, NothingIsSaid DEF vars, InOrder, Untouched
<1> QED
  BY <1>1, <1>2, <1>3, <1>4, <1>5, <1>6, <1>7, <1>8, <1>9 DEF Next, Options, Caller

\* Options are applied in order, however many there are: at each point of New
\* every field and every name has what the last option said of it, or its
\* default when none said anything.
THEOREM LastOptionWins == Spec => []LaterWins
<1>1. InOrder => LaterWins
  BY DEF InOrder, LastRegistered, LastSaid, LaterWins, OrderedFields
<1> QED
  BY <1>1, InitInOrder, StepInOrder, Invariance, PTL DEF Spec
=============================================================================
