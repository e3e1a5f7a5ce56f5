---------------------------- MODULE FallbackProofs --------------------------
(***************************************************************************)
(* Theorems of Discovery about its two loops, for any clients, deadlines   *)
(* and discoverers: what is tried before what, that nothing is passed      *)
(* over, how the time of a call reaches each method and family, and that   *)
(* all of it is one call of the kind module Call describes.                *)
(***************************************************************************)
EXTENDS DiscoveryProofs

USE DEF ended

-----------------------------------------------------------------------------
(* The invariant.                                                          *)

Active == pc \in {"invoke", "rounds", "granted", "racing", "custom"}

FailureType ==
  [at : 0 .. Len(client.methods), family : Families \cup {""},
   how : {"tried", "refused", "custom", "mismatch"}, err : ContextErrors]

ResultType ==
  [status : {"none", "found", "failed", "foreign", "unsupported"},
   ip : IPs \cup {NoIP}, version : Versions, timedOut : BOOLEAN]

Types ==
  /\ request \in Requests /\ version \in Versions
  /\ pc \in {"start", "loop", "invoke", "rounds", "granted", "racing", "custom", "done"}
  /\ next \in 1 .. Len(client.methods) + 1
  /\ over \in Nat /\ budget \in Int /\ until \in Int
  /\ failures \in Seq(FailureType)
  /\ result \in ResultType

\* The runnable entries DiscoverWithIPVersion has not come to.
Left == {i \in Runnable : i >= next}

\* methodsLeft counts them, and the method that runs is the entry before next.
LoopOK ==
  /\ methodsLeft = IF request = "all" /\ pc # "start" THEN Cardinality(Left) ELSE 0
  /\ pc = "start" => next = 1 /\ failures = <<>>
  /\ Active => method \in Discoverers
  /\ Active /\ request = "all" => At \in Runnable /\ client.methods[At] = method
  /\ Active /\ request # "all" => method = request
  /\ pc \in {"rounds", "granted", "racing"} => Kind # "custom"
  /\ pc = "custom" => Kind = "custom"

Pending == {rounds[j] : j \in DOMAIN rounds}

\* Of the families of a method that runs, those not tried are still to come,
\* unless a round was refused or there is nothing to ask.
RoundsOK ==
  /\ rounds \in {<<>>, <<"4">>, <<"6">>, <<"6", "4">>}
  /\ pc \in {"granted", "racing"} => rounds # <<>>
  /\ pc \in {"rounds", "granted", "racing"} =>
       \/ \A k \in DOMAIN FamiliesFor(version) :
            FamiliesFor(version)[k] \in TriedAt(At) \cup Pending
       \/ rounds = <<>> /\ client.targets[method] = 0
       \/ rounds = <<>> /\ \E f \in ReportedAt(At) : f.how = "refused"

LoopBehind == pc = "loop" => \A i \in Runnable : i < next => Exhausted(i)

\* The context of a method ends no later than the call, and only for a reason.
TimesOK ==
  /\ pc = "start" => now = 0
  /\ call.err = Canceled => canceled
  /\ Active =>
       /\ call.deadline = NoDeadline <=> mctx.deadline = NoDeadline
       /\ call.deadline # NoDeadline => mctx.deadline <= call.deadline
       /\ mctx.err # Nil /\ ~ canceled =>
            mctx.deadline # NoDeadline /\ mctx.deadline <= now

\* A round is granted while there is time, and what it may wait on sockets is
\* Late at most; what ends before the round starts is the call.
GrantOK ==
  /\ pc \in {"granted", "racing"} => budget \in Nat /\ (Kind = "stun" => budget <= Late)
  /\ pc = "granted" =>
       /\ call.err # Nil => now <= over
       /\ mctx.deadline # NoDeadline => now < mctx.deadline

\* Sockets hold a round up for Late at most, from the end of the call.
UntilOK ==
  pc = "racing" =>
    /\ call.err = Nil /\ call.deadline # NoDeadline => until <= call.deadline + Late
    /\ call.err # Nil => until <= over + Late

AllObey == \A i \in Runnable : client.kind[client.methods[i]] # "stun"

\* The hypotheses of QueriesNeverStarve.
Calm == request = "all" /\ ~ canceled /\ EnoughTime /\ AllObey

\* Two units of time are left for each method that has not started, and one for
\* each round of the one that runs.
Ahead ==
  Calm /\ call.deadline # NoDeadline =>
    /\ pc = "loop" => call.deadline - now >= 2 * methodsLeft
    /\ Active => call.deadline - mctx.deadline >= 2 * methodsLeft
    /\ pc = "invoke" => mctx.deadline - now >= 2
    /\ pc = "rounds" => mctx.deadline - now >= Len(rounds)
    /\ pc = "granted" => mctx.deadline - (now + budget) >= Len(rounds) - 1
    /\ pc = "racing" => now <= until /\ mctx.deadline - until >= Len(rounds) - 1
    /\ pc = "custom" => now <= mctx.deadline

NoneRefused == Calm => \A j \in DOMAIN failures : failures[j].how # "refused"

\* Where the loops are and what they have behind them; this depends on no clock.
Progress ==
  /\ Types /\ LoopOK /\ RoundsOK /\ LoopBehind
  /\ PrefersIPv6 /\ FallbackIsExhaustive

Timing ==
  /\ TimesOK /\ GrantOK /\ UntilOK /\ LastOwnsRemainder
  /\ Ahead /\ NoneRefused /\ QueriesNeverStarve

PInv == IInv /\ Progress

FInv == PInv /\ Timing

-----------------------------------------------------------------------------
(* Facts about the operators.                                              *)

LEMMA ClientFacts ==
  ASSUME client \in Clients
  PROVE  /\ Len(client.methods) \in Nat
         /\ Entries = 1 .. Len(client.methods)
         /\ Runnable \subseteq Entries /\ IsFiniteSet(Runnable)
         /\ \A m \in Discoverers : client.kind[m] \in Kinds /\ client.targets[m] \in Nat
         /\ client.timeout \in Nat /\ client.attemptTimeout \in Nat \ {0}
<1>1. IsClient(client)
  BY DiscoveryAssumption
<1>2. Len(client.methods) \in Nat
  BY <1>1 DEF IsClient
<1>3. IsFiniteSet(Entries)
  BY <1>2, FS_Interval DEF Entries
<1>4. IsFiniteSet(Runnable)
  BY <1>3, FS_Subset DEF Runnable
<1> QED BY <1>1, <1>2, <1>4 DEF IsClient, Entries, Runnable, Discoverers

\* An entry that is started is one less to start; one that is skipped is not.
LEMMA LeftFacts ==
  ASSUME client \in Clients, next \in Entries
  PROVE  LET after == {i \in Runnable : i >= next + 1} IN
         /\ Cardinality(Left) \in Nat /\ Cardinality(after) \in Nat
         /\ next \in Runnable => Cardinality(after) = Cardinality(Left) - 1
         /\ next \notin Runnable => after = Left
<1> DEFINE after == {i \in Runnable : i >= next + 1}
<1>1. /\ \A i \in Runnable : i \in Int /\ next \in Int
      /\ IsFiniteSet(Runnable)
  BY ClientFacts
<1>2. IsFiniteSet(Left) /\ Cardinality(Left) \in Nat
  BY <1>1, FS_Subset, FS_CardinalityType DEF Left
<1>3. after = Left \ {next}
  BY <1>1 DEF Left
<1>4. next \in Runnable <=> next \in Left
  BY <1>1 DEF Left
<1>5. /\ Cardinality(Left \ {next}) \in Nat
      /\ next \in Left => Cardinality(Left \ {next}) = Cardinality(Left) - 1
      /\ next \notin Left => Left \ {next} = Left
  BY <1>2, FS_RemoveElement, FS_CardinalityType
<1> QED BY <1>2, <1>3, <1>4, <1>5

\* A report is kept, and so are those before it.
LEMMA ReportFacts ==
  ASSUME failures \in Seq(FailureType), NEW r \in FailureType,
         failures' = Append(failures, r)
  PROVE  /\ failures' \in Seq(FailureType)
         /\ \A i : ReportedAt(i) \subseteq ReportedAt(i)' /\ TriedAt(i) \subseteq TriedAt(i)'
         /\ r \in ReportedAt(r.at)'
         /\ r.how = "tried" => r.family \in TriedAt(r.at)'
         /\ \A j \in DOMAIN failures' :
              failures'[j] = r \/ \E l \in DOMAIN failures : failures'[j] = failures[l]
<1>1. /\ failures' \in Seq(FailureType)
      /\ DOMAIN failures = 1 .. Len(failures) /\ Len(failures) \in Nat
      /\ DOMAIN failures' = 1 .. Len(failures) + 1
      /\ \A j \in 1 .. Len(failures) : failures'[j] = failures[j]
      /\ failures'[Len(failures) + 1] = r
  OBVIOUS
<1>2. \A i : ReportedAt(i) \subseteq ReportedAt(i)'
  BY <1>1 DEF ReportedAt
<1>3. r \in ReportedAt(r.at)'
  BY <1>1 DEF ReportedAt
<1>4. \A i : TriedAt(i) \subseteq TriedAt(i)'
  BY <1>2 DEF TriedAt
<1>5. r.how = "tried" => r.family \in TriedAt(r.at)'
  BY <1>3 DEF TriedAt
<1>6. \A j \in DOMAIN failures' :
        failures'[j] = r \/ \E l \in DOMAIN failures : failures'[j] = failures[l]
  BY <1>1
<1> QED BY <1>1, <1>2, <1>3, <1>4, <1>5, <1>6

\* What is exhausted stays so.
LEMMA ExhaustedStays ==
  ASSUME UNCHANGED fixed, NEW i, Exhausted(i),
         ReportedAt(i) \subseteq ReportedAt(i)', TriedAt(i) \subseteq TriedAt(i)'
  PROVE  Exhausted(i)'
BY DEF fixed, Exhausted

LEMMA FamiliesForFacts ==
  /\ \A v \in Versions : FamiliesFor(v) \in {<<"6", "4">>, <<"4">>, <<"6">>}
  /\ FamiliesFor("Any") = <<"6", "4">>
  /\ \A s \in {<<"4">>, <<"6">>, <<"6", "4">>} :
       /\ Head(s) = s[1] /\ Len(s) = Len(Tail(s)) + 1 /\ Len(s) \in {1, 2}
       /\ Tail(s) \in {<<>>, <<"4">>}
       /\ {s[j] : j \in DOMAIN s} = {Head(s)} \cup {Tail(s)[j] : j \in DOMAIN Tail(s)}
<1>1. \A v \in Versions : FamiliesFor(v) \in {<<"6", "4">>, <<"4">>, <<"6">>}
  BY DEF FamiliesFor
<1>2. FamiliesFor("Any") = <<"6", "4">>
  BY DEF FamiliesFor
<1>3. ASSUME NEW x
      PROVE  /\ Head(<<x>>) = x /\ Tail(<<x>>) = <<>> /\ Len(<<x>>) = 1
             /\ {<<x>>[j] : j \in DOMAIN <<x>>} = {x}
  <2>1. Head(<<x>>) = x
    OBVIOUS
  <2>2. Tail(<<x>>) = <<>>
    OBVIOUS
  <2>3. Len(<<x>>) = 1
    OBVIOUS
  <2>4. {<<x>>[j] : j \in DOMAIN <<x>>} = {x}
    OBVIOUS
  <2> QED BY <2>1, <2>2, <2>3, <2>4
<1>4. /\ Head(<<"6", "4">>) = "6" /\ Tail(<<"6", "4">>) = <<"4">>
      /\ Len(<<"6", "4">>) = 2
      /\ {<<"6", "4">>[j] : j \in DOMAIN <<"6", "4">>} = {"6", "4"}
  <2>1. Head(<<"6", "4">>) = "6"
    OBVIOUS
  <2>2. Tail(<<"6", "4">>) = <<"4">>
    OBVIOUS
  <2>3. Len(<<"6", "4">>) = 2
    OBVIOUS
  <2>4. {<<"6", "4">>[j] : j \in DOMAIN <<"6", "4">>} = {"6", "4"}
    OBVIOUS
  <2> QED BY <2>1, <2>2, <2>3, <2>4
<1>5. {<<>>[j] : j \in DOMAIN <<>>} = {} /\ Len(<<>>) = 0
  OBVIOUS
<1> QED BY <1>1, <1>2, <1>3, <1>4, <1>5

-----------------------------------------------------------------------------
(* The loops.                                                              *)

LEMMA InitProgress == Init => Progress
<1> SUFFICES ASSUME Init PROVE Progress
  OBVIOUS
<1>1. /\ client \in Clients /\ request \in Requests /\ version \in Versions
      /\ pc = "start" /\ next = 1 /\ methodsLeft = 0 /\ rounds = <<>> /\ until = 0
      /\ over = 0 /\ budget = 0 /\ failures = <<>> /\ result = NoResult
  BY DEF Init
<1>2. Types
  <2>1. next \in 1 .. Len(client.methods) + 1
    BY <1>1, ClientFacts
  <2>2. result \in ResultType
    BY <1>1 DEF NoResult, ResultType, Versions
  <2>3. failures \in Seq(FailureType)
    BY <1>1
  <2> QED BY <1>1, <2>1, <2>2, <2>3 DEF Types
<1>3. LoopOK /\ RoundsOK /\ LoopBehind
  BY <1>1 DEF LoopOK, RoundsOK, LoopBehind, Active
<1>4. PrefersIPv6 /\ FallbackIsExhaustive
  BY <1>1 DEF PrefersIPv6, FallbackIsExhaustive, NoResult
<1> QED BY <1>2, <1>3, <1>4 DEF Progress

LEMMA StillProgress ==
  ASSUME PInv,
         UNCHANGED <<fixed, pc, next, methodsLeft, method, rounds, budget, failures, result>>,
         over' \in Nat, until' \in Int
  PROVE  Progress'
<1>1. UNCHANGED <<client, request, version>>
  BY DEF fixed
<1>2. Types' /\ LoopOK'
  BY <1>1 DEF PInv, Progress, Types, FailureType, LoopOK, Active, Left, Runnable, Entries,
     Discoverers, At, Kind
<1>3. RoundsOK'
  BY <1>1 DEF PInv, Progress, RoundsOK, TriedAt, ReportedAt, At, Pending
<1>4. LoopBehind' /\ PrefersIPv6' /\ FallbackIsExhaustive'
  BY <1>1 DEF PInv, Progress, LoopBehind, PrefersIPv6, FallbackIsExhaustive, Exhausted,
     TriedAt, ReportedAt, At, Kind, Runnable, Entries, Discoverers
<1> QED BY <1>2, <1>3, <1>4 DEF Progress

LEMMA StepStartAll == ASSUME PInv, StartAll PROVE Progress'
<1>1. /\ pc = "start" /\ request = "all" /\ pc' = "loop"
      /\ methodsLeft' = CountRunnable /\ next = 1 /\ failures = <<>>
      /\ UNCHANGED <<client, request, version, over, next, rounds, budget, until, failures,
                     result>>
  BY DEF StartAll, fixed, PInv, Progress, LoopOK
<1>2. Types'
  BY <1>1 DEF PInv, Progress, Types, FailureType
<1>3. Runnable' = Runnable /\ (\A i \in Runnable : i \in Int /\ i >= 1)
      /\ client \in Clients
  BY <1>1, ClientFacts DEF PInv, IInv, ContextsOK, Runnable, Entries, Discoverers
<1>4. Left' = Runnable
  BY <1>1, <1>3 DEF Left
<1>5. LoopOK'
  BY <1>1, <1>4 DEF LoopOK, Active, CountRunnable
<1>6. RoundsOK' /\ LoopBehind'
  BY <1>1, <1>3 DEF PInv, Progress, RoundsOK, LoopBehind
<1>7. PrefersIPv6' /\ FallbackIsExhaustive'
  BY <1>1 DEF PInv, IInv, NotYet, NoResult, PrefersIPv6, FallbackIsExhaustive
<1> QED BY <1>2, <1>5, <1>6, <1>7 DEF Progress

LEMMA StepStartOne == ASSUME PInv, StartOne PROVE Progress'
<1>1. /\ pc = "start" /\ request # "all"
      /\ UNCHANGED <<client, request, version, over, next, methodsLeft, rounds, budget,
                     until, failures>>
      /\ failures = <<>> /\ next = 1
      /\ \/ /\ request \in Discoverers /\ method' = request /\ pc' = "invoke"
            /\ result' = result
         \/ /\ result' = [NoResult EXCEPT !.status = "unsupported"] /\ pc' = "done"
            /\ method' = method
  BY DEF StartOne, fixed, PInv, Progress, LoopOK
<1>2. Types'
  BY <1>1 DEF PInv, Progress, Types, FailureType, ResultType, NoResult, Versions
<1>3. LoopOK'
  BY <1>1 DEF PInv, Progress, LoopOK, Active, Discoverers
<1>4. RoundsOK' /\ LoopBehind'
  BY <1>1 DEF PInv, Progress, RoundsOK, LoopBehind
<1>5. PrefersIPv6' /\ FallbackIsExhaustive'
  BY <1>1 DEF PInv, IInv, NotYet, NoResult, PrefersIPv6, FallbackIsExhaustive
<1> QED BY <1>2, <1>3, <1>4, <1>5 DEF Progress

LEMMA StepLoopEnds == ASSUME PInv, LoopEnds PROVE Progress'
<1>1. /\ pc = "loop" /\ pc' = "done" /\ result' = Failed(call) /\ request = "all"
      /\ UNCHANGED <<client, request, version, over, next, methodsLeft, method, rounds,
                     budget, until, failures>>
  BY DEF LoopEnds, fixed, PInv, IInv, OneContext
<1>2. result' \in ResultType /\ result'.status = "failed"
  BY <1>1 DEF Failed, TimedOut, NoResult, ResultType, Versions
<1>3. Types'
  BY <1>1, <1>2 DEF PInv, Progress, Types, FailureType
<1>4. LoopOK'
  BY <1>1 DEF PInv, Progress, LoopOK, Active, Left, Runnable, Entries, Discoverers
<1>5. RoundsOK' /\ LoopBehind'
  BY <1>1 DEF PInv, Progress, RoundsOK, LoopBehind
<1>6. PrefersIPv6' /\ FallbackIsExhaustive'
  BY <1>1, <1>2 DEF PrefersIPv6, FallbackIsExhaustive
<1> QED BY <1>3, <1>4, <1>5, <1>6 DEF Progress

LEMMA StepSkipMethod == ASSUME PInv, SkipMethod PROVE Progress'
<1>1. /\ pc = "loop" /\ pc' = "loop" /\ next <= Len(client.methods) /\ next' = next + 1
      /\ client.methods[next] \notin Discoverers /\ request = "all"
      /\ UNCHANGED <<client, request, version, over, methodsLeft, method, rounds, budget,
                     until, failures, result>>
  BY DEF SkipMethod, fixed, PInv, IInv, OneContext
<1>2. client \in Clients /\ next \in Entries /\ next \notin Runnable
  BY <1>1, ClientFacts DEF PInv, IInv, ContextsOK, Progress, Types, Runnable
<1>3. Runnable' = Runnable
  BY <1>1 DEF Runnable, Entries, Discoverers
<1>4. Left' = Left
  BY <1>1, <1>2, <1>3, LeftFacts DEF Left
<1>5. Types'
  <2>1. next' \in 1 .. Len(client.methods) + 1
    BY <1>1, <1>2, ClientFacts
  <2> QED BY <1>1, <2>1 DEF PInv, Progress, Types, FailureType
<1>6. LoopOK'
  BY <1>1, <1>4 DEF PInv, Progress, LoopOK, Active
<1>7. RoundsOK'
  BY <1>1 DEF PInv, Progress, RoundsOK
<1>8. LoopBehind'
  <2> SUFFICES ASSUME NEW i \in Runnable, i < next + 1 PROVE Exhausted(i)'
    BY <1>1, <1>3 DEF LoopBehind
  <2>1. i < next
    BY <1>2, ClientFacts
  <2>2. Exhausted(i)
    BY <1>1, <2>1 DEF PInv, Progress, LoopBehind
  <2> QED BY <1>1, <2>2 DEF Exhausted, ReportedAt, TriedAt
<1>9. PrefersIPv6' /\ FallbackIsExhaustive'
  BY <1>1 DEF PInv, IInv, NotYet, NoResult, PrefersIPv6, FallbackIsExhaustive
<1> QED BY <1>5, <1>6, <1>7, <1>8, <1>9 DEF Progress

LEMMA StepStartMethod == ASSUME PInv, StartMethod PROVE Progress'
<1>1. /\ pc = "loop" /\ pc' = "invoke" /\ next <= Len(client.methods) /\ next' = next + 1
      /\ client.methods[next] \in Discoverers /\ request = "all"
      /\ methodsLeft' = methodsLeft - 1 /\ method' = client.methods[next]
      /\ UNCHANGED <<client, request, version, over, rounds, budget, until, failures, result>>
  BY DEF StartMethod, fixed, PInv, IInv, OneContext
<1>2. client \in Clients /\ next \in Entries /\ next \in Runnable /\ next \in Int
  BY <1>1, ClientFacts DEF PInv, IInv, ContextsOK, Progress, Types, Runnable
<1>3. Runnable' = Runnable /\ Discoverers' = Discoverers
  BY <1>1 DEF Runnable, Entries, Discoverers
<1>4. Left' = {i \in Runnable : i >= next + 1}
  BY <1>1, <1>3 DEF Left
<1>5. Types'
  <2>1. next' \in 1 .. Len(client.methods) + 1
    BY <1>1, <1>2, ClientFacts
  <2> QED BY <1>1, <2>1 DEF PInv, Progress, Types, FailureType
<1>6. At' = next
  BY <1>1, <1>2 DEF At
<1>7. LoopOK'
  <2>1. methodsLeft' = Cardinality(Left')
    BY <1>1, <1>2, <1>4, LeftFacts DEF PInv, Progress, LoopOK
  <2> QED BY <1>1, <1>2, <1>3, <1>6, <2>1 DEF LoopOK, Active
<1>8. RoundsOK' /\ LoopBehind'
  BY <1>1 DEF PInv, Progress, RoundsOK, LoopBehind
<1>9. PrefersIPv6'
  BY <1>1 DEF PInv, IInv, NotYet, NoResult, PrefersIPv6
<1>10. FallbackIsExhaustive'
  <2> SUFFICES ASSUME NEW i \in Runnable, i < next PROVE Exhausted(i)'
    BY <1>3, <1>6 DEF FallbackIsExhaustive
  <2>1. Exhausted(i)
    BY <1>1 DEF PInv, Progress, LoopBehind
  <2> QED BY <1>1, <2>1 DEF Exhausted, ReportedAt, TriedAt
<1> QED BY <1>5, <1>7, <1>8, <1>9, <1>10 DEF Progress

-----------------------------------------------------------------------------
(* The method that runs.                                                   *)

LEMMA AtFacts ==
  ASSUME PInv
  PROVE  /\ client \in Clients /\ next \in Int
         /\ At \in 0 .. Len(client.methods)
         /\ \A family \in Families \cup {""}, err \in ContextErrors,
              how \in {"tried", "refused", "custom", "mismatch"} :
              [at |-> At, family |-> family, how |-> how, err |-> err] \in FailureType
<1>1. client \in Clients /\ next \in 1 .. Len(client.methods) + 1
  BY DEF PInv, IInv, ContextsOK, Progress, Types
<1>2. Len(client.methods) \in Nat
  BY <1>1, ClientFacts
<1>3. At \in 0 .. Len(client.methods)
  BY <1>1, <1>2 DEF At
<1>4. ASSUME NEW family \in Families \cup {""}, NEW err \in ContextErrors,
             NEW how \in {"tried", "refused", "custom", "mismatch"}
      PROVE  [at |-> At, family |-> family, how |-> how, err |-> err] \in FailureType
  BY <1>3 DEF FailureType
<1>5. next \in Int
  BY <1>1, <1>2
<1> QED BY <1>1, <1>3, <1>4, <1>5

\* An error of a method leaves nothing behind that the method could still try.
LEMMA MethodFailsProgress ==
  ASSUME PInv, Active, UNCHANGED <<fixed, over, next, methodsLeft, method, budget, until>>,
         NEW error \in ResultType, error.status # "found", MethodFails(error),
         failures' \in Seq(FailureType),
         \A i : ReportedAt(i) \subseteq ReportedAt(i)' /\ TriedAt(i) \subseteq TriedAt(i)',
         request = "all" => Exhausted(At)',
         rounds' \in {<<>>, <<"4">>, <<"6">>, <<"6", "4">>}
  PROVE  Progress'
<1>1. UNCHANGED <<client, request, version>> /\ result = NoResult
  BY DEF fixed, Active, PInv, IInv, NotYet
<1>2. Runnable' = Runnable /\ At' = At /\ Left' = Left /\ Discoverers' = Discoverers
  BY <1>1 DEF Runnable, Entries, Discoverers, At, Left
<1>3. \/ request = "all" /\ pc' = "loop" /\ result' = result
      \/ request # "all" /\ pc' = "done" /\ result' = error
  BY DEF MethodFails
<1>4. Types'
  BY <1>1, <1>3 DEF PInv, Progress, Types, FailureType, ResultType
<1>5. LoopOK'
  BY <1>1, <1>2, <1>3 DEF PInv, Progress, LoopOK, Active
<1>6. RoundsOK'
  BY <1>3 DEF RoundsOK
<1>7. LoopBehind'
  <2> SUFFICES ASSUME request = "all", NEW i \in Runnable, i < next PROVE Exhausted(i)'
    BY <1>1, <1>2, <1>3 DEF LoopBehind
  <2>1. i \in Int /\ next \in Int /\ At = next - 1
    <3>1. client \in Clients /\ next \in Int
      BY AtFacts
    <3>2. Runnable \subseteq 1 .. Len(client.methods) /\ Len(client.methods) \in Nat
      BY <3>1, ClientFacts
    <3> QED BY <3>1, <3>2 DEF At
  <2>2. CASE i = At
    BY <1>2, <2>2 DEF Exhausted
  <2>3. CASE i < At
    <3>1. Exhausted(i)
      BY <2>3 DEF PInv, Progress, FallbackIsExhaustive, Active
    <3> QED BY <3>1, ExhaustedStays
  <2> QED BY <2>1, <2>2, <2>3
<1>8. PrefersIPv6' /\ FallbackIsExhaustive'
  BY <1>1, <1>3 DEF PrefersIPv6, FallbackIsExhaustive, NoResult
<1> QED BY <1>4, <1>5, <1>6, <1>7, <1>8 DEF Progress

LEMMA MethodReturnsProgress ==
  ASSUME PInv, Active, UNCHANGED <<fixed, over, next, methodsLeft, method, budget, until>>,
         NEW ip \in IPs \cup {NoIP}, NEW v \in Versions, MethodReturns(ip, v),
         Kind # "custom" /\ version = "Any" /\ To4(ip) => "6" \in TriedAt(At),
         rounds' \in {<<>>, <<"4">>, <<"6">>, <<"6", "4">>}
  PROVE  Progress'
<1>1. UNCHANGED <<client, request, version>>
  BY DEF fixed
<1>2. CASE Accepts(ip)
  <2>1. /\ pc' = "done" /\ failures' = failures
        /\ result' = [status |-> "found", ip |-> ip, version |-> v, timedOut |-> FALSE]
    BY <1>2 DEF MethodReturns
  <2>2. Runnable' = Runnable /\ At' = At /\ Left' = Left /\ Kind' = Kind
    BY <1>1 DEF Runnable, Entries, Discoverers, At, Left, Kind
  <2>3. Types'
    <3>1. result' \in ResultType
      BY <2>1 DEF ResultType
    <3> QED BY <1>1, <2>1, <3>1 DEF PInv, Progress, Types, FailureType
  <2>4. LoopOK'
    BY <1>1, <2>1, <2>2 DEF PInv, Progress, LoopOK, Active
  <2>5. RoundsOK' /\ LoopBehind'
    BY <2>1 DEF RoundsOK, LoopBehind
  <2>6. PrefersIPv6'
    BY <1>1, <2>1, <2>2 DEF PrefersIPv6, TriedAt, ReportedAt
  <2>7. FallbackIsExhaustive'
    <3> SUFFICES ASSUME request = "all", NEW i \in Runnable, i < At PROVE Exhausted(i)'
      BY <1>1, <2>1, <2>2 DEF FallbackIsExhaustive
    <3>1. Exhausted(i)
      BY DEF PInv, Progress, FallbackIsExhaustive, Active
    <3> QED BY <1>1, <2>1, <3>1 DEF Exhausted, ReportedAt, TriedAt
  <2> QED BY <2>3, <2>4, <2>5, <2>6, <2>7 DEF Progress
<1>3. CASE ~ Accepts(ip)
  <2>1. PICK r : r = [at |-> At, family |-> FamilyOf(version), how |-> "mismatch",
                      err |-> Nil]
    OBVIOUS
  <2>8. failures' = Append(failures, r) /\ MethodFails(Failed(mctx))
    BY <1>3, <2>1 DEF MethodReturns, Report
  <2>2. FamilyOf(version) \in Families \cup {""}
    BY DEF PInv, Progress, Types, Versions, FamilyOf, Families
  <2>3. r \in FailureType /\ r.at = At /\ r.how = "mismatch"
    <3>1. Nil \in ContextErrors
      BY DEF ContextErrors
    <3> QED BY <2>1, <2>2, <3>1, AtFacts
  <2>4. failures \in Seq(FailureType)
    BY DEF PInv, Progress, Types
  <2>5. /\ failures' \in Seq(FailureType) /\ r \in ReportedAt(r.at)'
        /\ \A i : ReportedAt(i) \subseteq ReportedAt(i)' /\ TriedAt(i) \subseteq TriedAt(i)'
    BY <2>8, <2>3, <2>4, ReportFacts
  <2>6. Exhausted(At)'
    <3>1. At' = r.at
      BY <1>1, <2>3 DEF At
    <3> QED BY <2>3, <2>5, <3>1 DEF Exhausted
  <2>7. Failed(mctx) \in ResultType /\ Failed(mctx).status # "found"
    BY DEF Failed, TimedOut, NoResult, ResultType, Versions
  <2> QED BY <2>8, <2>5, <2>6, <2>7, MethodFailsProgress
<1> QED BY <1>2, <1>3

\* A step within a method.
LEMMA WithinProgress ==
  ASSUME PInv, Active, Active', UNCHANGED <<fixed, over, next, methodsLeft, method, result>>,
         budget' \in Int, until' \in Int, failures' \in Seq(FailureType),
         \A i : ReportedAt(i) \subseteq ReportedAt(i)' /\ TriedAt(i) \subseteq TriedAt(i)',
         pc' = "custom" => Kind = "custom",
         pc' \in {"rounds", "granted", "racing"} => Kind # "custom",
         RoundsOK'
  PROVE  Progress'
<1>1. UNCHANGED <<client, request, version>> /\ result = NoResult
  BY DEF fixed, Active, PInv, IInv, NotYet
<1>2. Runnable' = Runnable /\ At' = At /\ Left' = Left /\ Discoverers' = Discoverers
      /\ Kind' = Kind
  BY <1>1 DEF Runnable, Entries, Discoverers, At, Left, Kind
<1>3. Types'
  BY <1>1 DEF PInv, Progress, Types, FailureType, ResultType, Active
<1>4. LoopOK'
  BY <1>1, <1>2 DEF PInv, Progress, LoopOK, Active
<1>5. LoopBehind' /\ PrefersIPv6'
  BY <1>1 DEF LoopBehind, PrefersIPv6, NoResult, Active
<1>6. FallbackIsExhaustive'
  <2> SUFFICES ASSUME request = "all", NEW i \in Runnable, i < At PROVE Exhausted(i)'
    BY <1>1, <1>2 DEF FallbackIsExhaustive
  <2>1. Exhausted(i)
    BY DEF PInv, Progress, FallbackIsExhaustive, Active
  <2> QED BY <2>1, ExhaustedStays
<1> QED BY <1>3, <1>4, <1>5, <1>6 DEF Progress

LEMMA GrantedFacts ==
  ASSUME PInv, rounds # <<>>, Granted.ok
  PROVE  Granted.budget \in Nat
<1>1. mctx \in Contexts /\ now \in Nat /\ client \in Clients
      /\ Len(rounds) \in {0, 1, 2}
  BY DEF PInv, IInv, ContextsOK, Progress, RoundsOK
<1>2. client.attemptTimeout \in Nat
  BY <1>1, ClientFacts
<1>3. mctx.deadline # NoDeadline => Share(mctx, now, Len(rounds)) \in Int
  BY <1>1 DEF Contexts, Deadlines, Share, AtLeastOne
<1> QED BY <1>1, <1>2, <1>3, DefaultAttemptTimeoutAssumption
        DEF Granted, AttemptBudget, Refused

LEMMA StepInvoke == ASSUME PInv, Invoke PROVE Progress'
<1>1. /\ pc = "invoke" /\ UNCHANGED <<fixed, over, next, methodsLeft, method, result>>
      /\ budget' = budget /\ until' = until /\ failures' = failures
      /\ \/ Kind = "custom" /\ pc' = "custom" /\ rounds' = rounds
         \/ /\ Kind # "custom" /\ pc' = "rounds"
            /\ rounds' = IF client.targets[method] = 0 THEN <<>> ELSE FamiliesFor(version)
  BY DEF Invoke
<1>2. Active /\ Active'
  BY <1>1 DEF Active
<1>3. UNCHANGED <<client, request, version>>
  BY <1>1 DEF fixed
<1>4. FamiliesFor(version)' = FamiliesFor(version)
      /\ FamiliesFor(version) \in {<<"6", "4">>, <<"4">>, <<"6">>}
  BY <1>3, FamiliesForFacts DEF PInv, Progress, Types
<1>5. RoundsOK'
  BY <1>1, <1>3, <1>4 DEF PInv, Progress, RoundsOK, Pending
<1>6. \A i : ReportedAt(i) \subseteq ReportedAt(i)' /\ TriedAt(i) \subseteq TriedAt(i)'
  BY <1>1 DEF ReportedAt, TriedAt
<1>7. budget' \in Int /\ until' \in Int /\ failures' \in Seq(FailureType)
  BY <1>1 DEF PInv, Progress, Types
<1> QED BY <1>1, <1>2, <1>5, <1>6, <1>7, WithinProgress

\* A step on the way to the race, which neither reports nor drops anything.
LEMMA ToTheRace ==
  ASSUME PInv, UNCHANGED <<fixed, over, next, methodsLeft, method, rounds, failures, result>>,
         pc \in {"rounds", "granted"}, pc' \in {"granted", "racing"}, rounds # <<>>,
         budget' \in Int, until' \in Int
  PROVE  Progress'
<1>1. Active /\ Active' /\ Kind # "custom"
  BY DEF Active, PInv, Progress, LoopOK
<1>2. UNCHANGED <<client, request, version>>
  BY DEF fixed
<1>3. RoundsOK'
  BY <1>2 DEF PInv, Progress, RoundsOK, Pending, TriedAt, ReportedAt, At
<1>4. \A i : ReportedAt(i) \subseteq ReportedAt(i)' /\ TriedAt(i) \subseteq TriedAt(i)'
  BY DEF ReportedAt, TriedAt
<1>5. failures' \in Seq(FailureType)
  BY DEF PInv, Progress, Types
<1>6. UNCHANGED <<fixed, over, next, methodsLeft, method, result>>
  OBVIOUS
<1> QED BY <1>1, <1>3, <1>4, <1>5, <1>6, WithinProgress

LEMMA StepRoundGranted == ASSUME PInv, RoundGranted PROVE Progress'
<1>1. /\ pc = "rounds" /\ pc' = "granted" /\ rounds # <<>> /\ Granted.ok
      /\ UNCHANGED <<fixed, over, next, methodsLeft, method, rounds, failures, result>>
      /\ until' = until /\ budget' = Granted.budget
  BY DEF RoundGranted
<1>2. budget' \in Int
  BY <1>1, GrantedFacts
<1>3. until' \in Int
  BY <1>1 DEF PInv, Progress, Types
<1> QED BY <1>1, <1>2, <1>3, ToTheRace

LEMMA LatestType ==
  ASSUME PInv, NEW end \in Int
  PROVE  Latest(end) \in Int
BY DEF PInv, Progress, Types, Latest

LEMMA StepRoundStarts == ASSUME PInv, RoundStarts PROVE Progress'
<1>1. /\ pc = "granted" /\ pc' = "racing" /\ budget' = budget
      /\ UNCHANGED <<fixed, over, next, methodsLeft, method, rounds, failures, result>>
      /\ until' = Latest(IF mctx.err = Nil THEN RoundDeadline ELSE now)
  BY DEF RoundStarts
<1>2. budget' \in Int /\ rounds # <<>>
  BY <1>1 DEF PInv, Progress, Types, RoundsOK
<1>3. now \in Int /\ RoundDeadline \in Int
  <2>1. mctx \in Contexts /\ now \in Nat /\ budget \in Int
    BY DEF PInv, IInv, ContextsOK, Progress, Types
  <2> QED BY <2>1 DEF RoundDeadline, WithTimeout, Contexts, Deadlines
<1>4. until' \in Int
  BY <1>1, <1>3, LatestType
<1> QED BY <1>1, <1>2, <1>4, ToTheRace

\* What a report of the method that runs does.
LEMMA ReportProgress ==
  ASSUME PInv, UNCHANGED <<fixed, next>>,
         NEW family \in Families \cup {""}, NEW err \in ContextErrors,
         NEW how \in {"tried", "refused", "custom", "mismatch"},
         Report(family, how, err)
  PROVE  /\ failures' \in Seq(FailureType)
         /\ \A i : ReportedAt(i) \subseteq ReportedAt(i)' /\ TriedAt(i) \subseteq TriedAt(i)'
         /\ At' = At
         /\ how = "tried" => family \in TriedAt(At)'
         /\ \E f \in ReportedAt(At)' : f.how = how
<1>1. PICK r : r = [at |-> At, family |-> family, how |-> how, err |-> err]
  OBVIOUS
<1>2. failures' = Append(failures, r)
  BY <1>1 DEF Report
<1>3. r \in FailureType
  BY <1>1, AtFacts
<1>4. r.at = At /\ r.how = how /\ r.family = family
  BY <1>1
<1>5. failures \in Seq(FailureType)
  BY DEF PInv, Progress, Types
<1>6. /\ failures' \in Seq(FailureType)
      /\ \A i : ReportedAt(i) \subseteq ReportedAt(i)' /\ TriedAt(i) \subseteq TriedAt(i)'
      /\ r \in ReportedAt(r.at)'
      /\ r.how = "tried" => r.family \in TriedAt(r.at)'
  BY <1>2, <1>3, <1>5, ReportFacts
<1>7. At' = At
  BY DEF At, fixed
<1>8. how = "tried" => family \in TriedAt(At)'
  BY <1>4, <1>6, <1>7
<1>9. \E f \in ReportedAt(At)' : f.how = how
  BY <1>4, <1>6, <1>7
<1> QED BY <1>6, <1>7, <1>8, <1>9

LEMMA StepRoundRefused == ASSUME PInv, RoundRefused PROVE Progress'
<1>1. /\ pc = "rounds" /\ pc' = "rounds" /\ rounds # <<>> /\ rounds' = <<>>
      /\ UNCHANGED <<fixed, over, next, methodsLeft, method, result>>
      /\ budget' = budget /\ until' = until
      /\ Report(Head(rounds), "refused", NoBudgetError(mctx))
  BY DEF RoundRefused
<1>2. Active /\ Active' /\ Kind # "custom"
  BY <1>1 DEF Active, PInv, Progress, LoopOK
<1>3. Head(rounds) \in Families \cup {""} /\ NoBudgetError(mctx) \in ContextErrors
  <2>1. Head(rounds) \in {"4", "6"}
    BY <1>1 DEF PInv, Progress, RoundsOK
  <2>2. mctx \in Contexts
    BY DEF PInv, IInv, ContextsOK
  <2>3. NoBudgetError(mctx) \in ContextErrors
    BY <2>2 DEF NoBudgetError, Contexts, ContextErrors
  <2> QED BY <2>1, <2>3 DEF Families
<1>4. /\ failures' \in Seq(FailureType) /\ At' = At
      /\ \A i : ReportedAt(i) \subseteq ReportedAt(i)' /\ TriedAt(i) \subseteq TriedAt(i)'
      /\ \E f \in ReportedAt(At)' : f.how = "refused"
  BY <1>1, <1>3, ReportProgress
<1>5. RoundsOK'
  BY <1>1, <1>4 DEF RoundsOK
<1>6. budget' \in Int /\ until' \in Int
  BY <1>1 DEF PInv, Progress, Types
<1> QED BY <1>1, <1>2, <1>4, <1>5, <1>6, WithinProgress

LEMMA StepRoundLoses == ASSUME PInv, RoundLoses PROVE Progress'
<1>1. /\ pc = "racing" /\ pc' = "rounds" /\ rounds # <<>> /\ rounds' = Tail(rounds)
      /\ UNCHANGED <<fixed, over, next, methodsLeft, method, result>>
      /\ budget' = budget /\ until' = until
      /\ Report(Head(rounds), "tried", Nil)
  BY DEF RoundLoses, RoundsAfterLoss, PInv, Progress, RoundsOK
<1>2. Active /\ Active' /\ Kind # "custom"
  BY <1>1 DEF Active, PInv, Progress, LoopOK
<1>3. rounds \in {<<"4">>, <<"6">>, <<"6", "4">>}
  BY <1>1 DEF PInv, Progress, RoundsOK
<1>4. Head(rounds) \in Families \cup {""} /\ Nil \in ContextErrors
  <2>1. Head(rounds) \in {"4", "6"}
    BY <1>3
  <2> QED BY <2>1 DEF Families, ContextErrors
<1>5. /\ failures' \in Seq(FailureType) /\ At' = At
      /\ \A i : ReportedAt(i) \subseteq ReportedAt(i)' /\ TriedAt(i) \subseteq TriedAt(i)'
      /\ Head(rounds) \in TriedAt(At)'
  BY <1>1, <1>4, ReportProgress
<1>6. Tail(rounds) \in {<<>>, <<"4">>} /\ Pending = {Head(rounds)} \cup Pending'
  <2>1. {rounds[j] : j \in DOMAIN rounds}
          = {Head(rounds)} \cup {Tail(rounds)[j] : j \in DOMAIN Tail(rounds)}
    BY <1>3, FamiliesForFacts
  <2> QED BY <1>1, <1>3, <2>1, FamiliesForFacts DEF Pending
<1>7. RoundsOK'
  <2>1. \A m \in DOMAIN FamiliesFor(version) :
          FamiliesFor(version)[m] \in TriedAt(At) \cup Pending
    BY <1>1 DEF PInv, Progress, RoundsOK
  <2>2. TriedAt(At) \subseteq TriedAt(At)'
    <3>1. PICK a : a = At
      OBVIOUS
    <3>2. TriedAt(a) \subseteq TriedAt(a)' /\ a = At'
      BY <1>5, <3>1
    <3> QED BY <3>1, <3>2 DEF TriedAt, ReportedAt
  <2>3. \A m \in DOMAIN FamiliesFor(version) :
          FamiliesFor(version)[m] \in TriedAt(At)' \cup Pending'
    BY <1>5, <1>6, <2>1, <2>2
  <2>4. version' = version
    BY <1>1 DEF fixed
  <2> QED BY <1>1, <1>6, <2>3, <2>4 DEF RoundsOK
<1>8. budget' \in Int /\ until' \in Int
  BY <1>1 DEF PInv, Progress, Types
<1> QED BY <1>1, <1>2, <1>5, <1>7, <1>8, WithinProgress

LEMMA StepRoundWins == ASSUME PInv, RoundWins PROVE Progress'
<1>1. PICK ip \in IPs : ~ FamilyMismatch(ip, Head(rounds)) /\ MethodReturns(ip, VersionOf(ip))
  BY DEF RoundWins
<1>2. /\ pc = "racing" /\ rounds' = <<>>
      /\ UNCHANGED <<fixed, over, next, methodsLeft, method, budget, until>>
  BY DEF RoundWins
<1>3. Active /\ VersionOf(ip) \in Versions /\ ip \in IPs \cup {NoIP}
  BY <1>2 DEF Active, VersionOf, Versions
<1>4. ASSUME version = "Any", To4(ip) PROVE "6" \in TriedAt(At)
  <2>1. Head(rounds) # "6"
    BY <1>1, <1>4 DEF FamilyMismatch
  <2>2. "6" \notin Pending
    <3>1. rounds = <<"4">>
      BY <1>2, <2>1, FamiliesForFacts DEF PInv, Progress, RoundsOK
    <3> QED BY <3>1 DEF Pending
  <2>3. /\ rounds # <<>>
        /\ \A m \in DOMAIN FamiliesFor(version) :
             FamiliesFor(version)[m] \in TriedAt(At) \cup Pending
    BY <1>2 DEF PInv, Progress, RoundsOK
  <2>4. FamiliesFor(version) = <<"6", "4">>
    BY <1>4, FamiliesForFacts
  <2> QED BY <2>2, <2>3, <2>4
<1> QED BY <1>1, <1>2, <1>3, <1>4, MethodReturnsProgress

LEMMA StepMethodExhausted == ASSUME PInv, MethodExhausted PROVE Progress'
<1>1. /\ pc = "rounds" /\ rounds = <<>> /\ rounds' = <<>> /\ failures' = failures
      /\ UNCHANGED <<fixed, over, next, methodsLeft, method, budget, until>>
      /\ MethodFails(Failed(mctx))
  BY DEF MethodExhausted
<1>2. Active /\ Kind # "custom"
  BY <1>1 DEF Active, PInv, Progress, LoopOK
<1>3. Failed(mctx) \in ResultType /\ Failed(mctx).status # "found"
  BY DEF Failed, TimedOut, NoResult, ResultType, Versions
<1>4. /\ failures' \in Seq(FailureType)
      /\ \A i : ReportedAt(i) \subseteq ReportedAt(i)' /\ TriedAt(i) \subseteq TriedAt(i)'
  BY <1>1 DEF PInv, Progress, Types, ReportedAt, TriedAt
<1>5. ASSUME request = "all" PROVE Exhausted(At)
  <2>1. client.methods[At] = method
    BY <1>2, <1>5 DEF PInv, Progress, LoopOK
  <2>2. Pending = {}
    BY <1>1 DEF Pending
  <2>3. \/ \A m \in DOMAIN FamiliesFor(version) :
             FamiliesFor(version)[m] \in TriedAt(At)
        \/ client.targets[method] = 0
        \/ \E f \in ReportedAt(At) : f.how = "refused"
    BY <1>1, <2>2 DEF PInv, Progress, RoundsOK
  <2> QED BY <1>2, <2>1, <2>3 DEF Exhausted, Kind
<1>6. request = "all" => Exhausted(At)'
  BY <1>1, <1>5 DEF Exhausted, ReportedAt, TriedAt, At, fixed
<1> QED BY <1>1, <1>2, <1>3, <1>4, <1>6, MethodFailsProgress

LEMMA StepCustomReturns == ASSUME PInv, CustomReturns PROVE Progress'
<1>1. PICK r \in CustomResults : MethodReturns(r.ip, r.version)
  BY DEF CustomReturns
<1>2. /\ pc = "custom" /\ rounds' = rounds
      /\ UNCHANGED <<fixed, over, next, methodsLeft, method, budget, until>>
  BY DEF CustomReturns
<1>3. Active /\ Kind = "custom"
  BY <1>2 DEF Active, PInv, Progress, LoopOK
<1>4. r.ip \in IPs \cup {NoIP} /\ r.version \in Versions
  BY DiscoveryAssumption
<1>5. rounds' \in {<<>>, <<"4">>, <<"6">>, <<"6", "4">>}
  BY <1>2 DEF PInv, Progress, RoundsOK
<1> QED BY <1>1, <1>2, <1>3, <1>4, <1>5, MethodReturnsProgress

LEMMA StepCustomFails == ASSUME PInv, CustomFails PROVE Progress'
<1>1. PICK error : error = [NoResult EXCEPT !.status = "foreign"]
  OBVIOUS
<1>2. /\ pc = "custom" /\ rounds' = rounds /\ Report("", "custom", Nil)
      /\ UNCHANGED <<fixed, over, next, methodsLeft, method, budget, until>>
      /\ MethodFails(error)
  BY <1>1 DEF CustomFails
<1>3. error \in ResultType /\ error.status # "found"
  BY <1>1 DEF NoResult, ResultType, Versions
<1>4. Active
  BY <1>2 DEF Active
<1>5. /\ failures' \in Seq(FailureType) /\ At' = At
      /\ \A i : ReportedAt(i) \subseteq ReportedAt(i)' /\ TriedAt(i) \subseteq TriedAt(i)'
      /\ \E f \in ReportedAt(At)' : f.how = "custom"
  <2>1. Nil \in ContextErrors
    BY DEF ContextErrors
  <2> QED BY <1>2, <2>1, ReportProgress
<1>6. Exhausted(At)'
  BY <1>5 DEF Exhausted
<1>7. rounds' \in {<<>>, <<"4">>, <<"6">>, <<"6", "4">>}
  BY <1>2 DEF PInv, Progress, RoundsOK
<1> QED BY <1>2, <1>3, <1>4, <1>5, <1>6, <1>7, MethodFailsProgress

LEMMA StepPInv == PInv /\ [Next]_vars => PInv'
<1> SUFFICES ASSUME PInv, [Next]_vars PROVE Progress'
  BY StepIInv DEF PInv
<1>1. CASE StartAll \/ StartOne \/ LoopEnds \/ SkipMethod \/ StartMethod
  BY <1>1, StepStartAll, StepStartOne, StepLoopEnds, StepSkipMethod, StepStartMethod
<1>2. CASE Invoke \/ RoundRefused \/ RoundGranted \/ RoundStarts \/ RoundLoses
  BY <1>2, StepInvoke, StepRoundRefused, StepRoundGranted, StepRoundStarts, StepRoundLoses
<1>3. CASE MethodExhausted \/ RoundWins \/ CustomReturns \/ CustomFails
  BY <1>3, StepMethodExhausted, StepRoundWins, StepCustomReturns, StepCustomFails
<1>4. CASE CallerCancels \/ CallFires \/ MethodFires \/ Tick \/ UNCHANGED vars
  <2>1. UNCHANGED <<fixed, pc, next, methodsLeft, method, rounds, budget, failures, result>>
    BY <1>4 DEF CallerCancels, CallFires, MethodFires, Tick, vars, fixed
  <2>2. now \in Nat /\ over \in Nat /\ until \in Int
    BY DEF PInv, IInv, ContextsOK, Progress, Types
  <2>3. over' \in {over, now} /\ until' \in {until, Latest(now)}
    BY <1>4 DEF CallerCancels, CallFires, CallEnds, MethodFires, Tick, vars
  <2>4. Latest(now) \in Int
    BY <2>2, LatestType
  <2> QED BY <2>1, <2>2, <2>3, <2>4, StillProgress
<1> QED BY <1>1, <1>2, <1>3, <1>4 DEF Next, Program, RoundEnds, Terminated

\* At each point of the two loops of a call, what they have behind them, what the
\* failures say of it and what is left to start fit together.
THEOREM ProgressInvariance == Spec => []PInv
<1>1. Init => PInv
  BY InitIInv, InitProgress DEF PInv
<1> QED BY <1>1, StepPInv, PTL DEF Spec

\* Every state of a call is well typed.
THEOREM DiscoveryTypes == Spec => []TypeOK
<1>1. ASSUME PInv, OvertimeOK PROVE TypeOK
  <2>1. methodsLeft \in Nat
    <3>1. client \in Clients
      BY <1>1 DEF PInv, IInv, ContextsOK
    <3>2. IsFiniteSet(Left)
      BY <3>1, ClientFacts, FS_Subset DEF Left
    <3> QED BY <1>1, <3>2, FS_CardinalityType DEF PInv, Progress, LoopOK
  <2>2. rounds \in Seq(Families)
    <3>1. rounds \in {<<>>, <<"4">>, <<"6">>, <<"6", "4">>}
      BY <1>1 DEF PInv, Progress, RoundsOK
    <3>2. "4" \in Families /\ "6" \in Families
      BY DEF Families
    <3>3. \A x, y \in Families : <<>> \in Seq(Families) /\ <<x>> \in Seq(Families)
                                /\ <<x, y>> \in Seq(Families)
      OBVIOUS
    <3> QED BY <3>1, <3>2, <3>3
  <2>3. overtime \in Nat
    BY <1>1 DEF OvertimeOK
  <2> QED BY <1>1, <2>1, <2>2, <2>3 DEF PInv, IInv, ContextsOK, Progress, Types,
          FailureType, ResultType, TypeOK
<1> QED BY <1>1, ProgressInvariance, OvertimeInvariance, PTL

\* A built-in method never hands an IPv4 address to a call that takes either
\* before its IPv6 round was lost.
THEOREM IPv6First == Spec => []PrefersIPv6
BY ProgressInvariance, PTL DEF PInv, Progress

\* However many methods a client has, and whichever of them have no discoverer:
\* the loop reaches a method, and a method answers, only when each method
\* before it was asked all it could be.
THEOREM NothingIsPassedOver == Spec => []FallbackIsExhaustive
BY ProgressInvariance, PTL DEF PInv, Progress

-----------------------------------------------------------------------------
(* The clock.                                                              *)

\* Two units for each of L out of x: a share has two, and leaves two for each
\* of the others.
LEMMA ShareOfTwo ==
  ASSUME NEW x \in Nat, NEW L \in Nat \ {0}, x >= 2 * L
  PROVE  /\ x \div L \in Nat /\ x \div L >= 2 /\ x \div L <= x
         /\ x - (x \div L) >= 2 * (L - 1)
<1> DEFINE q == x \div L
           m == x % L
<1>1. q \in Nat /\ m \in 0 .. L - 1 /\ x = L * q + m
  OBVIOUS
<1> HIDE DEF q, m
<1>2. q >= 2
  <2> SUFFICES ASSUME q <= 1 PROVE FALSE
    BY <1>1
  <2>1. L * q <= L
    <3>1. q = 0 \/ q = 1
      BY <1>1
    <3> QED BY <3>1
  <2> QED BY <1>1, <2>1
<1>3. (L - 1) * q >= (L - 1) * 2 /\ (L - 1) * q = L * q - q /\ L * q \in Nat
  <2>1. \A a, b, c \in Nat : a <= b => c * a <= c * b
    OBVIOUS
  <2> QED BY <1>1, <1>2, <2>1, L - 1 \in Nat
<1>4. q <= x /\ x - q >= 2 * (L - 1)
  BY <1>1, <1>3
<1> QED BY <1>1, <1>2, <1>4 DEF q

LEMMA TimeFacts ==
  ASSUME PInv
  PROVE  /\ call \in [deadline : Int \cup {NoDeadline}, err : {Nil, Canceled, DeadlineExceeded}]
         /\ mctx \in [deadline : Int \cup {NoDeadline}, err : {Nil, Canceled, DeadlineExceeded}]
         /\ now \in Nat /\ over \in Nat /\ budget \in Int /\ until \in Int
         /\ methodsLeft \in Nat /\ client \in Clients /\ client.attemptTimeout \in Nat \ {0}
         /\ NoDeadline \notin Int
<1>1. /\ call \in Contexts /\ mctx \in Contexts /\ now \in Nat /\ client \in Clients
      /\ over \in Nat /\ budget \in Int /\ until \in Int
  BY DEF PInv, IInv, ContextsOK, Progress, Types
<1>2. methodsLeft \in Nat
  <2>1. IsFiniteSet(Left)
    BY <1>1, ClientFacts, FS_Subset DEF Left
  <2> QED BY <2>1, FS_CardinalityType DEF PInv, Progress, LoopOK
<1> QED BY <1>1, <1>2, ClientFacts, NoDeadlineAssumption
       DEF Contexts, Deadlines, ContextErrors

\* Nobody gets calmer, or more time, by what happens later.
LEMMA CalmBefore ==
  ASSUME UNCHANGED fixed, call'.deadline = call.deadline, canceled => canceled', Calm'
  PROVE  Calm
BY DEF fixed, Calm, EnoughTime, CountRunnable, AllObey, Runnable, Entries, Discoverers

\* A step that starts no method leaves the contexts of the one that runs alone.
LEMMA OnwardTiming ==
  ASSUME TimesOK, LastOwnsRemainder, Quiet, pc # "start", pc' # "start",
         Active' => Active /\ mctx' = mctx /\ next' = next
  PROVE  TimesOK' /\ LastOwnsRemainder'
<1>1. TimesOK'
  BY DEF TimesOK, Quiet
<1>2. LastOwnsRemainder'
  BY DEF LastOwnsRemainder, Quiet, fixed, Active, At, Runnable, Entries, Discoverers
<1> QED BY <1>1, <1>2

LEMMA NotStarved ==
  ASSUME result' = NoResult \/ result'.status = "found" \/ request' # "all"
  PROVE  QueriesNeverStarve'
BY DEF QueriesNeverStarve, NoResult

LEMMA StillNoneRefused ==
  ASSUME NoneRefused, Calm' => Calm, failures \in Seq(FailureType),
         \/ failures' = failures
         \/ \E r \in FailureType : r.how # "refused" /\ failures' = Append(failures, r)
  PROVE  NoneRefused'
<1> SUFFICES ASSUME Calm', NEW j \in DOMAIN failures' PROVE failures'[j].how # "refused"
  BY DEF NoneRefused
<1>1. \A l \in DOMAIN failures : failures[l].how # "refused"
  BY DEF NoneRefused
<1>2. CASE failures' = failures
  BY <1>1, <1>2
<1>3. ASSUME NEW r \in FailureType, r.how # "refused", failures' = Append(failures, r)
      PROVE  failures'[j].how # "refused"
  BY <1>1, <1>3, ReportFacts
<1> QED BY <1>2, <1>3

LEMMA ReportNotRefused ==
  ASSUME PInv, NEW family \in Families \cup {""}, NEW how \in {"tried", "custom", "mismatch"},
         Report(family, how, Nil)
  PROVE  \E r \in FailureType : r.how # "refused" /\ failures' = Append(failures, r)
<1>1. PICK r : r = [at |-> At, family |-> family, how |-> how, err |-> Nil]
  OBVIOUS
<1>2. failures' = Append(failures, r) /\ r.how # "refused"
  BY <1>1 DEF Report
<1>3. r \in FailureType
  <2>1. Nil \in ContextErrors
    BY DEF ContextErrors
  <2> QED BY <1>1, <2>1, AtFacts
<1> QED BY <1>2, <1>3

LEMMA InitTiming == Init => Timing
<1> SUFFICES ASSUME Init PROVE Timing
  OBVIOUS
<1>1. /\ pc = "start" /\ now = 0 /\ failures = <<>> /\ result = NoResult
  BY DEF Init
<1>2. call.err = Nil
  BY DEF Init, Background
<1>3. TimesOK
  BY <1>1, <1>2, Errors DEF TimesOK, Active
<1>4. GrantOK /\ UntilOK /\ LastOwnsRemainder /\ Ahead /\ NoneRefused
  BY <1>1 DEF GrantOK, UntilOK, LastOwnsRemainder, Ahead, Active, NoneRefused
<1>5. QueriesNeverStarve
  BY <1>1 DEF QueriesNeverStarve, NoResult
<1> QED BY <1>3, <1>4, <1>5 DEF Timing

\* A call that starts has all the time its context and the client's cap allow.
LEMMA StartAllTiming == ASSUME PInv, Timing, StartAll PROVE Timing'
<1>1. /\ pc = "start" /\ pc' = "loop" /\ request = "all" /\ now' = now
      /\ call' = CallContext(call, now, client.timeout)
      /\ methodsLeft' = CountRunnable
      /\ UNCHANGED <<client, request, version, canceled, failures, result>>
  BY DEF StartAll, fixed
<1>2. now = 0 /\ failures = <<>> /\ result = NoResult
  BY <1>1 DEF Timing, TimesOK, PInv, Progress, LoopOK, IInv, NotYet
<1>3. call'.err = call.err
  BY <1>1, CallContextFacts DEF PInv, IInv
<1>4. TimesOK' /\ GrantOK' /\ UntilOK' /\ LastOwnsRemainder'
  BY <1>1, <1>3 DEF Timing, TimesOK, GrantOK, UntilOK, LastOwnsRemainder, Active
<1>5. Ahead'
  <2> SUFFICES ASSUME Calm', call'.deadline # NoDeadline
               PROVE  call'.deadline - now' >= 2 * methodsLeft'
    BY <1>1 DEF Ahead, Active
  <2>1. call'.deadline >= 2 * CountRunnable'
    BY DEF Calm, EnoughTime
  <2>2. CountRunnable' = CountRunnable
    BY <1>1 DEF CountRunnable, Runnable, Entries, Discoverers
  <2>3. call'.deadline \in Int /\ methodsLeft' \in Nat
    <3>1. call' \in Contexts /\ methodsLeft' \in Nat
      BY <1>1, CallContextFacts, RunnableCount DEF PInv, IInv, ContextsOK
    <3> QED BY <3>1 DEF Contexts, Deadlines
  <2> QED BY <1>1, <1>2, <2>1, <2>2, <2>3
<1>6. NoneRefused'
  BY <1>1, <1>2 DEF NoneRefused
<1>7. QueriesNeverStarve'
  BY <1>1, <1>2, NotStarved
<1> QED BY <1>4, <1>5, <1>6, <1>7 DEF Timing

LEMMA StartOneTiming == ASSUME PInv, Timing, StartOne PROVE Timing'
<1>1. /\ pc = "start" /\ request # "all" /\ request' # "all" /\ pc' # "start"
      /\ pc' \in {"invoke", "done"}
      /\ UNCHANGED <<now, canceled, client, request>>
      /\ \/ /\ call' = CallContext(call, now, client.timeout) /\ mctx' = call'
         \/ call' = call /\ pc' = "done"
  BY DEF StartOne, fixed
<1>2. /\ call'.err = call.err
      /\ call'.err = DeadlineExceeded => call' = call
      /\ call' \in Contexts
  BY <1>1, CallContextFacts DEF PInv, IInv, ContextsOK
<1>3. TimesOK'
  <2>1. call'.err = Canceled => canceled'
    BY <1>1, <1>2 DEF Timing, TimesOK
  <2>2. ASSUME Active' PROVE mctx' = call'
    BY <1>1, <2>2 DEF Active
  <2>3. call'.err # Nil /\ ~ canceled' => call'.deadline # NoDeadline /\ call'.deadline <= now'
    BY <1>1, <1>2, <2>1 DEF PInv, IInv, EndsOK, Contexts, ContextErrors
  <2>4. call'.deadline # NoDeadline => call'.deadline <= call'.deadline
    BY <1>2 DEF Contexts, Deadlines
  <2> QED BY <1>1, <2>1, <2>2, <2>3, <2>4 DEF TimesOK
<1>4. GrantOK' /\ UntilOK' /\ LastOwnsRemainder' /\ Ahead' /\ NoneRefused' /\ QueriesNeverStarve'
  BY <1>1, NotStarved DEF GrantOK, UntilOK, LastOwnsRemainder, Ahead, Calm, NoneRefused
<1> QED BY <1>3, <1>4 DEF Timing

\* When the loop ends, each runnable method is behind it, or its time is over.
LEMMA LoopEndsTiming == ASSUME PInv, Timing, LoopEnds PROVE Timing'
<1>1. /\ pc = "loop" /\ pc' = "done" /\ Quiet /\ UNCHANGED <<next, methodsLeft, failures>>
      /\ call.err # Nil \/ next > Len(client.methods)
      /\ UNCHANGED <<client, version, request, call, now, canceled>>
  BY DEF LoopEnds, Quiet, fixed
<1>2. TimesOK' /\ LastOwnsRemainder' /\ GrantOK' /\ UntilOK' /\ Ahead'
  BY <1>1, OnwardTiming DEF Timing, Active, GrantOK, UntilOK, Ahead
<1>3. Calm' = Calm /\ failures \in Seq(FailureType)
  BY <1>1 DEF Calm, EnoughTime, AllObey, CountRunnable, Runnable, Entries, Discoverers,
              PInv, Progress, Types
<1>4. NoneRefused'
  BY <1>1, <1>3, StillNoneRefused DEF Timing
<1>5. QueriesNeverStarve'
  <2> SUFFICES ASSUME Calm PROVE (Refusals = {} /\ \A i \in Runnable : Exhausted(i))'
    BY <1>3 DEF QueriesNeverStarve, Calm, AllObey
  <2>1. Refusals' = {}
    BY <1>1 DEF Timing, NoneRefused, Refusals
  <2>2. \A i \in Runnable : i < next
    <3>1. /\ next \in Int /\ Runnable \subseteq 1 .. Len(client.methods)
          /\ Len(client.methods) \in Nat
      BY AtFacts, ClientFacts
    <3>2. CASE next > Len(client.methods)
      BY <3>1, <3>2
    <3>3. CASE call.err # Nil
      <4>1. call.err = DeadlineExceeded
        BY <3>3, TimeFacts DEF Calm, Timing, TimesOK
      <4>2. call.deadline # NoDeadline /\ call.deadline <= now
        BY <4>1 DEF PInv, IInv, EndsOK
      <4>3. call.deadline - now >= 2 * methodsLeft
        BY <1>1, <4>2 DEF Timing, Ahead
      <4>4. methodsLeft = 0
        BY <4>2, <4>3, TimeFacts
      <4>5. Cardinality(Left) = 0 /\ IsFiniteSet(Left)
        BY <1>1, <4>4, AtFacts, ClientFacts, FS_Subset
           DEF PInv, Progress, LoopOK, IInv, OneContext, Left
      <4>6. Left = {}
        BY <4>5, FS_EmptySet
      <4> QED BY <3>1, <4>6 DEF Left
    <3> QED BY <1>1, <3>2, <3>3
  <2>3. \A i \in Runnable : Exhausted(i)
    BY <1>1, <2>2 DEF PInv, Progress, LoopBehind
  <2>4. \A i \in Runnable' : Exhausted(i)'
    BY <1>1, <2>3 DEF Exhausted, ReportedAt, TriedAt, Runnable, Entries, Discoverers
  <2> QED BY <2>1, <2>4
<1> QED BY <1>2, <1>4, <1>5 DEF Timing

LEMMA SkipMethodTiming == ASSUME PInv, Timing, SkipMethod PROVE Timing'
<1>1. /\ pc = "loop" /\ pc' = "loop" /\ Quiet /\ UNCHANGED <<methodsLeft, failures, result>>
      /\ UNCHANGED <<client, version, request, call, now, canceled>>
  BY DEF SkipMethod, Quiet, fixed
<1>2. TimesOK' /\ LastOwnsRemainder' /\ GrantOK' /\ UntilOK'
  BY <1>1, OnwardTiming DEF Timing, Active, GrantOK, UntilOK
<1>3. Calm' = Calm /\ failures \in Seq(FailureType)
  BY <1>1 DEF Calm, EnoughTime, AllObey, CountRunnable, Runnable, Entries, Discoverers,
              PInv, Progress, Types
<1>4. NoneRefused'
  BY <1>1, <1>3, StillNoneRefused DEF Timing
<1>5. Ahead'
  BY <1>1, <1>3 DEF Timing, Ahead, Active
<1>6. QueriesNeverStarve'
  BY <1>1, NotStarved DEF PInv, IInv, NotYet
<1> QED BY <1>2, <1>4, <1>5, <1>6 DEF Timing

\* A method has its share, and leaves two units for each of those behind it.
LEMMA StartMethodTiming == ASSUME PInv, Timing, StartMethod PROVE Timing'
<1>1. /\ pc = "loop" /\ pc' = "invoke" /\ call.err = Nil /\ request = "all"
      /\ mctx' = MethodContext(call, now, methodsLeft) /\ next' = next + 1
      /\ methodsLeft' = methodsLeft - 1 /\ next <= Len(client.methods)
      /\ client.methods[next] \in Discoverers
      /\ UNCHANGED <<client, version, request, call, now, canceled, failures, result>>
  BY DEF StartMethod, fixed, PInv, IInv, OneContext
<1>2. /\ call.deadline \in Int \cup {NoDeadline} /\ NoDeadline \notin Int
      /\ now \in Nat /\ methodsLeft \in Nat /\ client \in Clients
  BY TimeFacts
<1>3. /\ next \in Entries /\ next \in Runnable
      /\ methodsLeft = Cardinality(Left)
      /\ Left' = {i \in Runnable : i >= next + 1} /\ Runnable' = Runnable
  <2>1. next \in Entries
    BY <1>1, <1>2, ClientFacts DEF PInv, Progress, Types
  <2>2. next \in Runnable
    BY <1>1, <2>1 DEF Runnable
  <2>3. Runnable' = Runnable
    BY <1>1 DEF Runnable, Entries, Discoverers
  <2>4. methodsLeft = Cardinality(Left)
    BY <1>1 DEF PInv, Progress, LoopOK
  <2> QED BY <1>1, <2>1, <2>2, <2>3, <2>4 DEF Left
<1>4. Cardinality(Left') = methodsLeft - 1 /\ methodsLeft >= 1
  BY <1>2, <1>3, LeftFacts
<1>5. call.deadline = NoDeadline \/ methodsLeft < 2 => mctx' = call
  BY <1>1 DEF MethodContext
<1>6. ASSUME call.deadline # NoDeadline, methodsLeft >= 2
      PROVE  /\ mctx'.deadline \in Int /\ mctx'.deadline <= call.deadline
             /\ mctx'.err # Nil => mctx'.deadline <= now
             /\ call.deadline - now >= 2 * methodsLeft =>
                  /\ mctx'.deadline - now >= 2
                  /\ call.deadline - mctx'.deadline >= 2 * (methodsLeft - 1)
  <2> DEFINE share == (call.deadline - now) \div methodsLeft
  <2>1. share \in Int
    BY <1>2, <1>6
  <2>2. mctx' = WithTimeout(call, now, share)
    BY <1>1, <1>2, <1>6 DEF MethodContext, Share, AtLeastOne
  <2>3. ASSUME call.deadline - now >= 2 * methodsLeft
        PROVE  /\ share >= 2 /\ share <= call.deadline - now
               /\ (call.deadline - now) - share >= 2 * (methodsLeft - 1)
    <3> DEFINE x == call.deadline - now
    <3>1. x \in Nat /\ methodsLeft \in Nat \ {0} /\ x >= 2 * methodsLeft
      BY <1>2, <1>6, <2>3
    <3> HIDE DEF x
    <3>2. x \div methodsLeft >= 2 /\ x \div methodsLeft <= x
          /\ x - (x \div methodsLeft) >= 2 * (methodsLeft - 1)
      BY <3>1, ShareOfTwo
    <3> QED BY <3>2 DEF x
  <2> HIDE DEF share
  <2>4. CASE call.deadline < now + share
    <3>1. mctx' = call
      BY <1>6, <2>2, <2>4 DEF WithTimeout
    <3> QED BY <1>1, <1>2, <1>6, <2>1, <2>3, <2>4, <3>1
  <2>5. CASE ~ (call.deadline < now + share)
    <3>1. /\ mctx'.deadline = now + share
          /\ mctx'.err # Nil => share <= 0
      BY <1>1, <2>2, <2>5 DEF WithTimeout
    <3> QED BY <1>2, <1>6, <2>1, <2>3, <2>5, <3>1
  <2> QED BY <2>4, <2>5
<1>7. TimesOK'
  <2>1. CASE call.deadline = NoDeadline \/ methodsLeft < 2
    BY <1>1, <1>2, <1>5, <2>1 DEF Timing, TimesOK
  <2>2. CASE call.deadline # NoDeadline /\ methodsLeft >= 2
    BY <1>1, <1>2, <1>6, <2>2 DEF Timing, TimesOK
  <2> QED BY <1>2, <2>1, <2>2
<1>8. LastOwnsRemainder'
  <2> SUFFICES ASSUME \A i \in Runnable : i <= next PROVE mctx' = call
    <3>1. next \in Int
      BY AtFacts
    <3>2. At' = next
      BY <1>1, <3>1 DEF At
    <3> QED BY <1>1, <1>3, <3>2 DEF LastOwnsRemainder
  <2>1. \A i \in Runnable : i \in Int /\ next \in Int
    BY <1>2, <1>3, ClientFacts
  <2>2. Left' = {}
    BY <1>3, <2>1
  <2>3. methodsLeft < 2
    BY <1>2, <1>4, <2>2, FS_EmptySet
  <2> QED BY <1>5, <2>3
<1>9. Ahead'
  <2> SUFFICES ASSUME Calm', call.deadline # NoDeadline
               PROVE  /\ call.deadline - mctx'.deadline >= 2 * (methodsLeft - 1)
                      /\ mctx'.deadline - now >= 2
    BY <1>1 DEF Ahead, Active
  <2>1. Calm
    BY <1>1, CalmBefore DEF fixed
  <2>2. call.deadline - now >= 2 * methodsLeft
    BY <1>1, <2>1 DEF Timing, Ahead
  <2>3. CASE methodsLeft < 2
    <3>1. mctx' = call /\ methodsLeft = 1
      BY <1>2, <1>4, <1>5, <2>3
    <3> QED BY <1>2, <2>2, <3>1
  <2>4. CASE methodsLeft >= 2
    BY <1>6, <2>2, <2>4
  <2> QED BY <1>2, <2>3, <2>4
<1>10. GrantOK' /\ UntilOK' /\ QueriesNeverStarve'
  BY <1>1, NotStarved DEF GrantOK, UntilOK, PInv, IInv, NotYet
<1>11. NoneRefused'
  BY <1>1, CalmBefore, StillNoneRefused DEF Timing, fixed, PInv, Progress, Types
<1> QED BY <1>7, <1>8, <1>9, <1>10, <1>11 DEF Timing

\* Steps that leave the clock, the contexts and the reports alone.
LEMMA InvokeTiming == ASSUME PInv, Timing, Invoke PROVE Timing'
<1>1. /\ pc = "invoke" /\ pc' \in {"custom", "rounds"} /\ Quiet
      /\ UNCHANGED <<fixed, call, now, canceled, mctx, next, methodsLeft, failures, result>>
      /\ pc' = "rounds" => rounds' \in {<<>>, FamiliesFor(version)}
  BY DEF Invoke, Quiet, fixed
<1>2. TimesOK' /\ LastOwnsRemainder' /\ GrantOK' /\ UntilOK'
  BY <1>1, OnwardTiming DEF Timing, Active, GrantOK, UntilOK
<1>3. NoneRefused' /\ QueriesNeverStarve'
  BY <1>1, CalmBefore, StillNoneRefused, NotStarved
     DEF Timing, PInv, Progress, Types, IInv, NotYet
<1>4. Ahead'
  <2> SUFFICES ASSUME Calm', call.deadline # NoDeadline
               PROVE  /\ call.deadline - mctx.deadline >= 2 * methodsLeft
                      /\ pc' = "rounds" => mctx.deadline - now >= Len(rounds')
                      /\ pc' = "custom" => now <= mctx.deadline
    BY <1>1 DEF Ahead, Active
  <2>1. /\ call.deadline - mctx.deadline >= 2 * methodsLeft
        /\ mctx.deadline - now >= 2
    BY <1>1, CalmBefore DEF Timing, Ahead, Active
  <2>2. pc' = "rounds" => Len(rounds') \in {0, 1, 2}
    BY <1>1, FamiliesForFacts DEF PInv, Progress, Types
  <2>3. mctx.deadline \in Int /\ now \in Nat
    BY <1>1, TimeFacts DEF Timing, TimesOK, Active
  <2>4. ASSUME pc' = "rounds" PROVE mctx.deadline - now >= Len(rounds')
    <3>1. ASSUME NEW n \in {0, 1, 2} PROVE mctx.deadline - now >= n
      BY <2>1, <2>3
    <3> QED BY <2>2, <2>4, <3>1
  <2>5. now <= mctx.deadline
    BY <2>1, <2>3
  <2> QED BY <2>1, <2>4, <2>5
<1> QED BY <1>2, <1>3, <1>4 DEF Timing

\* While there is the time the invariant promises, no round is refused.
LEMMA RoundRefusedTiming == ASSUME PInv, Timing, RoundRefused PROVE Timing'
<1>1. /\ pc = "rounds" /\ pc' = "rounds" /\ Quiet /\ rounds # <<>> /\ ~ Granted.ok
      /\ UNCHANGED <<fixed, call, now, canceled, mctx, next, result>>
  BY DEF RoundRefused, Quiet, fixed
<1>2. TimesOK' /\ LastOwnsRemainder' /\ GrantOK' /\ UntilOK' /\ QueriesNeverStarve'
  BY <1>1, OnwardTiming, NotStarved DEF Timing, Active, GrantOK, UntilOK, PInv, IInv, NotYet
<1>3. ~ Calm
  <2> SUFFICES ASSUME Calm PROVE FALSE
    OBVIOUS
  <2>1. \/ mctx.err # Nil
        \/ mctx.deadline # NoDeadline /\ mctx.deadline - now <= 0
    BY <1>1 DEF Granted, AttemptBudget
  <2>2. mctx.deadline # NoDeadline /\ mctx.deadline - now <= 0
    <3>1. mctx.err # Nil => mctx.deadline # NoDeadline /\ mctx.deadline <= now
      BY <1>1 DEF Calm, Timing, TimesOK, Active
    <3> QED BY <2>1, <3>1, TimeFacts
  <2>3. call.deadline # NoDeadline
    BY <1>1, <2>2 DEF Timing, TimesOK, Active
  <2>4. mctx.deadline - now >= Len(rounds)
    BY <1>1, <2>3 DEF Timing, Ahead
  <2>5. Len(rounds) \in {1, 2}
    BY <1>1 DEF PInv, Progress, RoundsOK
  <2>6. mctx.deadline \in Int /\ now \in Nat
    BY <2>2, TimeFacts
  <2> QED BY <2>2, <2>4, <2>5, <2>6
<1>4. ~ Calm'
  BY <1>1, <1>3, CalmBefore
<1> QED BY <1>2, <1>4 DEF Timing, Ahead, NoneRefused

LEMMA MethodDeadline ==
  ASSUME PInv, TimesOK, Active, call.deadline # NoDeadline
  PROVE  mctx.deadline \in Int /\ call.deadline \in Int /\ mctx.deadline <= call.deadline
BY TimeFacts DEF TimesOK

\* What attemptBudget grants a round.
LEMMA BudgetFacts ==
  ASSUME PInv, rounds # <<>>, Granted.ok
  PROVE  LET b == Granted.budget IN
         /\ b \in Nat
         /\ b <= client.attemptTimeout \/ b = DefaultAttemptTimeout
         /\ mctx.deadline # NoDeadline /\ mctx.deadline - now >= Len(rounds) =>
              /\ b >= 1 /\ now + b <= mctx.deadline
              /\ mctx.deadline - (now + b) >= Len(rounds) - 1
<1> DEFINE b == Granted.budget
           x == mctx.deadline - now
           L == Len(rounds)
           share == Share(mctx, now, Len(rounds))
<1>1. /\ mctx.deadline \in Int \cup {NoDeadline} /\ now \in Nat
      /\ client.attemptTimeout \in Nat \ {0} /\ L \in {1, 2}
      /\ DefaultAttemptTimeout \in Nat \ {0}
  BY TimeFacts, DefaultAttemptTimeoutAssumption DEF PInv, Progress, RoundsOK
<1>2. b \in Nat
  BY GrantedFacts
<1>3. share = x \div L
  BY <1>1 DEF Share, AtLeastOne
<1>4. b = LET s == IF mctx.deadline # NoDeadline /\ share < client.attemptTimeout
                   THEN share ELSE client.attemptTimeout
          IN  IF s <= 0 THEN DefaultAttemptTimeout ELSE s
  <2> HIDE DEF share
  <2>1. client.attemptTimeout > 0 /\ client.attemptTimeout # 0
    BY <1>1
  <2> QED BY <2>1 DEF Granted, AttemptBudget, Refused, share
<1>5. b <= client.attemptTimeout \/ b = DefaultAttemptTimeout
  <2>1. mctx.deadline # NoDeadline => share \in Int
    BY <1>1, <1>3
  <2> HIDE DEF share, b
  <2> QED BY <1>1, <1>4, <2>1
<1>6. ASSUME mctx.deadline # NoDeadline, x >= L
      PROVE  b >= 1 /\ now + b <= mctx.deadline /\ mctx.deadline - (now + b) >= L - 1
  <2>1. x \in Int
    BY <1>1, <1>6
  <2>2. share \in Int /\ share >= 1 /\ x - share >= L - 1 /\ share <= x
    <3> HIDE DEF x, share, L
    <3>1. CASE L = 1
      BY <1>3, <1>6, <2>1, <3>1
    <3>2. CASE L = 2
      BY <1>3, <1>6, <2>1, <3>2
    <3> QED BY <1>1, <3>1, <3>2
  <2>3. b >= 1 /\ b <= share
    <3> HIDE DEF share, b
    <3> QED BY <1>1, <1>4, <1>6, <2>2
  <2> HIDE DEF share, b, L
  <2> QED BY <1>1, <1>2, <1>6, <2>1, <2>2, <2>3
<1> QED BY <1>2, <1>5, <1>6

LEMMA LateFacts ==
  ASSUME client \in Clients
  PROVE  Late \in Nat
<1>1. client.attemptTimeout \in Nat
  BY ClientFacts
<1> QED BY <1>1, DefaultAttemptTimeoutAssumption DEF Late

\* Late is what a socket may cost at most, for a method the call may reach.
LEMMA SocketFacts ==
  ASSUME PInv, Active, NEW b \in Nat,
         b <= client.attemptTimeout \/ b = DefaultAttemptTimeout, Kind = "stun"
  PROVE  b <= Late
<1>1. "stun" \in Reached
  BY DEF Active, Reached, Kind, PInv, Progress, LoopOK, Runnable
<1>2. client.attemptTimeout \in Nat /\ DefaultAttemptTimeout \in Nat
  BY TimeFacts, DefaultAttemptTimeoutAssumption
<1> QED BY <1>1, <1>2 DEF Late

LEMMA LateStays ==
  ASSUME fixed' = fixed
  PROVE  Late' = Late
BY DEF fixed, Late, Reached, Discoverers, Entries

LEMMA RoundGrantedTiming == ASSUME PInv, Timing, RoundGranted PROVE Timing'
<1>1. /\ pc = "rounds" /\ pc' = "granted" /\ Quiet /\ rounds # <<>> /\ Granted.ok
      /\ budget' = Granted.budget
      /\ UNCHANGED <<fixed, client, call, now, canceled, over, mctx, next, methodsLeft,
                     method, rounds, failures, result>>
  BY DEF RoundGranted, Quiet, fixed
<1>2. TimesOK' /\ LastOwnsRemainder' /\ QueriesNeverStarve' /\ NoneRefused' /\ UntilOK'
  BY <1>1, OnwardTiming, NotStarved, CalmBefore, StillNoneRefused
     DEF Timing, Active, PInv, Progress, Types, IInv, NotYet, UntilOK
<1>3. Active /\ Active'
  BY <1>1 DEF Active
<1>4. /\ budget' \in Nat
      /\ budget' <= client.attemptTimeout \/ budget' = DefaultAttemptTimeout
      /\ mctx.deadline # NoDeadline /\ mctx.deadline - now >= Len(rounds) =>
           /\ budget' >= 1 /\ now + budget' <= mctx.deadline
           /\ mctx.deadline - (now + budget') >= Len(rounds) - 1
  BY <1>1, BudgetFacts
<1>5. GrantOK'
  <2>1. Kind = "stun" => budget' <= Late
    <3>1. PICK b : b = budget'
      OBVIOUS
    <3> QED BY <1>3, <1>4, <3>1, SocketFacts
  <2>2. Kind' = Kind /\ Late' = Late
    BY <1>1, LateStays DEF Kind
  <2>3. mctx.err = Nil /\ (mctx.deadline # NoDeadline => ~ mctx.deadline - now <= 0)
    BY <1>1 DEF Granted, AttemptBudget, Refused
  <2>4. call.err = Nil
    BY <1>1, <2>3 DEF PInv, IInv, Inherited
  <2>5. mctx.deadline # NoDeadline => now < mctx.deadline
    BY <2>3, TimeFacts
  <2> QED BY <1>1, <1>4, <2>1, <2>2, <2>4, <2>5 DEF GrantOK
<1>6. Ahead'
  <2> SUFFICES ASSUME Calm, call.deadline # NoDeadline
               PROVE  /\ call.deadline - mctx.deadline >= 2 * methodsLeft
                      /\ mctx.deadline - (now + budget') >= Len(rounds) - 1
    BY <1>1, CalmBefore DEF Ahead, Active
  <2>1. mctx.deadline \in Int
    BY <1>3, MethodDeadline DEF Timing
  <2>2. /\ call.deadline - mctx.deadline >= 2 * methodsLeft
        /\ mctx.deadline - now >= Len(rounds)
    BY <1>1, <1>3 DEF Timing, Ahead
  <2> QED BY <1>4, <2>1, <2>2, TimeFacts
<1> QED BY <1>2, <1>5, <1>6 DEF Timing

\* Who ended the context of the method since the grant ended that of the call.
LEMMA EndedSinceGrant ==
  ASSUME PInv, TimesOK, GrantOK, pc = "granted"
  PROVE  mctx.err # Nil <=> call.err # Nil
<1>1. call.err # Nil => mctx.err # Nil
  BY DEF PInv, IInv, Inherited
<1>2. ASSUME mctx.err # Nil PROVE canceled
  <2> SUFFICES ASSUME ~ canceled PROVE FALSE
    OBVIOUS
  <2>1. mctx.deadline # NoDeadline /\ mctx.deadline <= now
    BY <1>2 DEF TimesOK, Active
  <2>2. now < mctx.deadline
    BY <2>1 DEF GrantOK
  <2> QED BY <2>1, <2>2, TimeFacts
<1>3. canceled => call.err # Nil
  BY Errors DEF PInv, IInv, EndsOK
<1> QED BY <1>1, <1>2, <1>3

LEMMA RoundStartsTiming == ASSUME PInv, Timing, RoundStarts PROVE Timing'
<1>1. /\ pc = "granted" /\ pc' = "racing" /\ Quiet /\ rounds # <<>>
      /\ UNCHANGED <<fixed, client, call, now, canceled, over, mctx, next, methodsLeft,
                     method, rounds, budget, failures, result>>
      /\ until' = Latest(IF mctx.err = Nil THEN RoundDeadline ELSE now)
  BY DEF RoundStarts, Quiet, fixed, PInv, Progress, RoundsOK
<1>2. TimesOK' /\ LastOwnsRemainder' /\ QueriesNeverStarve' /\ NoneRefused'
  BY <1>1, OnwardTiming, NotStarved, CalmBefore, StillNoneRefused
     DEF Timing, Active, PInv, Progress, Types, IInv, NotYet
<1>3. Active /\ Active'
  BY <1>1 DEF Active
<1>4. budget \in Nat /\ (Kind = "stun" => budget <= Late) /\ Kind' = Kind /\ Late' = Late
  BY <1>1, LateStays DEF Timing, GrantOK, Kind
<1>5. GrantOK'
  BY <1>1, <1>4 DEF GrantOK
<1>6. now \in Nat /\ over \in Nat /\ Late \in Nat
  BY TimeFacts, LateFacts
<1>7. /\ mctx.deadline \in Int /\ mctx.deadline < now + budget =>
           RoundDeadline = mctx.deadline
      /\ ~ (mctx.deadline # NoDeadline /\ mctx.deadline < now + budget) =>
           RoundDeadline = now + budget
      /\ mctx.deadline \in Int \cup {NoDeadline} /\ NoDeadline \notin Int
  BY TimeFacts DEF RoundDeadline, WithTimeout
<1>8. mctx.err # Nil <=> call.err # Nil
  BY <1>1, EndedSinceGrant DEF Timing
<1>9. \A x \in Int : /\ Latest(x) \in Int /\ Latest(x) <= x + Late
                     /\ Kind # "stun" => Latest(x) = x
  <2> SUFFICES ASSUME NEW x \in Int
               PROVE  /\ Latest(x) \in Int /\ Latest(x) <= x + Late
                      /\ Kind # "stun" => Latest(x) = x
    OBVIOUS
  <2> QED BY <1>4, <1>6 DEF Latest
<1>10. UntilOK'
  <2>1. ASSUME call.err = Nil, call.deadline # NoDeadline
        PROVE  until' <= call.deadline + Late
    <3>1. mctx.deadline \in Int /\ call.deadline \in Int /\ mctx.deadline <= call.deadline
      BY <1>3, <2>1, MethodDeadline DEF Timing
    <3>2. RoundDeadline \in Int /\ RoundDeadline <= mctx.deadline
      BY <1>4, <1>6, <1>7, <3>1
    <3>3. until' = Latest(RoundDeadline)
      BY <1>1, <1>8, <2>1
    <3> HIDE DEF RoundDeadline, Latest
    <3> QED BY <1>6, <1>9, <3>1, <3>2, <3>3
  <2>2. ASSUME call.err # Nil PROVE until' <= over + Late
    <3>1. until' = Latest(now)
      BY <1>1, <1>8, <2>2
    <3>2. now <= over
      BY <1>1, <2>2 DEF Timing, GrantOK
    <3> QED BY <1>6, <1>9, <3>1, <3>2
  <2> QED BY <1>1, <1>4, <2>1, <2>2 DEF UntilOK
<1>11. Ahead'
  <2> SUFFICES ASSUME Calm, call.deadline # NoDeadline
               PROVE  /\ call.deadline - mctx.deadline >= 2 * methodsLeft
                      /\ now <= until' /\ mctx.deadline - until' >= Len(rounds) - 1
    BY <1>1, CalmBefore DEF Ahead, Active
  <2>1. mctx.deadline \in Int /\ call.deadline \in Int
    BY <1>3, MethodDeadline DEF Timing
  <2>2. /\ call.deadline - mctx.deadline >= 2 * methodsLeft
        /\ mctx.deadline - (now + budget) >= Len(rounds) - 1
    BY <1>1, <1>3 DEF Timing, Ahead
  <2>3. Kind # "stun"
    BY <1>3 DEF Active, Calm, AllObey, Kind, PInv, Progress, LoopOK
  <2>4. Len(rounds) \in {1, 2}
    BY <1>1 DEF PInv, Progress, RoundsOK
  <2>5. now + budget <= mctx.deadline
    <3>1. ASSUME NEW n \in {1, 2}, mctx.deadline - (now + budget) >= n - 1
          PROVE  now + budget <= mctx.deadline
      BY <1>4, <1>6, <2>1, <3>1
    <3> QED BY <2>2, <2>4, <3>1
  <2>6. RoundDeadline = now + budget
    BY <1>4, <1>6, <1>7, <2>1, <2>5
  <2>7. mctx.err = Nil
    <3>1. mctx.err # Nil => mctx.deadline # NoDeadline /\ mctx.deadline <= now
      BY <1>3 DEF Calm, Timing, TimesOK
    <3>2. mctx.deadline # NoDeadline => now < mctx.deadline
      BY <1>1 DEF Timing, GrantOK
    <3> QED BY <1>6, <2>1, <3>1, <3>2
  <2>8. until' = now + budget
    <3>1. now + budget \in Int
      BY <1>4, <1>6
    <3> QED BY <1>1, <1>9, <2>3, <2>6, <2>7, <3>1
  <2> QED BY <1>4, <1>6, <2>2, <2>8
<1> QED BY <1>2, <1>5, <1>10, <1>11 DEF Timing

LEMMA RoundLosesTiming == ASSUME PInv, Timing, RoundLoses PROVE Timing'
<1>1. /\ pc = "racing" /\ pc' = "rounds" /\ Quiet /\ rounds' = Tail(rounds)
      /\ UNCHANGED <<fixed, call, now, canceled, mctx, next, methodsLeft, until, result>>
      /\ Report(Head(rounds), "tried", Nil)
  BY DEF RoundLoses, RoundsAfterLoss, Quiet, fixed
<1>2. rounds \in {<<"4">>, <<"6">>, <<"6", "4">>}
  BY <1>1 DEF PInv, Progress, RoundsOK
<1>3. TimesOK' /\ LastOwnsRemainder' /\ GrantOK' /\ UntilOK' /\ QueriesNeverStarve'
  BY <1>1, OnwardTiming, NotStarved DEF Timing, Active, GrantOK, UntilOK, PInv, IInv, NotYet
<1>4. NoneRefused'
  <2>1. Head(rounds) \in {"4", "6"}
    BY <1>2
  <2>2. \E r \in FailureType : r.how # "refused" /\ failures' = Append(failures, r)
    BY <1>1, <2>1, ReportNotRefused DEF Families
  <2> QED BY <1>1, <2>2, CalmBefore, StillNoneRefused DEF Timing, PInv, Progress, Types
<1>5. Ahead'
  <2> SUFFICES ASSUME Calm, call.deadline # NoDeadline
               PROVE  /\ call.deadline - mctx.deadline >= 2 * methodsLeft
                      /\ mctx.deadline - now >= Len(Tail(rounds))
    BY <1>1, CalmBefore DEF Ahead, Active
  <2>1. mctx.deadline \in Int /\ now \in Nat /\ until \in Int
    BY <1>1, MethodDeadline, TimeFacts DEF Timing, Active
  <2>2. /\ call.deadline - mctx.deadline >= 2 * methodsLeft
        /\ now <= until /\ mctx.deadline - until >= Len(rounds) - 1
    BY <1>1 DEF Timing, Ahead, Active
  <2>3. Len(rounds) = Len(Tail(rounds)) + 1 /\ Len(rounds) \in {1, 2}
    BY <1>2, FamiliesForFacts
  <2>4. mctx.deadline - now >= Len(rounds) - 1
    BY <2>1, <2>2, <2>3
  <2>5. Len(Tail(rounds)) = Len(rounds) - 1
    <3>1. Len(Tail(rounds)) \in Nat
      BY <1>2
    <3> QED BY <2>3, <3>1
  <2> QED BY <2>2, <2>4, <2>5
<1> QED BY <1>3, <1>4, <1>5 DEF Timing

\* A method that ends has kept within its share.
LEMMA MethodEndsTiming ==
  ASSUME PInv, Timing, Quiet, methodsLeft' = methodsLeft,
         pc \in {"rounds", "racing", "custom"}, pc' \in {"loop", "done"},
         result' = NoResult \/ result'.status = "found" \/ request' # "all",
         \/ failures' = failures
         \/ \E r \in FailureType : r.how # "refused" /\ failures' = Append(failures, r)
  PROVE  Timing'
<1>1. UNCHANGED <<fixed, call, now, canceled>>
  BY DEF Quiet
<1>2. TimesOK' /\ LastOwnsRemainder' /\ GrantOK' /\ UntilOK' /\ QueriesNeverStarve'
  BY OnwardTiming, NotStarved DEF Timing, Active, GrantOK, UntilOK
<1>3. NoneRefused'
  BY <1>1, CalmBefore, StillNoneRefused DEF Timing, PInv, Progress, Types
<1>4. Ahead'
  <2> SUFFICES ASSUME Calm, call.deadline # NoDeadline
               PROVE  call.deadline - now >= 2 * methodsLeft
    BY <1>1, CalmBefore DEF Ahead, Active
  <2>1. /\ mctx.deadline \in Int /\ call.deadline \in Int /\ now \in Nat /\ until \in Int
        /\ methodsLeft \in Nat
    BY MethodDeadline, TimeFacts DEF Timing, Active
  <2>2. /\ call.deadline - mctx.deadline >= 2 * methodsLeft
        /\ pc = "rounds" => mctx.deadline - now >= Len(rounds)
        /\ pc = "racing" => now <= until /\ mctx.deadline - until >= Len(rounds) - 1
        /\ pc = "custom" => now <= mctx.deadline
    BY DEF Timing, Ahead, Active
  <2>3. Len(rounds) \in {0, 1, 2} /\ (pc = "racing" => Len(rounds) \in {1, 2})
    BY DEF PInv, Progress, RoundsOK
  <2>4. now <= mctx.deadline
    <3>1. CASE pc = "custom"
      BY <2>2, <3>1
    <3>2. CASE pc = "rounds"
      <4>1. mctx.deadline - now >= Len(rounds) /\ Len(rounds) >= 0
        BY <2>2, <2>3, <3>2
      <4> QED BY <2>1, <2>3, <4>1
    <3>3. CASE pc = "racing"
      <4>1. now <= until /\ mctx.deadline - until >= Len(rounds) - 1
        BY <2>2, <3>3
      <4>2. Len(rounds) \in {1, 2}
        BY <2>3, <3>3
      <4>3. ASSUME NEW n \in {1, 2}, mctx.deadline - until >= n - 1
            PROVE  now <= mctx.deadline
        <5>1. mctx.deadline - until >= 0
          BY <2>1, <4>3
        <5> QED BY <2>1, <4>1, <5>1
      <4> QED BY <4>1, <4>2, <4>3
    <3> QED BY <3>1, <3>2, <3>3
  <2> QED BY <2>1, <2>2, <2>4
<1> QED BY <1>2, <1>3, <1>4 DEF Timing

LEMMA FailsOutcome ==
  ASSUME PInv, Active, fixed' = fixed, NEW error, MethodFails(error)
  PROVE  /\ pc' \in {"loop", "done"}
         /\ result' = NoResult \/ result'.status = "found" \/ request' # "all"
BY DEF MethodFails, Active, PInv, IInv, NotYet, fixed

LEMMA ReturnsTiming ==
  ASSUME PInv, Timing, Quiet, methodsLeft' = methodsLeft, pc \in {"racing", "custom"},
         NEW ip, NEW v, MethodReturns(ip, v)
  PROVE  Timing'
<1>1. fixed' = fixed /\ Active
  BY DEF Quiet, Active
<1>2. CASE Accepts(ip)
  <2>1. pc' = "done" /\ result'.status = "found" /\ failures' = failures
    BY <1>2 DEF MethodReturns
  <2> QED BY <2>1, MethodEndsTiming
<1>3. CASE ~ Accepts(ip)
  <2>1. Report(FamilyOf(version), "mismatch", Nil) /\ MethodFails(Failed(mctx))
    BY <1>3 DEF MethodReturns
  <2>2. FamilyOf(version) \in Families \cup {""}
    BY DEF PInv, Progress, Types, Versions, FamilyOf, Families
  <2>3. \E r \in FailureType : r.how # "refused" /\ failures' = Append(failures, r)
    BY <2>1, <2>2, ReportNotRefused
  <2>4. /\ pc' \in {"loop", "done"}
        /\ result' = NoResult \/ result'.status = "found" \/ request' # "all"
    BY <1>1, <2>1, FailsOutcome
  <2> QED BY <2>3, <2>4, MethodEndsTiming
<1> QED BY <1>2, <1>3

LEMMA EndsTiming ==
  ASSUME PInv, Timing, RoundWins \/ MethodExhausted \/ CustomReturns \/ CustomFails
  PROVE  Timing'
<1>1. CASE RoundWins
  BY <1>1, ReturnsTiming DEF RoundWins, Quiet
<1>2. CASE CustomReturns
  BY <1>2, ReturnsTiming DEF CustomReturns, Quiet
<1>3. CASE MethodExhausted
  <2>1. /\ Quiet /\ methodsLeft' = methodsLeft /\ pc = "rounds" /\ failures' = failures
        /\ fixed' = fixed /\ MethodFails(Failed(mctx)) /\ Active
    BY <1>3 DEF MethodExhausted, Quiet, Active
  <2> QED BY <2>1, FailsOutcome, MethodEndsTiming
<1>4. CASE CustomFails
  <2>1. PICK error : error = [NoResult EXCEPT !.status = "foreign"]
    OBVIOUS
  <2>2. /\ Quiet /\ methodsLeft' = methodsLeft /\ pc = "custom"
        /\ fixed' = fixed /\ MethodFails(error) /\ Active /\ Report("", "custom", Nil)
    BY <1>4, <2>1 DEF CustomFails, Quiet, Active
  <2>3. \E r \in FailureType : r.how # "refused" /\ failures' = Append(failures, r)
    BY <2>2, ReportNotRefused
  <2> QED BY <2>2, <2>3, FailsOutcome, MethodEndsTiming
<1> QED BY <1>1, <1>2, <1>3, <1>4

\* The end of a call, whoever brings it about, leaves a round one attempt.
LEMMA ContextLimits ==
  ASSUME PInv, Timing, CallerCancels \/ CallFires \/ MethodFires \/ Tick,
         UNCHANGED <<fixed, client, pc, method, budget>>,
         call'.deadline = call.deadline, mctx'.deadline = mctx.deadline
  PROVE  GrantOK' /\ UntilOK'
<1>1. Kind' = Kind /\ Late' = Late
  BY LateStays DEF Kind
<1>2. /\ now \in Nat /\ over \in Nat /\ until \in Int
      /\ call.deadline \in Int \cup {NoDeadline} /\ Late \in Nat
  BY TimeFacts, LateFacts
<1>3. CASE CallerCancels
  <2>1. /\ now' = now /\ over' = now /\ call' = Ended(call, Canceled) /\ call.err = Nil
        /\ until' = IF pc = "racing" /\ Latest(now) < until THEN Latest(now) ELSE until
    BY <1>3 DEF CallerCancels, CallEnds
  <2>2. call'.err # Nil
    BY <2>1, TimeFacts, Errors DEF Ended
  <2>3. GrantOK'
    BY <1>1, <1>2, <2>1 DEF Timing, GrantOK
  <2>4. ASSUME pc = "racing" PROVE until' <= now + Late
    <3>1. budget \in Nat /\ (Kind = "stun" => budget <= Late)
      BY <2>4 DEF Timing, GrantOK
    <3>2. Latest(now) \in Int /\ Latest(now) <= now + Late
      BY <1>2, <3>1 DEF Latest
    <3> HIDE DEF Latest
    <3> QED BY <1>2, <2>1, <2>4, <3>2
  <2> QED BY <1>1, <2>1, <2>2, <2>3, <2>4 DEF UntilOK
<1>4. CASE CallFires
  <2>1. /\ now' = now /\ over' = now /\ until' = until /\ call.err = Nil
        /\ call' = Ended(call, DeadlineExceeded)
        /\ call.deadline # NoDeadline /\ call.deadline <= now
    BY <1>4 DEF CallFires, CallEnds, Due
  <2>2. call'.err # Nil
    BY <2>1, TimeFacts, Errors DEF Ended
  <2>3. GrantOK'
    BY <1>1, <1>2, <2>1 DEF Timing, GrantOK
  <2>4. ASSUME pc = "racing" PROVE until <= now + Late
    <3>1. until <= call.deadline + Late
      BY <2>1, <2>4 DEF Timing, UntilOK
    <3> QED BY <1>2, <2>1, <3>1
  <2> QED BY <1>1, <2>1, <2>2, <2>3, <2>4 DEF UntilOK
<1>5. CASE MethodFires \/ Tick
  <2>1. /\ call' = call /\ over' = over /\ until' = until
        /\ pc = "granted" => now' = now
    BY <1>5 DEF MethodFires, Tick
  <2> QED BY <1>1, <2>1 DEF Timing, GrantOK, UntilOK
<1> QED BY <1>3, <1>4, <1>5

\* The ends of contexts and the clock.
LEMMA ContextTiming ==
  ASSUME PInv, Timing, CallerCancels \/ CallFires \/ MethodFires \/ Tick
  PROVE  Timing'
<1>1. /\ UNCHANGED <<fixed, pc, next, methodsLeft, method, rounds, budget, failures, result>>
      /\ UNCHANGED <<client, request, version>>
      /\ canceled => canceled'
      /\ pc # "done"
  BY DEF CallerCancels, CallFires, CallEnds, MethodFires, Tick, Running, fixed, PInv,
         IInv, ContextsOK
<1>2. /\ call'.deadline = call.deadline /\ mctx'.deadline = mctx.deadline
  BY TimeFacts DEF CallerCancels, CallFires, CallEnds, MethodFires, Tick, Ended
<1>3. QueriesNeverStarve' /\ NoneRefused'
  <2>1. QueriesNeverStarve'
    <3>1. result = NoResult
      BY <1>1 DEF PInv, IInv, NotYet
    <3>2. result' = result
      BY <1>1
    <3> QED BY <3>1, <3>2, NotStarved
  <2>2. NoneRefused'
    BY <1>1, <1>2, CalmBefore, StillNoneRefused DEF Timing, PInv, Progress, Types
  <2> QED BY <2>1, <2>2
<1>4. GrantOK' /\ UntilOK'
  BY <1>1, <1>2, ContextLimits
<1>5. LastOwnsRemainder'
  BY <1>1, <1>2 DEF Timing, LastOwnsRemainder, At, Runnable, Entries, Discoverers
<1>6. TimesOK'
  <2>1. CASE CallerCancels
    <3>1. canceled' = TRUE /\ now' = now
      BY <2>1 DEF CallerCancels, CallEnds
    <3> QED BY <1>1, <1>2, <3>1 DEF Timing, TimesOK, Active
  <2>2. CASE CallFires
    <3>1. /\ call'.err = DeadlineExceeded /\ now' = now /\ canceled' = canceled
          /\ call.deadline # NoDeadline /\ call.deadline <= now
      BY <2>2, TimeFacts DEF CallFires, CallEnds, Due, Ended
    <3>2. Active => mctx.deadline # NoDeadline /\ mctx.deadline <= now
      BY <3>1, MethodDeadline, TimeFacts DEF Timing
    <3> QED BY <1>1, <1>2, <3>1, <3>2, Errors DEF Timing, TimesOK, Active
  <2>3. CASE MethodFires
    <3>1. /\ call' = call /\ now' = now /\ canceled' = canceled
          /\ mctx.deadline # NoDeadline /\ mctx.deadline <= now
      BY <2>3 DEF MethodFires, Due
    <3> QED BY <1>1, <1>2, <3>1 DEF Timing, TimesOK, Active
  <2>4. CASE Tick
    <3>1. /\ call' = call /\ mctx' = mctx /\ now' = now + 1 /\ canceled' = canceled
          /\ pc # "start"
      BY <2>4 DEF Tick
    <3>2. mctx.deadline # NoDeadline /\ mctx.deadline <= now => mctx.deadline <= now + 1
      BY TimeFacts
    <3> QED BY <1>1, <3>1, <3>2 DEF Timing, TimesOK, Active
  <2> QED BY <2>1, <2>2, <2>3, <2>4
<1>7. Ahead'
  <2> SUFFICES ASSUME Calm', Calm, call.deadline # NoDeadline PROVE Ahead'
    BY <1>1, <1>2, CalmBefore DEF Ahead
  <2>1. CASE now' = now
    <3>1. ~ canceled' => until' = until
      BY DEF CallerCancels, CallFires, MethodFires, Tick
    <3> QED BY <1>1, <1>2, <2>1, <3>1 DEF Timing, Ahead, Active, Calm
  <2>2. CASE Tick
    <3>1. /\ now' = now + 1 /\ now \in Nat /\ until \in Int /\ until' = until
          /\ \/ pc = "racing" /\ now < until
             \/ pc = "custom" /\ mctx.err = Nil /\ ~ Due(mctx, now)
      BY <2>2, TimeFacts DEF Tick
    <3>2. CASE pc = "racing"
      <4>1. now' <= until /\ until' = until
        BY <3>1, <3>2
      <4> QED BY <1>1, <1>2, <3>2, <4>1 DEF Timing, Ahead, Active
    <3>3. CASE pc = "custom"
      <4>1. mctx.deadline \in Int /\ mctx.deadline # NoDeadline
        BY <3>3, MethodDeadline, TimeFacts DEF Timing, Active
      <4>2. now' <= mctx.deadline
        BY <3>1, <3>3, <4>1 DEF Due
      <4> QED BY <1>1, <1>2, <3>3, <4>2 DEF Timing, Ahead, Active
    <3> QED BY <3>1, <3>2, <3>3
  <2> QED BY <2>1, <2>2 DEF CallerCancels, CallFires, CallEnds, MethodFires
<1> QED BY <1>3, <1>4, <1>5, <1>6, <1>7 DEF Timing

LEMMA StepTiming == PInv /\ Timing /\ [Next]_vars => Timing'
<1> SUFFICES ASSUME PInv, Timing, [Next]_vars PROVE Timing'
  OBVIOUS
<1>1. CASE StartAll \/ StartOne \/ LoopEnds \/ SkipMethod \/ StartMethod
  BY <1>1, StartAllTiming, StartOneTiming, LoopEndsTiming, SkipMethodTiming,
     StartMethodTiming
<1>2. CASE Invoke \/ RoundRefused \/ RoundGranted \/ RoundStarts \/ RoundLoses
  BY <1>2, InvokeTiming, RoundRefusedTiming, RoundGrantedTiming, RoundStartsTiming,
     RoundLosesTiming
<1>3. CASE RoundWins \/ MethodExhausted \/ CustomReturns \/ CustomFails
  BY <1>3, EndsTiming
<1>4. CASE CallerCancels \/ CallFires \/ MethodFires \/ Tick
  BY <1>4, ContextTiming
<1>5. CASE UNCHANGED vars
  <2>1. UNCHANGED <<client, request, version, now, call, mctx, canceled, over, pc, next,
                    methodsLeft, method, rounds, budget, until, failures, result>>
    BY <1>5 DEF vars
  <2>2. TimesOK' /\ GrantOK' /\ UntilOK' /\ LastOwnsRemainder'
    BY <2>1 DEF Timing, TimesOK, GrantOK, UntilOK, LastOwnsRemainder, Active, Kind, Late,
       Reached, Discoverers, Entries, Runnable, At
  <2>3. Ahead' /\ NoneRefused'
    BY <2>1 DEF Timing, Ahead, NoneRefused, Calm, EnoughTime, CountRunnable, AllObey,
       Active, Discoverers, Entries, Runnable
  <2>4. QueriesNeverStarve'
    BY <2>1 DEF Timing, QueriesNeverStarve, EnoughTime, CountRunnable, Exhausted, Refusals,
       ReportedAt, TriedAt, Discoverers, Entries, Runnable
  <2> QED BY <2>2, <2>3, <2>4 DEF Timing
<1> QED BY <1>1, <1>2, <1>3, <1>4, <1>5 DEF Next, Program, RoundEnds, Terminated

\* So do the clock, the deadlines of the call and of its methods, and the time
\* that is owed to whoever has not had a turn.
THEOREM TimingInvariance == Spec => []FInv
<1>1. Init => FInv
  BY InitIInv, InitProgress, InitTiming DEF PInv, FInv
<1>2. FInv /\ [Next]_vars => FInv'
  BY StepPInv, StepTiming DEF FInv
<1> QED BY <1>1, <1>2, PTL DEF Spec

\* The last method that can run has the whole remainder of the call, wherever
\* it stands among names that have no discoverer.
THEOREM RemainderIsKept == Spec => []LastOwnsRemainder
BY TimingInvariance, PTL DEF FInv, Timing

\* With two units of time for each of its methods, however many, no round of a
\* call is refused, and it fails only when each of them was asked all it could
\* be, if every attempt obeys its context.
THEOREM NobodyStarves == Spec => []QueriesNeverStarve
BY TimingInvariance, PTL DEF FInv, Timing

-----------------------------------------------------------------------------
(* The two loops are one call.                                             *)

USE DEF Contract!Nil, Nil, Contract!Canceled, Canceled,
        Contract!DeadlineExceeded, DeadlineExceeded

\* What was asked, and of whom, is fixed.
LEMMA SameQuestion ==
  ASSUME fixed' = fixed
  PROVE  /\ version' = version /\ client' = client /\ Late' = Late
         /\ ("custom" \in Reached)' = ("custom" \in Reached)
BY DEF fixed, Late, Reached, Discoverers, Entries

LEMMA SameHelpers ==
  /\ \A c, e : Contract!Ended(c, e) = Ended(c, e)
  /\ \A c, t : Contract!Due(c, t) <=> Due(c, t)
  /\ \A c, t, d : Contract!CallContext(c, t, d) = CallContext(c, t, d)
BY DEF Contract!Ended, Ended, Contract!Due, Due, Contract!CallContext, CallContext,
       Contract!WithTimeout, WithTimeout

\* A method that runs is one the call may reach.
LEMMA MethodReached ==
  ASSUME PInv, Active
  PROVE  Kind \in Reached /\ Kind \in Kinds
<1>1. /\ method \in Discoverers
      /\ request = "all" => At \in Runnable /\ client.methods[At] = method
      /\ request # "all" => method = request
      /\ client \in Clients
  BY DEF PInv, Progress, LoopOK, IInv, ContextsOK
<1>2. Kind \in Kinds
  BY <1>1, ClientFacts DEF Kind
<1> QED BY <1>1, <1>2 DEF Kind, Reached, Runnable

LEMMA StutterCall ==
  ASSUME UNCHANGED <<fixed, now, call, over, result>>,
         pc' = pc \/ (pc \notin {"start", "done"} /\ pc' \notin {"start", "done"})
  PROVE  UNCHANGED Contract!vars
BY SameQuestion DEF Contract!vars

LEMMA InitCall == Init => Contract!Init
<1> SUFFICES ASSUME Init PROVE Contract!Init
  OBVIOUS
<1>1. /\ now = 0 /\ over = 0 /\ pc = "start" /\ result = NoResult
      /\ version \in Versions /\ client \in Clients
  BY DEF Init
<1>2. call \in Contexts /\ call.err = Nil
  <2>1. PICK d \in Deadlines : call = Background(d)
    BY DiscoveryAssumption DEF Init
  <2> QED BY <2>1 DEF Background, Contexts, ContextErrors
<1>3. client.timeout \in Nat /\ Late \in Nat
  BY <1>1, ClientFacts, LateFacts
<1>4. ("custom" \in Reached) \in BOOLEAN
  OBVIOUS
<1> QED BY <1>1, <1>2, <1>3, <1>4
       DEF Contract!Init, Contract!Questions, Contract!Versions, Versions,
           Contract!Contexts, Contexts, Contract!Deadlines, Deadlines,
           Contract!ContextErrors, ContextErrors, Contract!NoAnswer, NoResult,
           Contract!NoIP, NoIP

LEMMA StartCall ==
  ASSUME PInv, StartAll \/ (StartOne /\ request \in Discoverers)
  PROVE  Contract!Start
<1>1. /\ pc = "start" /\ pc' \in {"loop", "invoke"}
      /\ call' = CallContext(call, now, client.timeout)
      /\ UNCHANGED <<now, over, result>> /\ fixed' = fixed
  BY DEF StartAll, StartOne
<1> QED BY <1>1, SameQuestion, SameHelpers DEF Contract!Start

LEMMA UnsupportedCall ==
  ASSUME PInv, StartOne, request \notin Discoverers
  PROVE  Contract!Unsupported
<1>1. /\ pc = "start" /\ pc' = "done"
      /\ result' = [NoResult EXCEPT !.status = "unsupported"]
      /\ UNCHANGED <<now, call, over>> /\ fixed' = fixed
  BY DEF StartOne
<1>2. Contract!NoAnswer = NoResult
  BY DEF Contract!NoAnswer, NoResult, Contract!NoIP, NoIP
<1> QED BY <1>1, <1>2, SameQuestion DEF Contract!Unsupported, Contract!Return

LEMMA FailCall ==
  ASSUME PInv, pc \notin {"start", "done"}, pc' = "done",
         result' = Failed(call), UNCHANGED <<fixed, now, call, over>>
  PROVE  Contract!Fail
<1>1. Contract!NoAnswer = NoResult
  BY DEF Contract!NoAnswer, NoResult, Contract!NoIP, NoIP
<1>2. result' = [NoResult EXCEPT !.status = "failed",
                                !.timedOut = call.err = DeadlineExceeded]
  BY DEF Failed, TimedOut
<1> QED BY <1>1, <1>2, SameQuestion DEF Contract!Fail, Contract!Return

\* The error of a method ends the call only when the method was named, and its
\* context is then that of the call.
LEMMA MethodFailsCall ==
  ASSUME PInv, Active, Quiet, MethodFails(Failed(mctx))
  PROVE  Contract!Fail \/ UNCHANGED Contract!vars
<1>1. /\ UNCHANGED <<fixed, now, call, over>> /\ pc \notin {"start", "done"}
      /\ request # "all" => mctx = call
  BY DEF Quiet, Active, PInv, IInv, OneContext
<1>2. CASE request = "all"
  <2>1. pc' = "loop" /\ result' = result
    BY <1>2 DEF MethodFails
  <2> QED BY <1>1, <2>1, StutterCall
<1>3. CASE request # "all"
  <2>1. pc' = "done" /\ result' = Failed(call)
    BY <1>1, <1>3 DEF MethodFails
  <2> QED BY <1>1, <2>1, FailCall
<1> QED BY <1>2, <1>3

LEMMA MethodReturnsCall ==
  ASSUME PInv, Active, Quiet, NEW ip \in IPs \cup {NoIP}, NEW v \in Versions,
         "custom" \in Reached \/ (ip # NoIP /\ v = VersionOf(ip)),
         MethodReturns(ip, v)
  PROVE  Contract!Find \/ Contract!Fail \/ UNCHANGED Contract!vars
<1>1. UNCHANGED <<fixed, now, call, over>> /\ pc \notin {"start", "done"}
  BY DEF Quiet, Active
<1>2. CASE Accepts(ip)
  <2>1. /\ pc' = "done"
        /\ result' = [status |-> "found", ip |-> ip, version |-> v, timedOut |-> FALSE]
    BY <1>2 DEF MethodReturns
  <2>2. /\ version = "IPv6Only" => ~ To4(ip)
        /\ version = "IPv4Only" => To4(ip)
    BY <1>2 DEF Accepts, FamilyMismatch, FamilyOf
  <2>3. Contract!RightFamily(ip)
    BY <2>2 DEF Contract!RightFamily, Contract!To4, To4
  <2>4. ip \in Contract!IPs \cup {Contract!NoIP} /\ v \in Contract!Versions
    BY DEF Contract!IPs, IPs, Contract!NoIP, NoIP, Contract!Versions, Versions
  <2>5. "custom" \in Reached \/ (ip # Contract!NoIP /\ v = Contract!VersionOf(ip))
    BY DEF Contract!NoIP, NoIP, Contract!VersionOf, VersionOf, Contract!To4, To4
  <2>6. Contract!Return([status |-> "found", ip |-> ip, version |-> v, timedOut |-> FALSE])
    BY <1>1, <2>1, SameQuestion DEF Contract!Return
  <2> QED BY <1>1, <2>3, <2>4, <2>5, <2>6 DEF Contract!Find
<1>3. CASE ~ Accepts(ip)
  <2>1. MethodFails(Failed(mctx))
    BY <1>3 DEF MethodReturns
  <2> QED BY <2>1, MethodFailsCall
<1> QED BY <1>2, <1>3

LEMMA RoundWinsCall ==
  ASSUME PInv, RoundWins
  PROVE  Contract!Find \/ Contract!Fail \/ UNCHANGED Contract!vars
<1>1. PICK ip \in IPs : MethodReturns(ip, VersionOf(ip))
  BY DEF RoundWins
<1>2. Active /\ Quiet
  BY DEF RoundWins, Active, Quiet
<1>3. ip \in IPs \cup {NoIP} /\ ip # NoIP /\ VersionOf(ip) \in Versions
  BY DEF IPs, NoIP, VersionOf, Versions
<1> QED BY <1>1, <1>2, <1>3, MethodReturnsCall

LEMMA CustomCall ==
  ASSUME PInv, CustomReturns \/ CustomFails
  PROVE  Contract!Find \/ Contract!Fail \/ UNCHANGED Contract!vars
<1>1. Active /\ Quiet /\ pc = "custom"
  BY DEF CustomReturns, CustomFails, Active, Quiet
<1>2. "custom" \in Reached
  BY <1>1, MethodReached DEF PInv, Progress, LoopOK
<1>3. CASE CustomReturns
  <2>1. PICK r \in CustomResults : MethodReturns(r.ip, r.version)
    BY <1>3 DEF CustomReturns
  <2>2. r.ip \in IPs \cup {NoIP} /\ r.version \in Versions
    BY DiscoveryAssumption
  <2> QED BY <1>1, <1>2, <2>1, <2>2, MethodReturnsCall
<1>4. CASE CustomFails
  <2>1. UNCHANGED <<fixed, now, call, over>>
    BY <1>1 DEF Quiet
  <2>2. CASE request = "all"
    <3>1. pc' = "loop" /\ result' = result
      BY <1>4, <2>2 DEF CustomFails, MethodFails
    <3> QED BY <1>1, <2>1, <3>1, StutterCall
  <2>3. CASE request # "all"
    <3>1. pc' = "done" /\ result' = [NoResult EXCEPT !.status = "foreign"]
      BY <1>4, <2>3 DEF CustomFails, MethodFails
    <3>2. Contract!NoAnswer = NoResult
      BY DEF Contract!NoAnswer, NoResult, Contract!NoIP, NoIP
    <3> QED BY <1>1, <1>2, <2>1, <3>1, <3>2, SameQuestion
            DEF Contract!Fail, Contract!Return
  <2> QED BY <2>2, <2>3
<1> QED BY <1>3, <1>4

LEMMA EndOfContextCall ==
  ASSUME CallerCancels \/ CallFires
  PROVE  Contract!Cancel \/ Contract!Expire
<1>1. UNCHANGED <<now, pc, result>> /\ fixed' = fixed /\ over' = now
  BY DEF CallerCancels, CallFires, CallEnds
<1>2. \/ call.err = Nil /\ call' = Ended(call, Canceled)
      \/ Due(call, now) /\ call' = Ended(call, DeadlineExceeded)
  BY DEF CallerCancels, CallFires, CallEnds
<1> QED BY <1>1, <1>2, SameQuestion, SameHelpers
        DEF Contract!Cancel, Contract!Expire, Contract!End

\* A call that is over is held up by sockets only, and for Late.
LEMMA TickCall ==
  ASSUME PInv, Timing, Tick
  PROVE  Contract!Wait
<1>1. /\ UNCHANGED <<call, over, pc, result>> /\ fixed' = fixed /\ now' = now + 1
      /\ ~ Due(call, now)
      /\ \/ pc = "racing" /\ now < until
         \/ pc = "custom" /\ mctx.err = Nil
  BY DEF Tick
<1>2. ASSUME call.err # Nil PROVE now < over + Late
  <2>1. mctx.err # Nil
    BY <1>1, <1>2 DEF PInv, IInv, Inherited
  <2>2. pc = "racing" /\ now < until
    BY <1>1, <2>1
  <2>3. until <= over + Late
    BY <1>2, <2>2 DEF Timing, UntilOK
  <2>4. Late \in Nat /\ now \in Nat /\ over \in Nat /\ until \in Int
    BY TimeFacts, LateFacts
  <2> QED BY <2>2, <2>3, <2>4
<1>3. pc \notin {"start", "done"}
  BY <1>1
<1> QED BY <1>1, <1>2, <1>3, SameQuestion, SameHelpers DEF Contract!Wait

\* The safety part of DiscoveryIsCall: for any client, deadline and discoverer,
\* the loops, their contexts and their budgets are one call that answers the
\* family asked for, reports a timeout when its context does as it returns, and is
\* held up past its end, a deadline or a cancellation, by sockets only, for one
\* attempt at most.
THEOREM DiscoveryImplementsCall == Spec => Contract!Safety
<1>1. ASSUME FInv, [Next]_vars
      PROVE  [Contract!Next]_Contract!vars
  <2>1. PInv /\ Timing
    BY <1>1 DEF FInv
  <2>2. CASE StartAll \/ StartOne
    BY <2>1, <2>2, StartCall, UnsupportedCall DEF Contract!Next
  <2>3. CASE LoopEnds
    <3>1. /\ pc \notin {"start", "done"} /\ pc' = "done" /\ result' = Failed(call)
          /\ UNCHANGED <<fixed, now, call, over>>
      BY <2>3 DEF LoopEnds
    <3> QED BY <2>1, <3>1, FailCall DEF Contract!Next
  <2>4. CASE SkipMethod \/ StartMethod \/ Invoke \/ RoundRefused \/ RoundGranted
             \/ RoundStarts \/ RoundLoses \/ MethodFires
    BY <2>4, StutterCall DEF SkipMethod, StartMethod, Invoke, RoundRefused, RoundGranted,
       RoundStarts, RoundLoses, MethodFires
  <2>5. CASE MethodExhausted
    <3>1. Active /\ Quiet /\ MethodFails(Failed(mctx))
      BY <2>5 DEF MethodExhausted, Active, Quiet
    <3> QED BY <2>1, <3>1, MethodFailsCall DEF Contract!Next
  <2>6. CASE RoundWins \/ CustomReturns \/ CustomFails
    BY <2>1, <2>6, RoundWinsCall, CustomCall DEF Contract!Next
  <2>7. CASE CallerCancels \/ CallFires
    BY <2>7, EndOfContextCall DEF Contract!Next
  <2>8. CASE Tick
    BY <2>1, <2>8, TickCall DEF Contract!Next
  <2>9. CASE UNCHANGED vars
    BY <2>9, StutterCall DEF vars, fixed
  <2> QED BY <1>1, <2>2, <2>3, <2>4, <2>5, <2>6, <2>7, <2>8, <2>9
          DEF Next, Program, RoundEnds, Terminated
<1> QED BY <1>1, InitCall, TimingInvariance, PTL DEF Spec, Contract!Safety
=============================================================================
