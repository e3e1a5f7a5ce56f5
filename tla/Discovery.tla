------------------------------ MODULE Discovery -----------------------------
(***************************************************************************)
(* One call of a Client: DiscoverWithIPVersion or DiscoverWithMethod of    *)
(* publicip.go, with invoke and the run of rounds.go that every built-in   *)
(* method is.  A round is taken by its contract, module Race, which Round  *)
(* implements; a custom discoverer by the contract of type Discoverer.     *)
(*                                                                         *)
(* As in Round, steps of the program and due timers take no time.          *)
(***************************************************************************)
EXTENDS Timeout, Addresses, Client, Sequences, FiniteSets

CONSTANTS
  Clients,          \* the clients a call may be made on
  Requests,         \* "all", or the method of DiscoverWithMethod
  CallerDeadlines,  \* the deadlines of the caller's context
  CustomResults,    \* what a custom discoverer may return for an address
  Horizon           \* bound: how long a custom discoverer without a deadline works

ASSUME DiscoveryAssumption ==
  /\ \A c \in Clients : IsClient(c)
  /\ CallerDeadlines \subseteq Deadlines
  /\ CustomResults \subseteq [ip : IPs \cup {NoIP}, version : Versions]
  /\ Horizon \in Nat

VARIABLES
  client,       \* Client.config and Client.discoverers
  request,      \* what was called
  version,      \* the IPVersion asked for
  now,
  call,         \* the context of the call
  mctx,         \* the context of the method that runs
  canceled,     \* the caller cancelled while the call ran
  over,         \* history: when the context of the call ended
  overtime,     \* history: rounds and custom discoverers at work after that
  pc,
  next,         \* index of the next entry of config.methods
  methodsLeft,
  method,       \* the method that runs
  rounds,       \* families of the rounds run has not started, and the current one
  budget,       \* what attemptBudget granted the current round
  until,        \* the latest time that round may end
  failures,     \* one record per round or custom method, in order
  result

vars == <<client, request, version, now, call, mctx, canceled, over, overtime, pc,
          next, methodsLeft, method, rounds, budget, until, failures, result>>

Discoverers == DOMAIN client.kind

NoResult == [status |-> "none", ip |-> NoIP, version |-> "Any", timedOut |-> FALSE]

TypeOK ==
  /\ client \in Clients
  /\ request \in Requests
  /\ version \in Versions
  /\ now \in Nat
  /\ call \in Contexts /\ mctx \in Contexts
  /\ canceled \in BOOLEAN
  /\ over \in Nat /\ overtime \in Nat
  /\ pc \in {"start", "loop", "invoke", "rounds", "granted", "racing", "custom", "done"}
  /\ next \in 1 .. Len(client.methods) + 1
  /\ methodsLeft \in Nat
  /\ rounds \in Seq(Families)
  /\ budget \in Int /\ until \in Int
  /\ failures \in Seq([at : 0 .. Len(client.methods), family : Families \cup {""},
                       how : {"tried", "refused", "custom", "mismatch"},
                       err : ContextErrors])
  /\ result \in [status : {"none", "found", "failed", "foreign", "unsupported"},
                 ip : IPs \cup {NoIP}, version : Versions, timedOut : BOOLEAN]

Init ==
  /\ client \in Clients
  /\ request \in Requests
  /\ version \in Versions
  /\ now = 0
  /\ \E d \in CallerDeadlines : call = Background(d)
  /\ mctx = call
  /\ canceled = FALSE
  /\ over = 0
  /\ overtime = 0
  /\ pc = "start"
  /\ next = 1
  /\ methodsLeft = 0
  /\ method = "none"
  /\ rounds = <<>>
  /\ budget = 0
  /\ until = 0
  /\ failures = <<>>
  /\ result = NoResult

fixed == <<client, request, version>>

ended == <<canceled, over, overtime>>

-----------------------------------------------------------------------------
(* Entering and leaving.                                                   *)

\* The entry of config.methods the current method is; 0 when it was named.
At == IF request = "all" THEN next - 1 ELSE 0

Report(family, how, err) ==
  failures' = Append(failures, [at |-> At, family |-> family, how |-> how,
                                err |-> err])

\* MUTANT: any end of the context counts as a timeout.
TimedOut_AnyEnd(ctx) == ctx.err # Nil

\* discoveryError.
TimedOut(ctx) == ctx.err = DeadlineExceeded

Failed(ctx) ==
  [NoResult EXCEPT !.status = "failed", !.timedOut = TimedOut(ctx)]

Entries == 1 .. Len(client.methods)

Runnable == {i \in Entries : client.methods[i] \in Discoverers}

\* MUTANT: each name is counted once, whatever WithMethods repeats.
CountRunnable_Distinct ==
  Cardinality({client.methods[i] : i \in Runnable})

\* MUTANT: a method that will be skipped has its share too.
CountRunnable_All == Len(client.methods)

CountRunnable == Cardinality(Runnable)

\* DiscoverWithIPVersion, up to its loop.
StartAll ==
  /\ pc = "start" /\ request = "all"
  /\ call' = CallContext(call, now, client.timeout)
  /\ methodsLeft' = CountRunnable
  /\ pc' = "loop"
  /\ UNCHANGED <<fixed, now, mctx, ended, next, method, rounds, budget, until,
                 failures, result>>

\* DiscoverWithMethod, up to invoke.
StartOne ==
  /\ pc = "start" /\ request # "all"
  /\ IF request \in Discoverers
     THEN /\ call' = CallContext(call, now, client.timeout)
          /\ mctx' = call'
          /\ method' = request
          /\ pc' = "invoke"
          /\ UNCHANGED result
     ELSE /\ result' = [NoResult EXCEPT !.status = "unsupported"]
          /\ pc' = "done"
          /\ UNCHANGED <<call, mctx, method>>
  /\ UNCHANGED <<fixed, now, ended, next, methodsLeft, rounds, budget, until, failures>>

\* No methods, or no time, are left.
LoopEnds ==
  /\ pc = "loop"
  /\ call.err # Nil \/ next > Len(client.methods)
  /\ result' = Failed(call)
  /\ pc' = "done"
  /\ UNCHANGED <<fixed, now, call, mctx, ended, next, methodsLeft, method,
                 rounds, budget, until, failures>>

\* MUTANT: the loop does not advance past a method it skips.
SkipMethod_Stays ==
  /\ pc = "loop" /\ call.err = Nil /\ next <= Len(client.methods)
  /\ client.methods[next] \notin Discoverers
  /\ UNCHANGED vars

SkipMethod ==
  /\ pc = "loop" /\ call.err = Nil /\ next <= Len(client.methods)
  /\ client.methods[next] \notin Discoverers
  /\ next' = next + 1
  /\ UNCHANGED <<fixed, now, call, mctx, ended, pc, methodsLeft, method,
                 rounds, budget, until, failures, result>>

StartMethod ==
  /\ pc = "loop" /\ call.err = Nil /\ next <= Len(client.methods)
  /\ client.methods[next] \in Discoverers
  /\ mctx' = MethodContext(call, now, methodsLeft)
  /\ methodsLeft' = methodsLeft - 1
  /\ method' = client.methods[next]
  /\ next' = next + 1
  /\ pc' = "invoke"
  /\ UNCHANGED <<fixed, now, call, ended, rounds, budget, until, failures, result>>

\* What follows an error of invoke: the loop goes on, after cancelMethod, or
\* DiscoverWithMethod returns it as it is.
MethodFails(error) ==
  IF request = "all"
  THEN /\ pc' = "loop" /\ mctx' = Ended(mctx, Canceled)
       /\ UNCHANGED result
  ELSE /\ pc' = "done" /\ result' = error
       /\ UNCHANGED mctx

\* MUTANT: only the built-in methods' own check of the family is there.
Accepts_Anything(ip) == TRUE

\* invoke's check of what a discoverer returned.
Accepts(ip) == version # "Any" => ~ FamilyMismatch(ip, FamilyOf(version))

MethodReturns(ip, ipVersion) ==
  IF Accepts(ip)
  THEN /\ pc' = "done"
       /\ result' = [status |-> "found", ip |-> ip, version |-> ipVersion,
                     timedOut |-> FALSE]
       /\ UNCHANGED <<mctx, failures>>
  ELSE /\ Report(FamilyOf(version), "mismatch", Nil)
       /\ MethodFails(Failed(mctx))

-----------------------------------------------------------------------------
(* run, for a built-in method.                                             *)

\* MUTANT: IPv4 first.
FamiliesFor_IPv4First(v) ==
  CASE v = "Any" -> <<"4", "6">> [] v = "IPv4Only" -> <<"4">> [] OTHER -> <<"6">>

\* attemptRounds: the families of the rounds, in order.
FamiliesFor(v) ==
  CASE v = "Any" -> <<"6", "4">> [] v = "IPv4Only" -> <<"4">> [] OTHER -> <<"6">>

Kind == client.kind[method]

\* A round, or a custom discoverer, starts to work: too late when the call ended
\* after it was last asked for.
WorkStarts == overtime' = IF call.err = Nil THEN overtime ELSE overtime + 1

Invoke ==
  /\ pc = "invoke"
  /\ IF Kind = "custom"
     THEN /\ pc' = "custom"
          /\ WorkStarts
          /\ UNCHANGED rounds
     ELSE /\ pc' = "rounds"
          /\ UNCHANGED overtime
          /\ rounds' = IF client.targets[method] = 0 THEN <<>>
                       ELSE FamiliesFor(version)
  /\ UNCHANGED <<fixed, now, call, mctx, canceled, over, next, methodsLeft, method,
                 budget, until, failures, result>>

Granted == AttemptBudget(mctx, now, client.attemptTimeout, Len(rounds))

\* No time for the next round: its targets are reported, the rest is dropped.
RoundRefused ==
  /\ pc = "rounds" /\ rounds # <<>> /\ ~ Granted.ok
  /\ Report(Head(rounds), "refused", NoBudgetError(mctx))
  /\ rounds' = <<>>
  /\ UNCHANGED <<fixed, now, call, mctx, ended, pc, next, methodsLeft, method,
                 budget, until, result>>

RoundGranted ==
  /\ pc = "rounds" /\ rounds # <<>> /\ Granted.ok
  /\ budget' = Granted.budget
  /\ pc' = "granted"
  /\ UNCHANGED <<fixed, now, call, mctx, ended, next, methodsLeft, method, rounds,
                 until, failures, result>>

\* MUTANT: the round's context is not derived from the method's.
RoundDeadline_Detached == now + budget

RoundDeadline == WithTimeout(mctx, now, budget).deadline

\* What Race allows: a round ends with its context, or a budget later when it
\* waits on sockets.
Latest(end) == end + (IF Kind = "stun" THEN budget ELSE 0)

\* runRound does not look at the context again: an end since the grant does not
\* keep the round from starting.
RoundStarts ==
  /\ pc = "granted"
  /\ until' = Latest(IF mctx.err = Nil THEN RoundDeadline ELSE now)
  /\ pc' = "racing"
  /\ WorkStarts
  /\ UNCHANGED <<fixed, now, call, mctx, canceled, over, next, methodsLeft, method,
                 rounds, budget, failures, result>>

RoundWins ==
  /\ pc = "racing"
  /\ \E ip \in IPs :
       /\ ~ FamilyMismatch(ip, Head(rounds))
       /\ MethodReturns(ip, VersionOf(ip))
  /\ rounds' = <<>>
  /\ UNCHANGED <<fixed, now, call, ended, next, methodsLeft, method, budget, until>>

\* MUTANT: a lost round ends the method.
RoundsAfterLoss_None == <<>>

RoundsAfterLoss == Tail(rounds)

RoundLoses ==
  /\ pc = "racing"
  /\ Report(Head(rounds), "tried", Nil)
  /\ rounds' = RoundsAfterLoss
  /\ pc' = "rounds"
  /\ UNCHANGED <<fixed, now, call, mctx, ended, next, methodsLeft, method,
                 budget, until, result>>

MethodExhausted ==
  /\ pc = "rounds" /\ rounds = <<>>
  /\ MethodFails(Failed(mctx))
  /\ UNCHANGED <<fixed, now, call, ended, next, methodsLeft, method, rounds,
                 budget, until, failures>>

-----------------------------------------------------------------------------
(* A custom discoverer.                                                    *)

CustomReturns ==
  /\ pc = "custom"
  /\ \E r \in CustomResults : MethodReturns(r.ip, r.version)
  /\ UNCHANGED <<fixed, now, call, ended, next, methodsLeft, method, rounds,
                 budget, until>>

\* Its error is its own: whether that says "timed out" is not up to the client.
CustomFails ==
  /\ pc = "custom"
  /\ Report("", "custom", Nil)
  /\ MethodFails([NoResult EXCEPT !.status = "foreign"])
  /\ UNCHANGED <<fixed, now, call, ended, next, methodsLeft, method, rounds,
                 budget, until>>

-----------------------------------------------------------------------------
(* Contexts and time.                                                      *)

Running == pc # "done"

CallEnds(err) ==
  /\ call' = Ended(call, err)
  /\ mctx' = Ended(mctx, err)
  /\ over' = now
  /\ overtime' = IF pc \in {"racing", "custom"} THEN overtime + 1 ELSE overtime

\* A cancellation ends the context of a round that races, too.
CallerCancels ==
  /\ Running /\ call.err = Nil
  /\ CallEnds(Canceled)
  /\ canceled' = TRUE
  /\ until' = IF pc = "racing" /\ Latest(now) < until THEN Latest(now) ELSE until
  /\ UNCHANGED <<fixed, now, pc, next, methodsLeft, method, rounds, budget,
                 failures, result>>

\* The deadline of the call ends what is derived from it too.
CallFires ==
  /\ Running /\ Due(call, now)
  /\ CallEnds(DeadlineExceeded)
  /\ UNCHANGED <<fixed, now, canceled, pc, next, methodsLeft, method, rounds, budget,
                 until, failures, result>>

MethodFires ==
  /\ Running /\ Due(mctx, now) /\ mctx.deadline # call.deadline
  /\ mctx' = Ended(mctx, DeadlineExceeded)
  /\ UNCHANGED <<fixed, now, call, ended, pc, next, methodsLeft, method,
                 rounds, budget, until, failures, result>>

\* Time passes while a round races or a custom discoverer works, no longer than
\* their contracts let them.
Tick ==
  /\ ~ Due(call, now) /\ ~ Due(mctx, now)
  /\ \/ pc = "racing" /\ now < until
     \/ pc = "custom" /\ mctx.err = Nil
        /\ (mctx.deadline = NoDeadline => now < Horizon)
  /\ now' = now + 1
  /\ UNCHANGED <<fixed, call, mctx, ended, pc, next, methodsLeft, method,
                 rounds, budget, until, failures, result>>

Terminated == pc = "done" /\ UNCHANGED vars

Program ==
  \/ StartAll \/ StartOne \/ LoopEnds \/ SkipMethod \/ StartMethod
  \/ Invoke \/ RoundRefused \/ RoundGranted \/ RoundStarts \/ MethodExhausted

RoundEnds == RoundWins \/ RoundLoses

Next ==
  \/ Program \/ RoundEnds \/ CustomReturns \/ CustomFails
  \/ CallerCancels \/ CallFires \/ MethodFires \/ Tick \/ Terminated

\* The contract of Discoverer: it returns when its context is over.
CustomGivesUp == mctx.err # Nil /\ CustomFails

\* A round ends (its goroutines run and its sockets have deadlines, which is what
\* RoundIsRace checks for STUN), timers fire, a custom discoverer obeys its context.
Fairness ==
  /\ WF_vars(Program) /\ WF_vars(RoundEnds) /\ WF_vars(CustomGivesUp)
  /\ WF_vars(CallFires) /\ WF_vars(MethodFires) /\ WF_vars(Tick)

Spec == Init /\ [][Next]_vars /\ Fairness

-----------------------------------------------------------------------------
(* Properties.                                                             *)

\* "A caller of DiscoverWithIPVersion(IPv6Only) must never be handed an IPv4
\* address", nor the other way round, whoever found it.
FamilyPromise ==
  result.status = "found" =>
    /\ version = "IPv6Only" => ~ To4(result.ip)
    /\ version = "IPv4Only" => To4(result.ip)

ReportedAt(i) == {failures[k] : k \in {j \in DOMAIN failures : failures[j].at = i}}

TriedAt(i) == {f.family : f \in {g \in ReportedAt(i) : g.how = "tried"}}

\* "IPv6 is tried before IPv4 for every method": a built-in method returns an
\* IPv4 address to a call for Any only after its IPv6 round was lost.
PrefersIPv6 ==
  result.status = "found" /\ Kind # "custom" /\ version = "Any" /\ To4(result.ip) =>
    "6" \in TriedAt(At)

\* Nothing the entry has to offer is left: a custom discoverer was asked, every
\* family was tried on every target, or the time was over.
Exhausted(i) ==
  LET m == client.methods[i] IN
  \/ \E f \in ReportedAt(i) : f.how \in {"custom", "mismatch", "refused"}
  \/ /\ client.kind[m] # "custom"
     /\ client.targets[m] = 0
        \/ \A k \in DOMAIN FamiliesFor(version) : FamiliesFor(version)[k] \in TriedAt(i)

\* A method runs, or answers, only when each runnable method before it is
\* exhausted: an entry is never passed over with something left to try.
FallbackIsExhaustive ==
  request = "all" /\ (pc \in {"invoke", "rounds", "granted", "racing", "custom"} \/
                      result.status = "found") =>
    \A i \in Runnable : i < At => Exhausted(i)

Refusals == {f \in {failures[k] : k \in DOMAIN failures} : f.how = "refused"}

\* Two units of time for each method, one for each of its rounds.
EnoughTime ==
  call.deadline # NoDeadline => call.deadline >= 2 * CountRunnable

\* The budget of a call is divided so that each of its methods, and each family
\* of a method, gets its turn before the call gives up, whatever stalls: "a
\* method that stalls cannot keep the ones behind it from running".  It is so
\* when every attempt obeys its context, as all but those of STUN do.
QueriesNeverStarve ==
  /\ result.status = "failed" /\ request = "all" /\ ~ canceled
  /\ EnoughTime
  /\ \A i \in Runnable : client.kind[client.methods[i]] # "stun"
  => Refusals = {} /\ \A i \in Runnable : Exhausted(i)

\* TimedOut tells "you did not give anything long enough" from every other end:
\* it is never said of a call that was cancelled, nor of one with time left,
\* though the context of each method but the last ends early.
TimedOutIsTrue ==
  result.timedOut =>
    ~ canceled /\ call.deadline # NoDeadline /\ call.deadline <= now

\* "A method with no discoverer ... would waste a share": the last method that
\* can run has the whole remainder of the call.
LastOwnsRemainder ==
  /\ request = "all"
  /\ pc \in {"invoke", "rounds", "granted", "racing", "custom"}
  /\ \A i \in Runnable : i <= At
  => mctx.deadline = call.deadline

\* Between a look at the context and what is done after it the context may end:
\* in the loop of the client, in that of run, and in the attempts of a round.  All
\* of these together let no more than one round, or one custom discoverer, work
\* on after the end of the call, and none is started behind it.
OneLastAttempt == overtime <= 1

\* "Timeout caps the total time a single discovery call may spend."
CapIsKept == call.deadline # NoDeadline => now <= call.deadline

\* Result.Version "is derived from the address ... so a Result can be trusted
\* even when a discoverer is supplied by the caller".
VersionDescribesAddress ==
  result.status = "found" => result.version = VersionOf(result.ip)

\* The kinds of discoverer the call may reach, and the longest an attempt on a
\* socket may hold it up.
Reached ==
  {client.kind[m] : m \in Discoverers \cap
     (IF request = "all" THEN {client.methods[i] : i \in Entries} ELSE {request})}

Late ==
  IF "stun" \notin Reached THEN 0
  ELSE IF client.attemptTimeout > DefaultAttemptTimeout
       THEN client.attemptTimeout ELSE DefaultAttemptTimeout

Contract == INSTANCE Call WITH
  asked  <- [version |-> version, timeout |-> client.timeout, late |-> Late,
             open |-> "custom" \in Reached],
  ctx    <- call,
  state  <- CASE pc = "start" -> "called" [] pc = "done" -> "returned"
              [] OTHER -> "running",
  answer <- result

\* The two nested loops, their contexts and their budgets are one call that
\* answers the family asked for, comes back by one attempt on a socket after its
\* deadline or its cancellation at the latest, says that it timed out when and
\* only when its context does at that moment, and comes back.
DiscoveryIsCall == Contract!Spec

\* A call returns, whoever does not answer; only a custom discoverer that was
\* given neither a deadline nor a cancellation may keep it.
EveryCallReturns ==
  <>[](\/ pc = "done"
       \/ pc = "custom" /\ mctx.err = Nil /\ mctx.deadline = NoDeadline)
=============================================================================
