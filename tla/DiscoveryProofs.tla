--------------------------- MODULE DiscoveryProofs --------------------------
(***************************************************************************)
(* Theorems of Discovery, for any clients, deadlines and discoverers: what *)
(* the contexts of the call and of its methods have to do with each other, *)
(* and what the caller is told follows from them.                          *)
(***************************************************************************)
EXTENDS Discovery, FiniteSetTheorems, TLAPS

ContextsOK ==
  /\ now \in Nat
  /\ call \in Contexts /\ mctx \in Contexts
  /\ methodsLeft \in Int
  /\ client \in Clients
  /\ canceled \in BOOLEAN

\* Who ended the context of the call.
EndsOK ==
  /\ canceled => call.err = Canceled
  /\ call.err = DeadlineExceeded =>
       call.deadline # NoDeadline /\ call.deadline <= now

\* A named method has the context of the call.
OneContext ==
  /\ request # "all" => mctx = call
  /\ pc = "loop" => request = "all"

\* The end of the call reaches the method that runs.
Inherited ==
  pc \in {"invoke", "rounds", "granted", "racing", "custom"} /\ call.err # Nil =>
    mctx.err # Nil

NotYet == pc # "done" => result = NoResult

IInv ==
  /\ ContextsOK /\ EndsOK /\ OneContext /\ Inherited /\ NotYet
  /\ FamilyPromise /\ TimedOutIsTrue

USE DEF Contexts, Deadlines, ContextErrors, ended

LEMMA Errors == Nil # Canceled /\ Nil # DeadlineExceeded /\ Canceled # DeadlineExceeded
BY DEF Nil, Canceled, DeadlineExceeded

LEMMA EndedFacts ==
  ASSUME NEW c \in Contexts, NEW e \in {Canceled, DeadlineExceeded}
  PROVE  /\ Ended(c, e) \in Contexts
         /\ Ended(c, e).deadline = c.deadline
         /\ Ended(c, e).err = IF c.err = Nil THEN e ELSE c.err
BY DEF Ended

LEMMA WithTimeoutFacts ==
  ASSUME NEW c \in Contexts, NEW t \in Nat, NEW d \in Int
  PROVE  /\ WithTimeout(c, t, d) \in Contexts
         /\ c.err # Nil => WithTimeout(c, t, d).err = c.err
         /\ d > 0 => WithTimeout(c, t, d).err = c.err
         /\ d > 0 /\ c.deadline # NoDeadline /\ c.deadline <= t =>
              WithTimeout(c, t, d) = c
BY NoDeadlineAssumption DEF WithTimeout

LEMMA CallContextFacts ==
  ASSUME ContextsOK, EndsOK
  PROVE  LET c == CallContext(call, now, client.timeout) IN
         /\ c \in Contexts
         /\ c.err = call.err
         /\ c.err = DeadlineExceeded => c = call
<1>1. client.timeout \in Nat /\ now \in Nat /\ call \in Contexts
  BY DiscoveryAssumption DEF ContextsOK, IsClient
<1>2. CASE client.timeout <= 0
  BY <1>1, <1>2 DEF CallContext
<1>3. CASE client.timeout > 0
  <2> DEFINE c == WithTimeout(call, now, client.timeout)
  <2>1. CallContext(call, now, client.timeout) = c
    BY <1>1, <1>3 DEF CallContext
  <2>2. c \in Contexts /\ c.err = call.err
    <3>1. client.timeout \in Int
      BY <1>1
    <3> HIDE DEF Contexts
    <3> QED BY <1>1, <1>3, <3>1, WithTimeoutFacts
  <2>3. call.err = DeadlineExceeded => c = call
    BY <1>1, <1>3, WithTimeoutFacts DEF EndsOK
  <2> QED BY <2>1, <2>2, <2>3
<1> QED BY <1>1, <1>2, <1>3

LEMMA RunnableCount ==
  ASSUME client \in Clients
  PROVE  CountRunnable \in Nat
<1>1. Len(client.methods) \in Nat
  BY DiscoveryAssumption DEF IsClient
<1>2. IsFiniteSet(Entries)
  BY <1>1, FS_Interval DEF Entries
<1>3. IsFiniteSet(Runnable)
  BY <1>2, FS_Subset DEF Runnable
<1> QED
  BY <1>3, FS_CardinalityType DEF CountRunnable

LEMMA MethodContextFacts ==
  ASSUME ContextsOK
  PROVE  MethodContext(call, now, methodsLeft) \in Contexts
<1>1. CASE call.deadline = NoDeadline \/ methodsLeft < 2
  BY <1>1 DEF MethodContext, ContextsOK
<1>2. CASE call.deadline # NoDeadline /\ ~ methodsLeft < 2
  <2>1. Share(call, now, methodsLeft) \in Int
    BY <1>2 DEF ContextsOK, Share, AtLeastOne
  <2> QED
    BY <1>2, <2>1, WithTimeoutFacts DEF MethodContext, ContextsOK
<1> QED BY <1>1, <1>2

-----------------------------------------------------------------------------
(* The steps.                                                              *)

LEMMA InitIInv == Init => IInv
<1> SUFFICES ASSUME Init PROVE IInv OBVIOUS
<1>1. PICK d \in Deadlines : call = Background(d)
  BY DiscoveryAssumption DEF Init
<1>2. call \in Contexts /\ call.err = Nil
  BY <1>1 DEF Background
<1>3. ContextsOK
  <2>1. now = 0 /\ methodsLeft = 0 /\ client \in Clients /\ canceled = FALSE
    BY DEF Init
  <2>2. mctx = call
    BY DEF Init
  <2>3. now \in Nat /\ methodsLeft \in Int
    BY <2>1
  <2>4. canceled \in BOOLEAN
    BY <2>1
  <2> HIDE DEF Contexts
  <2> QED BY <1>2, <2>1, <2>2, <2>3, <2>4, Zenon DEF ContextsOK
<1>4. EndsOK /\ OneContext /\ Inherited /\ NotYet
  BY <1>2, Errors DEF Init, EndsOK, OneContext, Inherited, NotYet
<1>5. FamilyPromise /\ TimedOutIsTrue
  BY DEF Init, FamilyPromise, TimedOutIsTrue, NoResult
<1> QED
  BY <1>3, <1>4, <1>5 DEF IInv

\* A step that leaves the contexts, the request and the clock alone.
Quiet == UNCHANGED <<fixed, now, call, canceled, over>>

LEMMA QuietKeeps ==
  ASSUME IInv, Quiet, mctx' = mctx, methodsLeft' = methodsLeft,
         pc' = "loop" => pc = "loop"
  PROVE  ContextsOK' /\ EndsOK' /\ OneContext'
BY DEF IInv, Quiet, ContextsOK, EndsOK, OneContext, fixed

\* What follows an error keeps the invariant, when the error is true.
LEMMA MethodFailsIInv ==
  ASSUME IInv, Quiet, methodsLeft' = methodsLeft, pc # "done",
         NEW error, MethodFails(error),
         error.status # "found",
         error.timedOut => error = Failed(mctx)
  PROVE  IInv'
<1>1. mctx \in Contexts
  BY DEF IInv, ContextsOK
<1>2. CASE request = "all"
  <2>1. /\ pc' = "loop" /\ mctx' = Ended(mctx, Canceled) /\ result' = result
    BY <1>2 DEF MethodFails
  <2>2. ContextsOK' /\ EndsOK' /\ OneContext'
    BY <1>1, <1>2, <2>1, EndedFacts
       DEF IInv, Quiet, ContextsOK, EndsOK, OneContext, fixed
  <2> QED
    BY <2>1, <2>2 DEF IInv, Quiet, Inherited, NotYet, FamilyPromise,
                     TimedOutIsTrue, NoResult, fixed
<1>3. CASE request # "all"
  <2>1. /\ pc' = "done" /\ result' = error /\ mctx' = mctx
    BY <1>3 DEF MethodFails
  <2>2. ContextsOK' /\ EndsOK' /\ OneContext'
    BY <2>1, QuietKeeps
  <2>3. TimedOutIsTrue'
    <3>1. error.timedOut => call.err = DeadlineExceeded
      BY <1>3 DEF IInv, OneContext, Failed, TimedOut, NoResult
    <3> QED
      BY <2>1, <3>1, Errors DEF IInv, EndsOK, TimedOutIsTrue, Quiet, fixed
  <2> QED
    BY <2>1, <2>2, <2>3 DEF IInv, Inherited, NotYet, FamilyPromise
<1> QED BY <1>2, <1>3

LEMMA MethodReturnsIInv ==
  ASSUME IInv, Quiet, methodsLeft' = methodsLeft, pc # "done",
         NEW ip, NEW v, MethodReturns(ip, v)
  PROVE  IInv'
<1>1. CASE Accepts(ip)
  <2>1. /\ pc' = "done" /\ mctx' = mctx
        /\ result' = [status |-> "found", ip |-> ip, version |-> v, timedOut |-> FALSE]
    BY <1>1 DEF MethodReturns
  <2>2. ContextsOK' /\ EndsOK' /\ OneContext'
    BY <2>1, QuietKeeps
  <2>3. /\ version = "IPv6Only" => ~ To4(ip)
        /\ version = "IPv4Only" => To4(ip)
    BY <1>1 DEF Accepts, FamilyMismatch, FamilyOf
  <2> QED
    BY <2>1, <2>2, <2>3 DEF IInv, Inherited, NotYet, FamilyPromise, TimedOutIsTrue,
                            Quiet, fixed
<1>2. CASE ~ Accepts(ip)
  <2>1. MethodFails(Failed(mctx))
    BY <1>2 DEF MethodReturns
  <2> QED
    BY <2>1, MethodFailsIInv DEF Failed, NoResult
<1> QED BY <1>1, <1>2

\* Steps within a method that touch neither contexts nor the result.
LEMMA WithinIInv ==
  ASSUME IInv, Quiet, mctx' = mctx, methodsLeft' = methodsLeft, result' = result,
         pc \in {"invoke", "rounds", "granted", "racing"},
         pc' \in {"rounds", "granted", "racing", "custom"}
  PROVE  IInv'
<1>1. ContextsOK' /\ EndsOK' /\ OneContext'
  BY QuietKeeps
<1> QED
  BY <1>1 DEF IInv, Inherited, NotYet, FamilyPromise, TimedOutIsTrue, Quiet, fixed,
              NoResult

\* An end of a context, wherever it comes from.
LEMMA ContextIInv ==
  ASSUME IInv, CallerCancels \/ CallFires \/ MethodFires
  PROVE  IInv'
<1>1. /\ pc # "done" /\ UNCHANGED <<fixed, now, pc, methodsLeft, result>>
  BY DEF CallerCancels, CallFires, CallEnds, MethodFires, Running
<1>2. call \in Contexts /\ mctx \in Contexts /\ now \in Nat
  BY DEF IInv, ContextsOK
<1>3. NotYet' /\ FamilyPromise' /\ TimedOutIsTrue'
  BY <1>1 DEF IInv, NotYet, FamilyPromise, TimedOutIsTrue, NoResult, fixed
<1>4. CASE CallerCancels
  <2>1. /\ call.err = Nil /\ canceled' = TRUE
        /\ call' = Ended(call, Canceled) /\ mctx' = Ended(mctx, Canceled)
    BY <1>4 DEF CallerCancels, CallEnds
  <2>2. ContextsOK'
    BY <1>1, <1>2, <2>1, EndedFacts DEF IInv, ContextsOK, fixed
  <2>3. EndsOK' /\ Inherited'
    BY <1>2, <2>1, EndedFacts, Errors DEF EndsOK, Inherited
  <2>4. OneContext'
    BY <1>1, <2>1 DEF IInv, OneContext, fixed
  <2> QED BY <1>3, <2>2, <2>3, <2>4 DEF IInv
<1>5. CASE CallFires
  <2>1. /\ call.err = Nil /\ canceled' = canceled
        /\ call.deadline # NoDeadline /\ call.deadline <= now
        /\ call' = Ended(call, DeadlineExceeded)
        /\ mctx' = Ended(mctx, DeadlineExceeded)
    BY <1>5 DEF CallFires, CallEnds, Due
  <2>2. ContextsOK'
    BY <1>1, <1>2, <2>1, EndedFacts DEF IInv, ContextsOK, fixed
  <2>3. EndsOK' /\ Inherited'
    BY <1>1, <1>2, <2>1, EndedFacts, Errors DEF IInv, EndsOK, Inherited
  <2>4. OneContext'
    BY <1>1, <2>1 DEF IInv, OneContext, fixed
  <2> QED BY <1>3, <2>2, <2>3, <2>4 DEF IInv
<1>6. CASE MethodFires
  <2>1. /\ mctx.deadline # call.deadline /\ UNCHANGED <<call, canceled>>
        /\ mctx' = Ended(mctx, DeadlineExceeded)
    BY <1>6 DEF MethodFires
  <2>2. ContextsOK'
    BY <1>1, <1>2, <2>1, EndedFacts DEF IInv, ContextsOK, fixed
  <2>3. EndsOK' /\ Inherited'
    BY <1>1, <1>2, <2>1, EndedFacts, Errors DEF IInv, EndsOK, Inherited
  <2>4. OneContext'
    BY <1>1, <2>1 DEF IInv, OneContext, fixed
  <2> QED BY <1>3, <2>2, <2>3, <2>4 DEF IInv
<1> QED BY <1>4, <1>5, <1>6

LEMMA StepIInv == IInv /\ [Next]_vars => IInv'
<1> SUFFICES ASSUME IInv, [Next]_vars PROVE IInv'
  OBVIOUS
<1>1. CASE StartAll
  <2>1. /\ call' = CallContext(call, now, client.timeout)
        /\ methodsLeft' = CountRunnable
        /\ pc' = "loop" /\ pc = "start" /\ request = "all"
        /\ UNCHANGED <<fixed, now, mctx, canceled, result>>
    BY <1>1 DEF StartAll
  <2>2. ContextsOK'
    BY <2>1, CallContextFacts, RunnableCount DEF IInv, ContextsOK, fixed
  <2>3. EndsOK'
    BY <2>1, CallContextFacts DEF IInv, EndsOK
  <2> QED
    BY <2>1, <2>2, <2>3 DEF IInv, OneContext, Inherited, NotYet, FamilyPromise,
                            TimedOutIsTrue, NoResult, fixed
<1>2. CASE StartOne
  <2>1. CASE request \in Discoverers
    <3>1. /\ call' = CallContext(call, now, client.timeout) /\ mctx' = call'
          /\ pc' = "invoke" /\ pc = "start"
          /\ UNCHANGED <<fixed, now, methodsLeft, canceled, result>>
      BY <1>2, <2>1 DEF StartOne
    <3>2. ContextsOK'
      BY <3>1, CallContextFacts DEF IInv, ContextsOK, fixed
    <3>3. EndsOK'
      BY <3>1, CallContextFacts DEF IInv, EndsOK
    <3> QED
      BY <3>1, <3>2, <3>3 DEF IInv, OneContext, Inherited, NotYet, FamilyPromise,
                              TimedOutIsTrue, NoResult, fixed
  <2>2. CASE request \notin Discoverers
    <3>1. /\ Quiet /\ mctx' = mctx /\ methodsLeft' = methodsLeft /\ pc' = "done"
          /\ result' = [NoResult EXCEPT !.status = "unsupported"]
      BY <1>2, <2>2 DEF StartOne, Quiet
    <3>2. ContextsOK' /\ EndsOK' /\ OneContext'
      BY <3>1, QuietKeeps
    <3> QED
      BY <3>1, <3>2 DEF IInv, Inherited, NotYet, FamilyPromise, TimedOutIsTrue,
                        NoResult
  <2> QED BY <2>1, <2>2
<1>3. CASE LoopEnds
  <2>1. /\ Quiet /\ mctx' = mctx /\ methodsLeft' = methodsLeft /\ pc' = "done"
        /\ result' = Failed(call)
    BY <1>3 DEF LoopEnds, Quiet
  <2>2. ContextsOK' /\ EndsOK' /\ OneContext'
    BY <2>1, QuietKeeps
  <2>3. TimedOutIsTrue'
    <3>1. result'.timedOut => call.err = DeadlineExceeded
      BY <2>1 DEF Failed, TimedOut, NoResult
    <3> QED
      BY <2>1, <3>1, Errors DEF IInv, EndsOK, TimedOutIsTrue, Quiet, fixed
  <2> QED
    BY <2>1, <2>2, <2>3 DEF IInv, Inherited, NotYet, FamilyPromise, Failed, NoResult
<1>4. CASE SkipMethod
  <2>1. Quiet /\ UNCHANGED <<mctx, methodsLeft, pc, result>>
    BY <1>4 DEF SkipMethod, Quiet
  <2>2. ContextsOK' /\ EndsOK' /\ OneContext'
    BY <2>1, QuietKeeps
  <2> QED
    BY <2>1, <2>2 DEF IInv, Inherited, NotYet, FamilyPromise, TimedOutIsTrue,
                      Quiet, fixed
<1>5. CASE StartMethod
  <2>1. /\ Quiet /\ mctx' = MethodContext(call, now, methodsLeft)
        /\ methodsLeft' = methodsLeft - 1 /\ call.err = Nil
        /\ pc = "loop" /\ pc' = "invoke" /\ result' = result
    BY <1>5 DEF StartMethod, Quiet
  <2>2. ContextsOK' /\ EndsOK'
    BY <2>1, MethodContextFacts DEF IInv, ContextsOK, EndsOK, Quiet, fixed
  <2>3. OneContext'
    BY <2>1 DEF IInv, OneContext, Quiet, fixed
  <2> QED
    BY <2>1, <2>2, <2>3 DEF IInv, Inherited, NotYet, FamilyPromise, TimedOutIsTrue,
                            Quiet, fixed, NoResult
<1>6. CASE Invoke
  BY <1>6, WithinIInv DEF Invoke, Quiet
<1>7. CASE RoundRefused \/ RoundGranted \/ RoundStarts \/ RoundLoses
  BY <1>7, WithinIInv DEF RoundRefused, RoundGranted, RoundStarts, RoundLoses, Quiet
<1>8. CASE RoundWins
  BY <1>8, MethodReturnsIInv DEF RoundWins, Quiet
<1>9. CASE MethodExhausted
  BY <1>9, MethodFailsIInv DEF MethodExhausted, Quiet, Failed, NoResult
<1>10. CASE CustomReturns
  BY <1>10, MethodReturnsIInv DEF CustomReturns, Quiet
<1>11. CASE CustomFails
  BY <1>11, MethodFailsIInv DEF CustomFails, Quiet, NoResult
<1>12. CASE CallerCancels \/ CallFires \/ MethodFires
  BY <1>12, ContextIInv
<1>13. CASE Tick
  <2>1. /\ now' = now + 1
        /\ UNCHANGED <<fixed, call, mctx, canceled, pc, methodsLeft, result>>
    BY <1>13 DEF Tick
  <2>2. ContextsOK' /\ EndsOK'
    BY <2>1 DEF IInv, ContextsOK, EndsOK, fixed
  <2>3. TimedOutIsTrue'
    BY <2>1 DEF IInv, TimedOutIsTrue, ContextsOK
  <2> QED
    BY <2>1, <2>2, <2>3 DEF IInv, OneContext, Inherited, NotYet, FamilyPromise, fixed
<1>14. CASE UNCHANGED vars
  BY <1>14 DEF vars, IInv, ContextsOK, EndsOK, OneContext, Inherited, NotYet,
               FamilyPromise, TimedOutIsTrue, fixed
<1> QED
  BY <1>1, <1>2, <1>3, <1>4, <1>5, <1>6, <1>7, <1>8, <1>9, <1>10, <1>11, <1>12,
     <1>13, <1>14
  DEF Next, Program, RoundEnds, Terminated

THEOREM Invariance == Spec => []IInv
BY InitIInv, StepIInv, PTL DEF Spec

\* Whoever finds it, a caller who asked for one family is never handed an
\* address of the other.
THEOREM RightFamily == Spec => []FamilyPromise
BY Invariance, PTL DEF IInv

\* A call is reported as timed out only when its own deadline has passed and
\* nobody cancelled it.
THEOREM TimeoutsAreTrue == Spec => []TimedOutIsTrue
BY Invariance, PTL DEF IInv

\* What may still start has not been counted: one thing at most, and only where
\* the context has been looked at for the last time.
OvertimeOK ==
  /\ overtime \in {0, 1}
  /\ call.err = Nil \/ pc \in {"start", "invoke", "granted"} => overtime = 0

LEMMA OvertimeStill ==
  ASSUME OvertimeOK, overtime' = overtime, call'.err = call.err,
         pc' \in {"start", "invoke", "granted"} =>
           call.err = Nil \/ pc \in {"start", "invoke", "granted"}
  PROVE  OvertimeOK'
BY DEF OvertimeOK

\* What was granted, or asked for, before the end may start after it; then the
\* end is noticed before anything else starts.
LEMMA OvertimeStep == IInv /\ OvertimeOK /\ [Next]_vars => OvertimeOK'
<1> SUFFICES ASSUME IInv, OvertimeOK, [Next]_vars PROVE OvertimeOK'
  OBVIOUS
<1>1. CASE StartAll \/ StartOne
  <2>1. call'.err = call.err
    BY <1>1, CallContextFacts DEF IInv, StartAll, StartOne
  <2>2. pc = "start" /\ overtime' = overtime
    BY <1>1 DEF StartAll, StartOne
  <2> QED BY <2>1, <2>2, OvertimeStill
<1>2. CASE LoopEnds \/ SkipMethod \/ StartMethod \/ RoundRefused \/ RoundLoses
  BY <1>2, OvertimeStill
     DEF LoopEnds, SkipMethod, StartMethod, RoundRefused, RoundLoses
<1>3. CASE RoundWins \/ MethodExhausted \/ CustomReturns \/ CustomFails
  <2>1. UNCHANGED <<call, overtime>> /\ pc' \in {"loop", "done"}
    BY <1>3 DEF RoundWins, MethodExhausted, CustomReturns, CustomFails,
                MethodReturns, MethodFails
  <2> QED BY <2>1, OvertimeStill
<1>4. CASE RoundGranted
  <2>1. /\ UNCHANGED <<call, overtime>> /\ pc = "rounds" /\ Granted.ok
    BY <1>4 DEF RoundGranted
  <2>2. mctx.err = Nil
    BY <2>1 DEF Granted, AttemptBudget, Refused
  <2>3. call.err = Nil
    BY <2>1, <2>2 DEF IInv, Inherited
  <2> QED BY <2>1, <2>3, OvertimeStill
<1>5. CASE Invoke \/ RoundStarts
  <2>1. /\ pc \in {"invoke", "granted"} /\ pc' \in {"custom", "rounds", "racing"}
        /\ call' = call /\ (WorkStarts \/ overtime' = overtime)
    BY <1>5 DEF Invoke, RoundStarts
  <2> QED BY <2>1 DEF OvertimeOK, WorkStarts
<1>6. CASE CallerCancels \/ CallFires
  <2>1. /\ call.err = Nil /\ pc' = pc
        /\ overtime' = IF pc \in {"racing", "custom"} THEN overtime + 1 ELSE overtime
        /\ \E e \in {Canceled, DeadlineExceeded} : call' = Ended(call, e)
    BY <1>6 DEF CallerCancels, CallFires, CallEnds, Due
  <2>2. call'.err # Nil
    BY <2>1, EndedFacts, Errors DEF IInv, ContextsOK
  <2> QED BY <2>1, <2>2 DEF OvertimeOK
<1>7. CASE MethodFires \/ Tick \/ UNCHANGED vars
  BY <1>7, OvertimeStill DEF MethodFires, Tick, vars
<1> QED
  BY <1>1, <1>2, <1>3, <1>4, <1>5, <1>6, <1>7 DEF Next, Program, RoundEnds, Terminated

LEMMA OvertimeInvariance == Spec => []OvertimeOK
<1>1. Init => OvertimeOK
  BY DEF Init, OvertimeOK
<1> QED
  BY <1>1, OvertimeStep, Invariance, PTL DEF Spec

\* Whoever ends a call and between whichever steps, including the look of
\* attemptBudget at the context and the start of the round it allows: at most one
\* round or custom discoverer works on, or starts, after the end.
THEOREM OneWorksOn == Spec => []OneLastAttempt
<1>1. OvertimeOK => OneLastAttempt
  BY DEF OvertimeOK, OneLastAttempt
<1> QED
  BY <1>1, OvertimeInvariance, PTL
=============================================================================
