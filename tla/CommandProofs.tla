---------------------------- MODULE CommandProofs ---------------------------
(***************************************************************************)
(* Theorems of Command, for any command line, hosts and width of a         *)
(* Duration.  What reportAll says at the end is true because of what holds *)
(* after each call: every address that was heard is credited once, to the  *)
(* call that came first, and every call is heard of or explained.          *)
(***************************************************************************)
EXTENDS Command, FiniteSetTheorems, TLAPS

-----------------------------------------------------------------------------
(* The invariant.                                                          *)

\* A call has returned an address that reportAll has not looked at.
Arriving == Returned /\ Found

\* How much of heard has been looked at.
Taken == IF Arriving THEN Len(heard) - 1 ELSE Len(heard)

\* The command did not stop at its flags.
Began == pc # "start" /\ (pc = "done" => k > 0)

Types ==
  /\ flags \in FlagSets
  /\ pc \in {"start", "ask", "calling", "family", "report", "done"}
  /\ asked \in [version : Versions, timeout : {0}, open : {FALSE},
                late : {0, DefaultAttemptTimeout}]
  /\ now \in Nat
  /\ ctx \in [deadline : Int \cup {NoDeadline}, err : {Nil, DeadlineExceeded}]
  /\ over \in Nat
  /\ state \in {"called", "running", "returned"}
  /\ k \in 0 .. Calls
  /\ findings \in Seq(Reports) /\ heard \in Seq(Reports)
  /\ problems \in Seq(Explanations)
  /\ exit \in {"none", "ok", "error"}
  /\ output.addresses \in Seq(Reports) /\ output.problems \in Seq(Explanations)
  /\ written \in BOOLEAN

\* The context ends when its deadline has come, and not after the budget.
ContextOK ==
  /\ ~ Began => now = 0 /\ ctx = Background(NoDeadline)
  /\ Began => ctx.deadline = Duration(flags.timeout) /\ Version # "invalid"
  /\ Began /\ ctx.err = Nil => now <= ctx.deadline
  /\ ctx.err # Nil => Began /\ ctx.deadline <= now /\ over <= Budget

\* The loops stop at the last call, or when the context is over.
LoopOK ==
  /\ pc = "start" => k = 0 /\ heard = <<>> /\ findings = <<>> /\ problems = <<>>
  /\ pc = "ask" => k < Calls
  /\ pc \in {"calling", "family", "report"} => k > 0
  /\ pc = "family" => k % 3 = 0 \/ ctx.err # Nil
  /\ flags.all /\ k > 0 /\ pc \in {"report", "done"} => k = Calls \/ ctx.err # Nil
  /\ ~ flags.all => pc \notin {"family", "report"}

\* Each call is heard of once at most, in the order of the calls.
HeardOK ==
  /\ \A i, j \in DOMAIN heard : i < j => heard[i].n < heard[j].n
  /\ \A i \in 1 .. Taken : heard[i].n <= IF pc = "calling" THEN k - 1 ELSE k
  /\ Arriving => heard # <<>> /\ heard[Len(heard)].n = k
  /\ ~ flags.all /\ heard # <<>> => Arriving \/ pc = "done"

FirstReports(n) == {heard[i] : i \in {j \in 1 .. n : FirstReport(j)}}

\* What was looked at is credited, once, to the call that came first.
Credited ==
  flags.all =>
    /\ {findings[i] : i \in DOMAIN findings} = FirstReports(Taken)
    /\ \A i \in 1 .. Taken : \E j \in DOMAIN findings : SameAddress(findings[j], heard[i])
    /\ \A i, j \in DOMAIN findings : i < j => findings[i].n < findings[j].n

ExplainedSoFar(n) == \E i \in DOMAIN problems : problems[i].n = n

Accounted ==
  flags.all /\ flags.verbose =>
    \A n \in 1 .. k : (n = k /\ pc = "calling") \/ Heard(n) \/ ExplainedSoFar(n)

\* The loops end with the call that finds the budget gone.
BudgetOK ==
  \A i \in DOMAIN problems :
    problems[i].why = "budget" =>
      /\ i = Len(problems) /\ problems[i].n = k
      /\ ctx.err # Nil /\ pc \in {"family", "report", "done"}

\* What the command leaves behind.
DoneOK ==
  pc = "done" /\ k > 0 =>
    /\ exit = "ok" => heard # <<>>
    /\ exit = "error" => heard = <<>> \/ (flags.json /\ ~ written)
    /\ flags.all /\ written =>
         /\ output.addresses = findings
         /\ flags.verbose => output.problems = problems

IInv ==
  /\ Types /\ ContextOK /\ LoopOK /\ HeardOK /\ Credited /\ Accounted /\ BudgetOK
  /\ DoneOK /\ CommandIsBounded

-----------------------------------------------------------------------------
(* Facts about the operators.                                              *)

\* There are as many subsets of n things as 2 ^ n says.
LEMMA PowersArePositive ==
  ASSUME NEW n \in Nat
  PROVE  2 ^ n \in Nat \ {0}
<1>1. IsFiniteSet(1 .. n) /\ Cardinality(1 .. n) = n
  BY FS_Interval
<1>2. IsFiniteSet(SUBSET (1 .. n)) /\ Cardinality(SUBSET (1 .. n)) = 2 ^ n
  BY <1>1, FS_SUBSET
<1>3. SUBSET (1 .. n) # {}
  OBVIOUS
<1> QED BY <1>2, <1>3, FS_CardinalityType, FS_EmptySet

LEMMA DurationFacts ==
  ASSUME flags \in FlagSets
  PROVE  Duration(flags.timeout) \in Int
<1>1. flags.timeout \in Int /\ Second \in Nat /\ Width \in Nat /\ Width - 1 \in Nat
  BY CommandAssumption
<1>2. 2 ^ Width \in Nat \ {0} /\ 2 ^ (Width - 1) \in Nat
  BY <1>1, PowersArePositive
<1>3. \A a, h \in Int, m \in Nat \ {0} : ((a + h) % m) - h \in Int
  OBVIOUS
<1>4. flags.timeout * Second \in Int
  BY <1>1
<1> QED BY <1>2, <1>3, <1>4 DEF Duration

LEMMA CallsFacts ==
  /\ Len(Methods) = 3
  /\ Calls \in {1, 3, 6}
  /\ flags.all => Calls \in {3, 6} /\ Calls = 3 * Len(FamiliesAsked)
  /\ ~ flags.all => Calls = 1
<1>1. Len(Methods) = 3
  BY DEF Methods
<1>2. Len(FamiliesAsked) \in {1, 2}
  BY DEF FamiliesAsked
<1>3. CASE flags.all
  <2>1. Calls = 3 * Len(FamiliesAsked)
    BY <1>1, <1>3 DEF Calls
  <2>2. CASE Len(FamiliesAsked) = 1
    BY <1>1, <1>3, <2>1, <2>2
  <2>3. CASE Len(FamiliesAsked) = 2
    BY <1>1, <1>3, <2>1, <2>3
  <2> QED BY <1>2, <2>2, <2>3
<1>4. CASE ~ flags.all
  <2>1. Calls = 1
    BY <1>4 DEF Calls
  <2> QED BY <1>1, <1>4, <2>1
<1> QED BY <1>3, <1>4

LEMMA QuestionFacts ==
  ASSUME NEW n \in 1 .. Calls, Version # "invalid"
  PROVE  Question(n) \in [version : Versions, timeout : {0}, open : {FALSE},
                          late : {0, DefaultAttemptTimeout}]
<1>1. Version \in Versions
  BY DEF Version, ParseVersion, Versions
<1>2. VersionAsked(n) \in Versions
  <2>1. CASE ~ flags.all
    BY <1>1, <2>1 DEF VersionAsked
  <2>2. CASE flags.all
    <3>1. Calls = 3 * Len(FamiliesAsked) /\ Len(Methods) = 3
      BY <2>2, CallsFacts
    <3>2. CASE Version = "Any"
      <4>1. FamiliesAsked = <<"IPv6Only", "IPv4Only">>
        BY <3>2 DEF FamiliesAsked
      <4>2. n \in 1 .. 6
        BY <3>1, <4>1
      <4>3. ((n - 1) \div 3) + 1 \in {1, 2}
        BY <4>2
      <4> QED BY <2>2, <3>1, <4>1, <4>3 DEF VersionAsked, Versions
    <3>3. CASE Version # "Any"
      <4>1. FamiliesAsked = <<Version>>
        BY <3>3 DEF FamiliesAsked
      <4>2. n \in 1 .. 3
        BY <3>1, <4>1
      <4>3. ((n - 1) \div 3) + 1 = 1
        BY <4>2
      <4> QED BY <1>1, <2>2, <3>1, <4>1, <4>3 DEF VersionAsked
    <3> QED BY <3>2, <3>3
  <2> QED BY <2>1, <2>2
<1> QED BY <1>2 DEF Question

\* What was heard first stays first.
LEMMA FirstStays ==
  ASSUME heard \in Seq(Reports), NEW r \in Reports, heard' = Append(heard, r),
         NEW n \in 0 .. Len(heard)
  PROVE  FirstReports(n)' = FirstReports(n)
<1>1. \A i \in 1 .. n : heard'[i] = heard[i]
  OBVIOUS
<1>2. \A i \in 1 .. n : FirstReport(i)' <=> FirstReport(i)
  <2> SUFFICES ASSUME NEW i \in 1 .. n PROVE FirstReport(i)' <=> FirstReport(i)
    OBVIOUS
  <2>1. \A j \in 1 .. i - 1 : heard'[j] = heard[j]
    BY <1>1
  <2> QED BY <1>1, <2>1 DEF FirstReport
<1> QED BY <1>1, <1>2 DEF FirstReports

\* A step that looks at no address leaves the credits alone.
LEMMA StillCredited ==
  ASSUME IInv, UNCHANGED <<flags, heard, findings>>, Taken' = Taken
  PROVE  Credited'
BY DEF IInv, Credited, FirstReports, FirstReport

LEMMA TakenFacts ==
  ASSUME IInv
  PROVE  /\ Len(heard) \in Nat /\ DOMAIN heard = 1 .. Len(heard)
         /\ Taken \in 0 .. Len(heard)
         /\ Arriving => Taken = Len(heard) - 1 /\ Address \in Reports
                        /\ Address = heard[Taken + 1] /\ Address.n = k
         /\ ~ Arriving => Taken = Len(heard)
<1>1. heard \in Seq(Reports) /\ Len(heard) \in Nat /\ DOMAIN heard = 1 .. Len(heard)
  BY DEF IInv, Types
<1>2. CASE Arriving
  <2>1. heard # <<>> /\ heard[Len(heard)].n = k
    BY <1>2 DEF IInv, HeardOK
  <2>2. Len(heard) >= 1
    BY <1>1, <2>1
  <2>3. heard[Len(heard)] \in Reports
    BY <1>1, <2>2
  <2> QED BY <1>1, <1>2, <2>1, <2>2, <2>3 DEF Taken, Address
<1>3. CASE ~ Arriving
  <2>1. Taken = Len(heard)
    BY <1>3 DEF Taken
  <2>2. Taken \in 0 .. Len(heard)
    BY <1>1, <2>1
  <2> QED BY <1>1, <1>3, <2>1, <2>2
<1> QED BY <1>1, <1>2, <1>3

LEMMA NumberFacts ==
  ASSUME IInv
  PROVE  k \in Nat /\ now \in Nat /\ k <= Calls /\ Calls \in Nat
<1>1. k \in 0 .. Calls /\ now \in Nat
  BY DEF IInv, Types
<1>2. Calls \in Nat
  BY CallsFacts
<1> QED BY <1>1, <1>2

-----------------------------------------------------------------------------
(* The calls.                                                              *)

USE DEF Probe!Nil, Nil, Probe!Canceled, Canceled, Probe!DeadlineExceeded, DeadlineExceeded

LEMMA InitIInv == Init => IInv
<1> SUFFICES ASSUME Init PROVE IInv
  OBVIOUS
<1>1. /\ flags \in FlagSets /\ pc = "start" /\ now = 0 /\ k = 0
      /\ ctx = Background(NoDeadline) /\ state = "returned"
      /\ asked = [version |-> "Any", timeout |-> 0, open |-> FALSE, late |-> 0]
      /\ findings = <<>> /\ problems = <<>> /\ heard = <<>> /\ exit = "none"
      /\ output = Nothing /\ over = 0 /\ written = TRUE
  BY DEF Init
<1>2. ~ Arriving /\ Taken = 0
  BY <1>1 DEF Arriving, Returned, Taken
<1>3. Types
  <2>1. k \in 0 .. Calls
    BY <1>1, CallsFacts
  <2>2. ctx \in [deadline : Int \cup {NoDeadline}, err : {Nil, DeadlineExceeded}]
    BY <1>1 DEF Background
  <2>3. asked \in [version : Versions, timeout : {0}, open : {FALSE},
                   late : {0, DefaultAttemptTimeout}]
    BY <1>1 DEF Versions
  <2>4. output.addresses = <<>> /\ output.problems = <<>>
    BY <1>1 DEF Nothing
  <2>5. <<>> \in Seq(Reports) /\ <<>> \in Seq(Explanations)
    OBVIOUS
  <2> QED BY <1>1, <2>1, <2>2, <2>3, <2>4, <2>5 DEF Types
<1>4. ContextOK /\ LoopOK
  BY <1>1 DEF ContextOK, LoopOK, Began, Background
<1>5. HeardOK
  BY <1>1, <1>2 DEF HeardOK
<1>6. Credited /\ Accounted /\ BudgetOK /\ DoneOK
  BY <1>1, <1>2 DEF Credited, FirstReports, Accounted, BudgetOK, DoneOK
<1>7. CommandIsBounded
  <2>1. Duration(flags.timeout) \in Int
    BY <1>1, DurationFacts
  <2>2. Budget \in Nat
    BY <2>1 DEF Budget
  <2> QED BY <1>1, <2>2, DefaultAttemptTimeoutAssumption DEF CommandIsBounded
<1> QED BY <1>3, <1>4, <1>5, <1>6, <1>7 DEF IInv

LEMMA BoundStays ==
  ASSUME IInv, UNCHANGED <<flags, now>>
  PROVE  CommandIsBounded'
BY DEF IInv, CommandIsBounded, Budget, Duration

LEMMA ContextStays ==
  ASSUME IInv, UNCHANGED <<flags, now, ctx, over>>, Began' = Began
  PROVE  ContextOK'
BY DEF IInv, ContextOK, Version, Budget, Duration

LEMMA StepNothingToDo == ASSUME IInv, NothingToDo PROVE IInv'
<1>1. /\ pc = "start" /\ pc' = "done" /\ exit' \in {"ok", "error"}
      /\ UNCHANGED <<flags, asked, now, ctx, over, state, answer, k, findings, problems,
                     output, written, heard>>
      /\ k = 0 /\ heard = <<>> /\ findings = <<>> /\ problems = <<>>
  BY DEF NothingToDo, Exit, call, IInv, LoopOK
<1>2. ~ Arriving' /\ Taken' = 0 /\ Calls' = Calls
  BY <1>1 DEF Arriving, Returned, Taken, Calls, FamiliesAsked, Version
<1>3. Types'
  BY <1>1, <1>2 DEF IInv, Types
<1>4. ContextOK' /\ LoopOK'
  <2>1. Began' = Began
    BY <1>1 DEF Began
  <2>2. ContextOK'
    BY <1>1, <2>1, ContextStays
  <2> QED BY <1>1, <2>2 DEF LoopOK
<1>5. HeardOK'
  BY <1>1, <1>2 DEF HeardOK
<1>6. Credited' /\ Accounted' /\ BudgetOK' /\ DoneOK'
  BY <1>1, <1>2 DEF Credited, FirstReports, Accounted, BudgetOK, DoneOK
<1> QED BY <1>1, <1>3, <1>4, <1>5, <1>6, BoundStays DEF IInv

LEMMA StepRun == ASSUME IInv, Run PROVE IInv'
<1>1. /\ pc = "start" /\ pc' = "ask" /\ Version # "invalid"
      /\ ctx' = WithTimeout(ctx, now, Duration(flags.timeout)) /\ over' = now
      /\ UNCHANGED <<flags, asked, now, state, answer, k, findings, problems, exit,
                     output, written, heard>>
      /\ k = 0 /\ heard = <<>> /\ findings = <<>> /\ problems = <<>>
      /\ now = 0 /\ ctx = Background(NoDeadline)
  BY DEF Run, Rejected, report, IInv, LoopOK, ContextOK, Began
<1>2. ~ Arriving' /\ Taken' = 0 /\ Calls' = Calls
  BY <1>1 DEF Arriving, Returned, Taken, Calls, FamiliesAsked, Version
<1>3. PICK d \in Int : d = Duration(flags.timeout)
  BY DurationFacts DEF IInv, Types
<1>4. ctx' = [deadline |-> d, err |-> IF d <= 0 THEN DeadlineExceeded ELSE Nil]
  <2>1. ctx' = WithTimeout([deadline |-> NoDeadline, err |-> Nil], 0, d)
    BY <1>1, <1>3 DEF Background
  <2>2. 0 + d = d
    BY <1>3
  <2> QED BY <2>1, <2>2 DEF WithTimeout
<1>5. Types'
  <2>1. ctx' \in [deadline : Int \cup {NoDeadline}, err : {Nil, DeadlineExceeded}]
    BY <1>3, <1>4
  <2> QED BY <1>1, <1>2, <2>1 DEF IInv, Types
<1>6. ContextOK'
  <2>1. Began' /\ Version' # "invalid" /\ d = Duration(flags.timeout)'
    BY <1>1, <1>3 DEF Began, Version, Duration
  <2>2. /\ ctx'.deadline = d
        /\ ctx'.err = Nil => d > 0
        /\ ctx'.err # Nil => d <= 0
    <3>1. CASE d <= 0
      BY <1>4, <3>1
    <3>2. CASE ~ (d <= 0)
      BY <1>3, <1>4, <3>2
    <3> QED BY <3>1, <3>2
  <2>3. Budget' = IF d > 0 THEN d ELSE 0
    BY <1>1, <1>3 DEF Budget, Duration
  <2>4. now' = 0 /\ over' = 0 /\ over' <= Budget'
    BY <1>1, <1>3, <2>3
  <2> QED BY <1>1, <1>3, <2>1, <2>2, <2>4 DEF ContextOK
<1>7. LoopOK'
  <2>1. 0 < Calls
    BY CallsFacts
  <2> QED BY <1>1, <1>2, <2>1 DEF LoopOK
<1>8. HeardOK'
  BY <1>1, <1>2 DEF HeardOK
<1>9. Credited' /\ Accounted' /\ BudgetOK' /\ DoneOK'
  BY <1>1, <1>2 DEF Credited, FirstReports, Accounted, BudgetOK, DoneOK
<1> QED BY <1>1, <1>5, <1>6, <1>7, <1>8, <1>9, BoundStays DEF IInv

LEMMA StepAsk == ASSUME IInv, Ask PROVE IInv'
<1>1. /\ pc = "ask" /\ pc' = "calling" /\ k' = k + 1 /\ asked' = Question(k + 1)
      /\ state' = "called" /\ k < Calls
      /\ UNCHANGED <<flags, now, ctx, over, findings, problems, exit, output,
                     written, heard>>
  BY DEF Ask, report, IInv, LoopOK
<1>2. ~ Arriving /\ ~ Arriving' /\ Taken = Len(heard) /\ Taken' = Taken /\ Calls' = Calls
  BY <1>1 DEF Arriving, Returned, Taken, Calls, FamiliesAsked, Version
<1>3. k \in Nat /\ k + 1 \in 1 .. Calls /\ Version # "invalid"
  <2>1. k \in 0 .. Calls /\ Version # "invalid"
    BY <1>1 DEF IInv, Types, ContextOK, Began
  <2> QED BY <1>1, <2>1, CallsFacts
<1>4. Types'
  <2>1. asked' \in [version : Versions, timeout : {0}, open : {FALSE},
                    late : {0, DefaultAttemptTimeout}]
    BY <1>1, <1>3, QuestionFacts
  <2>2. k' \in 0 .. Calls'
    BY <1>1, <1>2, <1>3, CallsFacts
  <2> QED BY <1>1, <2>1, <2>2 DEF IInv, Types
<1>5. ContextOK'
  <2>1. Began' = Began
    BY <1>1 DEF Began
  <2> QED BY <1>1, <2>1, ContextStays
<1>6. LoopOK'
  BY <1>1, <1>2, <1>3 DEF LoopOK
<1>7. HeardOK'
  <2>1. \A i \in 1 .. Taken : heard[i].n <= k
    BY <1>1 DEF IInv, HeardOK
  <2>2. ~ flags.all => heard = <<>>
    BY <1>1, <1>2 DEF IInv, HeardOK
  <2>3. \A i \in 1 .. Taken' : heard'[i].n <= k' - 1
    BY <1>1, <1>2, <1>3, <2>1
  <2> QED BY <1>1, <1>2, <2>2, <2>3 DEF IInv, HeardOK
<1>8. Credited'
  BY <1>1, <1>2, StillCredited
<1>9. Accounted'
  <2> SUFFICES ASSUME flags.all, flags.verbose, NEW n \in 1 .. k
               PROVE  Heard(n)' \/ ExplainedSoFar(n)'
    BY <1>1, <1>3 DEF Accounted
  <2> QED BY <1>1 DEF IInv, Accounted, Heard, ExplainedSoFar
<1>10. BudgetOK' /\ DoneOK'
  BY <1>1 DEF IInv, BudgetOK, DoneOK
<1> QED BY <1>1, <1>4, <1>5, <1>6, <1>7, <1>8, <1>9, <1>10, BoundStays DEF IInv

LEMMA StepClientStarts == ASSUME IInv, ClientStarts PROVE IInv'
<1>1. /\ pc = "calling" /\ state = "called" /\ state' = "running"
      /\ ctx' = CallContext(ctx, now, asked.timeout)
      /\ UNCHANGED <<flags, pc, asked, now, over, answer, k, findings, problems, exit,
                     output, written, heard>>
  BY DEF ClientStarts, Probe!Start, Probe!CallContext, CallContext, Probe!WithTimeout,
         WithTimeout, report
<1>2. ctx' = ctx
  <2>1. asked.timeout = 0
    BY DEF IInv, Types
  <2> QED BY <1>1, <2>1 DEF CallContext
<1>3. ~ Arriving /\ ~ Arriving' /\ Taken' = Taken /\ Calls' = Calls
  BY <1>1 DEF Arriving, Returned, Taken, Calls, FamiliesAsked, Version
<1>4. Types'
  BY <1>1, <1>2, <1>3 DEF IInv, Types
<1>5. ContextOK' /\ LoopOK'
  <2>1. Began' = Began
    BY <1>1 DEF Began
  <2>2. ContextOK'
    BY <1>1, <1>2, <2>1, ContextStays
  <2> QED BY <1>1, <1>2, <1>3, <2>2 DEF IInv, LoopOK
<1>6. HeardOK'
  BY <1>1, <1>3 DEF IInv, HeardOK
<1>7. Credited'
  BY <1>1, <1>3, StillCredited
<1>8. Accounted' /\ BudgetOK' /\ DoneOK'
  BY <1>1, <1>2 DEF IInv, Accounted, BudgetOK, DoneOK, Heard, ExplainedSoFar
<1> QED BY <1>1, <1>4, <1>5, <1>6, <1>7, <1>8, BoundStays DEF IInv

\* A call that fails: nothing arrives.
LEMMA StepFails ==
  ASSUME IInv, pc = "calling", Probe!Fail, UNCHANGED <<flags, pc, k, report, heard>>
  PROVE  IInv'
<1>1. /\ state = "running" /\ state' = "returned" /\ answer'.status # "found"
      /\ UNCHANGED <<flags, pc, asked, now, ctx, over, k, findings, problems, exit,
                     output,
                     written, heard>>
  BY DEF Probe!Fail, Probe!Return, Probe!NoAnswer, report
<1>2. ~ Arriving /\ ~ Arriving' /\ Taken' = Taken /\ Calls' = Calls
  BY <1>1 DEF Arriving, Returned, Found, Taken, Calls, FamiliesAsked, Version
<1>3. Types'
  BY <1>1, <1>2 DEF IInv, Types
<1>4. ContextOK' /\ LoopOK'
  <2>1. Began' = Began
    BY <1>1 DEF Began
  <2>2. ContextOK'
    BY <1>1, <2>1, ContextStays
  <2> QED BY <1>1, <1>2, <2>2 DEF IInv, LoopOK
<1>5. HeardOK'
  BY <1>1, <1>2 DEF IInv, HeardOK
<1>6. Credited'
  BY <1>1, <1>2, StillCredited
<1>7. Accounted' /\ BudgetOK' /\ DoneOK'
  BY <1>1 DEF IInv, Accounted, BudgetOK, DoneOK, Heard, ExplainedSoFar
<1> QED BY <1>1, <1>3, <1>4, <1>5, <1>6, <1>7, BoundStays DEF IInv

\* A call that returns an address: it is the last that was heard, and the calls
\* before it are as they were.
LEMMA StepFinds ==
  ASSUME IInv, pc = "calling", Probe!Find, UNCHANGED <<flags, pc, k, report>>,
         NEW host \in Hosts,
         heard' = Append(heard, [n |-> k, family |-> answer'.version, host |-> host])
  PROVE  IInv'
<1>1. /\ state = "running" /\ state' = "returned" /\ answer'.status = "found"
      /\ UNCHANGED <<flags, pc, asked, now, ctx, over, k, findings, problems, exit,
                     output, written>>
      /\ pc = "calling" /\ k > 0
  BY DEF Probe!Find, Probe!Return, report, IInv, LoopOK
<1>2. answer'.version \in {"IPv4Only", "IPv6Only"}
  <2>1. asked.open = FALSE
    BY DEF IInv, Types
  <2> QED BY <2>1 DEF Probe!Find, Probe!Return, Probe!VersionOf, VersionOf
<1>3. PICK r \in Reports : r.n = k /\ heard' = Append(heard, r)
  <2> DEFINE new == [n |-> k, family |-> answer'.version, host |-> host]
  <2>1. k \in Nat
    BY NumberFacts
  <2>2. new \in Reports
    BY <1>2, <2>1 DEF Reports
  <2>3. new.n = k
    OBVIOUS
  <2> HIDE DEF new
  <2>4. heard' = Append(heard, new)
    BY DEF new
  <2> QED BY <2>2, <2>3, <2>4
<1>4. /\ heard \in Seq(Reports) /\ Len(heard) \in Nat /\ DOMAIN heard = 1 .. Len(heard)
      /\ heard' \in Seq(Reports) /\ Len(heard') = Len(heard) + 1
      /\ DOMAIN heard' = 1 .. Len(heard) + 1
      /\ heard'[Len(heard) + 1] = r
      /\ \A i \in 1 .. Len(heard) : heard'[i] = heard[i]
  <2>1. heard \in Seq(Reports)
    BY DEF IInv, Types
  <2> QED BY <1>3, <2>1
<1>5. ~ Arriving /\ Taken = Len(heard)
  BY <1>1 DEF Arriving, Returned, Taken
<1>6. Arriving' /\ Taken' = Len(heard) /\ Calls' = Calls
  BY <1>1, <1>4 DEF Arriving, Returned, Found, Taken, Calls, FamiliesAsked, Version
<1>7. Types'
  BY <1>1, <1>4, <1>6 DEF IInv, Types
<1>8. ContextOK' /\ LoopOK'
  <2>1. Began' = Began
    BY <1>1 DEF Began
  <2>2. ContextOK'
    BY <1>1, <2>1, ContextStays
  <2> QED BY <1>1, <1>6, <2>2 DEF IInv, LoopOK
<1>9. HeardOK'
  <2>6. \A i \in 1 .. Len(heard) : heard[i].n <= k - 1
    BY <1>1, <1>5 DEF IInv, HeardOK
  <2>7. \A x \in Reports : x.n \in Nat
    BY DEF Reports
  <2>8. \A i \in 1 .. Len(heard) : heard[i] \in Reports
    BY <1>4
  <2>1. \A i \in 1 .. Len(heard) : heard[i].n <= k - 1 /\ heard[i].n \in Nat
    BY <2>6, <2>7, <2>8
  <2>2. k \in Nat
    BY NumberFacts
  <2>3. \A i \in 1 .. Taken' : heard'[i].n <= k' - 1
    BY <1>1, <1>4, <1>6, <2>1
  <2>4. ASSUME NEW i \in DOMAIN heard', NEW j \in DOMAIN heard', i < j
        PROVE  heard'[i].n < heard'[j].n
    <3>1. i \in 1 .. Len(heard) /\ heard'[i] = heard[i]
      BY <1>4, <2>4
    <3>2. CASE j = Len(heard) + 1
      BY <1>3, <1>4, <2>1, <2>2, <3>1, <3>2
    <3>3. CASE j \in 1 .. Len(heard)
      BY <1>4, <2>4, <3>1, <3>3 DEF IInv, HeardOK
    <3> QED BY <1>4, <3>2, <3>3
  <2>5. heard' # <<>> /\ heard'[Len(heard')].n = k'
    BY <1>1, <1>3, <1>4
  <2> QED BY <1>1, <1>6, <2>3, <2>4, <2>5 DEF HeardOK
<1>10. Credited'
  <2>0. Len(heard) \in 0 .. Len(heard)
    <3>1. \A n \in Nat : n \in 0 .. n
      OBVIOUS
    <3> QED BY <1>4, <3>1
  <2>1. PICK n \in 0 .. Len(heard) : n = Len(heard)
    BY <2>0
  <2>2. FirstReports(n)' = FirstReports(n)
    BY <1>3, <1>4, FirstStays
  <2>3. {heard[i] : i \in {j \in 1 .. n : FirstReport(j)}}' = FirstReports(n)
    BY <2>2 DEF FirstReports
  <2>4. n = Taken' /\ n = Taken
    BY <1>5, <1>6, <2>1
  <2>5. FirstReports(Taken)' = FirstReports(Taken)
    BY <2>3, <2>4 DEF FirstReports
  <2>6. \A i \in 1 .. Taken' : heard'[i] = heard[i]
    BY <1>4, <1>6
  <2> QED BY <1>1, <2>4, <2>5, <2>6 DEF IInv, Credited, SameAddress
<1>11. Accounted'
  <2>1. ASSUME NEW n, Heard(n) PROVE Heard(n)'
    BY <1>4, <2>1 DEF Heard
  <2>2. \A n : ExplainedSoFar(n)' <=> ExplainedSoFar(n)
    BY <1>1 DEF ExplainedSoFar
  <2> QED BY <1>1, <2>1, <2>2 DEF IInv, Accounted
<1>12. BudgetOK' /\ DoneOK'
  BY <1>1 DEF IInv, BudgetOK, DoneOK
<1> QED BY <1>1, <1>7, <1>8, <1>9, <1>10, <1>11, <1>12, BoundStays DEF IInv

LEMMA StepClientReturns == ASSUME IInv, ClientReturns PROVE IInv'
<1>1. CASE Probe!Fail /\ UNCHANGED heard
  BY <1>1, StepFails DEF ClientReturns
<1>2. CASE Probe!Find /\ \E host \in Hosts :
             heard' = Append(heard, [n |-> k, family |-> answer'.version, host |-> host])
  BY <1>2, StepFinds DEF ClientReturns
<1> QED BY <1>1, <1>2 DEF ClientReturns

LEMMA StepExpires == ASSUME IInv, Expires PROVE IInv'
<1>1. /\ ctx.err = Nil /\ ctx.deadline # NoDeadline /\ ctx.deadline <= now
      /\ pc # "done" /\ over' = now
      /\ UNCHANGED <<flags, pc, asked, now, state, answer, k, findings, problems,
                     exit, output, written, heard>>
  BY DEF Expires, Probe!Expire, Probe!End, Probe!Due, report
<1>2. ctx' = [deadline |-> ctx.deadline, err |-> DeadlineExceeded]
  BY <1>1 DEF Expires, Probe!Expire, Probe!End, Probe!Ended, IInv, Types
<1>3. Began
  BY <1>1 DEF IInv, ContextOK, Background
<1>4. Arriving' = Arriving /\ Taken' = Taken /\ Calls' = Calls /\ Began'
  BY <1>1, <1>3 DEF Arriving, Returned, Found, Taken, Calls, FamiliesAsked, Version, Began
<1>5. Types'
  <2>1. ctx' \in [deadline : Int \cup {NoDeadline}, err : {Nil, DeadlineExceeded}]
    BY <1>2 DEF IInv, Types
  <2>2. over' \in Nat
    BY <1>1, NumberFacts
  <2> QED BY <1>1, <1>4, <2>1, <2>2 DEF IInv, Types
<1>6. ContextOK'
  <2>1. PICK d \in Int : d = Duration(flags.timeout)
    BY DurationFacts DEF IInv, Types
  <2>2. ctx.deadline = d /\ now <= d /\ Version # "invalid"
    BY <1>1, <1>3, <2>1 DEF IInv, ContextOK
  <2>3. Budget' = IF d > 0 THEN d ELSE 0
    BY <1>1, <2>1 DEF Budget, Duration
  <2>4. over' <= Budget' /\ d <= now'
    BY <1>1, <2>1, <2>2, <2>3, NumberFacts
  <2>5. Duration(flags.timeout)' = d /\ Version' = Version
    BY <1>1, <2>1 DEF Duration, Version
  <2>6. ctx'.deadline = d /\ ctx'.err # Nil
    BY <1>2, <2>2
  <2> QED BY <1>4, <2>2, <2>4, <2>5, <2>6 DEF ContextOK
<1>7. LoopOK'
  BY <1>1, <1>2, <1>4 DEF IInv, LoopOK
<1>8. HeardOK'
  BY <1>1, <1>4 DEF IInv, HeardOK
<1>9. Credited'
  BY <1>1, <1>4, StillCredited
<1>10. Accounted' /\ BudgetOK' /\ DoneOK'
  BY <1>1, <1>2 DEF IInv, Accounted, BudgetOK, DoneOK, Heard, ExplainedSoFar
<1> QED BY <1>1, <1>5, <1>6, <1>7, <1>8, <1>9, <1>10, BoundStays DEF IInv

\* The only step that takes time: its guard bounds the whole command, since
\* every call has the one context.
LEMMA StepWait == ASSUME IInv, Wait PROVE IInv'
<1>1. /\ pc = "calling" /\ now' = now + 1
      /\ ~ (ctx.err = Nil /\ ctx.deadline # NoDeadline /\ ctx.deadline <= now)
      /\ ctx.err # Nil => now < over + asked.late
      /\ UNCHANGED <<flags, pc, asked, ctx, over, state, answer, k, findings,
                     problems, exit, output, written, heard>>
  BY DEF Wait, Probe!Wait, Probe!Due, report
<1>2. Arriving' = Arriving /\ Taken' = Taken /\ Calls' = Calls /\ Began /\ Began'
  BY <1>1 DEF Arriving, Returned, Found, Taken, Calls, FamiliesAsked, Version, Began
<1>3. now \in Nat /\ now' \in Nat
  BY <1>1, NumberFacts
<1>4. Types'
  BY <1>1, <1>2, <1>3 DEF IInv, Types
<1>5. PICK d \in Int : d = Duration(flags.timeout)
  BY DurationFacts DEF IInv, Types
<1>6. /\ ctx.deadline = d /\ Version # "invalid" /\ d # NoDeadline
      /\ ctx.err = Nil => now < d
      /\ ctx.err # Nil => d <= now /\ over <= Budget /\ now < over + asked.late
  <2>1. /\ ctx.deadline = d /\ Version # "invalid"
        /\ ctx.err # Nil => d <= now /\ over <= Budget
    BY <1>2, <1>5 DEF IInv, ContextOK
  <2>2. d # NoDeadline
    BY <1>5, NoDeadlineAssumption
  <2> QED BY <1>1, <1>3, <1>5, <2>1, <2>2
<1>7. Budget' = Budget /\ Budget = (IF d > 0 THEN d ELSE 0)
      /\ Duration(flags.timeout)' = d /\ Version' = Version
  BY <1>1, <1>5 DEF Budget, Duration, Version
<1>8. ContextOK'
  <2>1. ctx'.err = Nil => now' <= d
    BY <1>1, <1>3, <1>5, <1>6
  <2>2. ctx'.err # Nil => d <= now' /\ over' <= Budget'
    BY <1>1, <1>3, <1>5, <1>6, <1>7
  <2> QED BY <1>1, <1>2, <1>6, <1>7, <2>1, <2>2 DEF ContextOK
<1>9. LoopOK' /\ HeardOK'
  BY <1>1, <1>2 DEF IInv, LoopOK, HeardOK
<1>10. Credited'
  BY <1>1, <1>2, StillCredited
<1>11. Accounted' /\ BudgetOK' /\ DoneOK'
  BY <1>1 DEF IInv, Accounted, BudgetOK, DoneOK, Heard, ExplainedSoFar
<1>12. CommandIsBounded'
  <2>1. asked.late \in {0, DefaultAttemptTimeout}
    BY DEF IInv, Types
  <2>2. over \in Nat /\ Budget \in Nat
    <3>1. over \in Nat
      BY DEF IInv, Types
    <3>2. Budget \in Nat
      BY <1>5, <1>7
    <3> QED BY <3>1, <3>2
  <2>3. CASE ctx.err = Nil
    <3>1. now + 1 <= Budget
      BY <1>3, <1>5, <1>6, <1>7, <2>3
    <3> QED BY <1>1, <1>3, <1>7, <2>2, <3>1, DefaultAttemptTimeoutAssumption
            DEF CommandIsBounded
  <2>4. CASE ctx.err # Nil
    <3>1. now + 1 <= Budget + DefaultAttemptTimeout
      BY <1>3, <1>6, <2>1, <2>2, <2>4, DefaultAttemptTimeoutAssumption
    <3> QED BY <1>1, <1>7, <3>1 DEF CommandIsBounded
  <2> QED BY <2>3, <2>4
<1> QED BY <1>4, <1>8, <1>9, <1>10, <1>11, <1>12 DEF IInv

-----------------------------------------------------------------------------
(* report, and reportAll.                                                  *)

\* What was heard up to the call that has just returned.
LEMMA HeardByNow ==
  ASSUME IInv, Returned
  PROVE  \A i \in 1 .. Len(heard) : heard[i].n <= k
<1> SUFFICES ASSUME NEW i \in 1 .. Len(heard) PROVE heard[i].n <= k
  OBVIOUS
<1>1. k \in Nat /\ heard[i] \in Reports /\ pc = "calling"
  <2>1. heard \in Seq(Reports)
    BY DEF IInv, Types
  <2> QED BY <2>1, NumberFacts DEF Returned
<1>2. heard[i].n \in Nat
  BY <1>1 DEF Reports
<1>3. CASE i \in 1 .. Taken
  <2>1. heard[i].n <= k - 1
    BY <1>1, <1>3 DEF IInv, HeardOK
  <2> QED BY <1>1, <1>2, <2>1
<1>4. CASE i \notin 1 .. Taken
  <2>1. Arriving /\ i = Len(heard)
    <3>1. Len(heard) \in Nat /\ (Arriving => Taken = Len(heard) - 1)
      BY TakenFacts
    <3>2. Arriving
      BY <1>4, TakenFacts
    <3> QED BY <1>4, <3>1, <3>2
  <2> QED BY <1>1, <2>1 DEF IInv, HeardOK
<1> QED BY <1>3, <1>4

LEMMA StepReportOne == ASSUME IInv, ReportOne PROVE IInv'
<1>1. /\ Returned /\ pc = "calling" /\ ~ flags.all /\ pc' = "done" /\ k > 0
      /\ exit' \in {"ok", "error"} /\ written' \in BOOLEAN
      /\ UNCHANGED <<flags, asked, now, ctx, over, state, answer, k, findings, problems,
                     heard>>
  <2>1. written \in BOOLEAN
    BY DEF IInv, Types
  <2> QED BY <2>1 DEF ReportOne, Returned, Printed, PrintedNone, Exit, call, IInv, LoopOK
<1>2. ~ Arriving' /\ Taken' = Len(heard) /\ Calls' = Calls
  BY <1>1 DEF Arriving, Returned, Taken, Calls, FamiliesAsked, Version
<1>3. /\ exit' = "ok" => heard # <<>>
      /\ exit' = "error" => heard = <<>> \/ (flags.json /\ ~ written')
  <2>1. CASE Found
    <3>1. heard # <<>>
      BY <1>1, <2>1 DEF IInv, HeardOK, Arriving
    <3>2. exit' = "error" => flags.json /\ ~ written'
      BY <2>1 DEF ReportOne, Printed, Exit
    <3> QED BY <3>1, <3>2
  <2>2. CASE ~ Found
    <3>1. heard = <<>>
      BY <1>1, <2>2 DEF IInv, HeardOK, Arriving
    <3>2. exit' = "error"
      BY <2>2 DEF ReportOne, PrintedNone, Exit
    <3> QED BY <3>1, <3>2
  <2> QED BY <2>1, <2>2
<1>4. output'.addresses \in Seq(Reports) /\ output'.problems \in Seq(Explanations)
  <2>1. <<>> \in Seq(Reports) /\ <<>> \in Seq(Explanations)
    OBVIOUS
  <2>2. CASE Found
    <3>1. Address \in Reports
      BY <1>1, <2>2, TakenFacts DEF Arriving
    <3>2. <<Address>> \in Seq(Reports)
      BY <3>1
    <3>3. \/ output' = [addresses |-> <<Address>>, problems |-> <<>>]
          \/ output' = Nothing
      BY <2>2 DEF ReportOne, Printed
    <3>4. output'.addresses \in {<<Address>>, <<>>} /\ output'.problems = <<>>
      BY <3>3 DEF Nothing
    <3> QED BY <2>1, <3>2, <3>4
  <2>3. CASE ~ Found
    <3>1. k \in Nat
      BY NumberFacts
    <3>2. <<[n |-> k, why |-> "failed"]>> \in Seq(Explanations)
      BY <3>1 DEF Explanations
    <3>3. /\ output'.addresses = <<>>
          /\ output'.problems \in {<<[n |-> k, why |-> "failed"]>>, <<>>}
      BY <2>3 DEF ReportOne, PrintedNone, Nothing
    <3> QED BY <2>1, <3>2, <3>3
  <2> QED BY <2>2, <2>3
<1>5. Types'
  BY <1>1, <1>2, <1>4 DEF IInv, Types
<1>6. ContextOK' /\ LoopOK'
  <2>1. Began' = Began
    BY <1>1 DEF Began
  <2>2. ContextOK'
    BY <1>1, <2>1, ContextStays
  <2> QED BY <1>1, <1>2, <2>2 DEF IInv, LoopOK
<1>7. HeardOK'
  <2>1. \A i \in 1 .. Taken' : heard'[i].n <= k'
    BY <1>1, <1>2, HeardByNow
  <2> QED BY <1>1, <1>2, <2>1 DEF IInv, HeardOK
<1>8. Credited' /\ Accounted' /\ DoneOK'
  BY <1>1, <1>3 DEF Credited, Accounted, DoneOK
<1>9. BudgetOK'
  BY <1>1 DEF IInv, BudgetOK
<1> QED BY <1>1, <1>5, <1>6, <1>7, <1>8, <1>9, BoundStays DEF IInv

\* What the three ways on from a call of reportAll have in common.
LEMMA LoopGoesOn ==
  ASSUME IInv, Returned, flags.all,
         UNCHANGED <<flags, call, k, exit, output, written, heard>>,
         \/ GoOn
         \/ pc' = "family" /\ ctx.err # Nil
  PROVE  /\ pc = "calling" /\ pc' \in {"ask", "family"} /\ k \in Nat /\ k > 0
         /\ ~ Arriving' /\ Taken' = Len(heard) /\ Calls' = Calls
         /\ ContextOK' /\ LoopOK' /\ HeardOK' /\ DoneOK' /\ CommandIsBounded'
<1>1. /\ pc = "calling" /\ pc' \in {"ask", "family"} /\ k \in Nat /\ k > 0
      /\ UNCHANGED <<asked, now, ctx, over, state, answer>>
  BY NumberFacts DEF Returned, GoOn, call, IInv, LoopOK
<1>2. ~ Arriving' /\ Taken' = Len(heard) /\ Calls' = Calls
  BY <1>1 DEF Arriving, Returned, Taken, Calls, FamiliesAsked, Version
<1>3. ContextOK' /\ DoneOK'
  <2>1. Began' = Began
    BY <1>1 DEF Began
  <2>2. ContextOK'
    BY <1>1, <2>1, ContextStays
  <2> QED BY <1>1, <2>2 DEF DoneOK
<1>4. LoopOK'
  <2>1. CASE GoOn
    <3>1. pc' = IF k % 3 = 0 THEN "family" ELSE "ask"
      BY <2>1, CallsFacts DEF GoOn
    <3>2. k % 3 # 0 => k < Calls
      <4>1. Calls \in {3, 6} /\ k <= Calls
        BY CallsFacts, NumberFacts
      <4> QED BY <1>1, <4>1
    <3> QED BY <1>1, <1>2, <3>1, <3>2 DEF LoopOK
  <2>2. CASE pc' = "family" /\ ctx.err # Nil
    BY <1>1, <1>2, <2>2 DEF LoopOK
  <2> QED BY <2>1, <2>2
<1>5. HeardOK'
  <2>1. \A i \in 1 .. Taken' : heard'[i].n <= k'
    BY <1>1, <1>2, HeardByNow
  <2> QED BY <1>1, <1>2, <2>1 DEF IInv, HeardOK
<1> QED BY <1>1, <1>2, <1>3, <1>4, <1>5, BoundStays

\* A call that returned no address leaves the credits as they are.
LEMMA StepExplains ==
  ASSUME IInv, Returned, flags.all, ~ Found,
         UNCHANGED <<flags, call, k, findings, exit, output, written, heard>>,
         \/ GoOn
         \/ pc' = "family" /\ ctx.err # Nil,
         NEW why \in {"failed", "budget"},
         \/ Explain(why)
         \/ ~ flags.verbose /\ UNCHANGED problems,
         why = "budget" => pc' = "family" /\ ctx.err # Nil
  PROVE  IInv'
<1>1. /\ pc = "calling" /\ pc' \in {"ask", "family"} /\ k \in Nat /\ k > 0
      /\ ~ Arriving' /\ Taken' = Len(heard) /\ Calls' = Calls
      /\ ContextOK' /\ LoopOK' /\ HeardOK' /\ DoneOK' /\ CommandIsBounded'
      /\ UNCHANGED <<asked, now, ctx, over, state, answer>>
  BY LoopGoesOn DEF call
<1>2. ~ Arriving /\ Taken' = Taken
  BY <1>1 DEF Arriving, Taken
<1>3. PICK e \in Explanations : e = [n |-> k, why |-> why]
  BY <1>1 DEF Explanations
<1>4. problems \in Seq(Explanations)
  BY DEF IInv, Types
<1>5. problems' = Append(problems, e) \/ (~ flags.verbose /\ problems' = problems)
  BY <1>3 DEF Explain
<1>6. problems' \in Seq(Explanations)
  BY <1>4, <1>5
<1>7. Types'
  BY <1>1, <1>6 DEF IInv, Types
<1>8. Credited'
  BY <1>1, <1>2, StillCredited
<1>9. Accounted'
  <2> SUFFICES ASSUME flags.verbose, NEW n \in 1 .. k
               PROVE  Heard(n) \/ ExplainedSoFar(n)'
    BY <1>1 DEF Accounted, Heard
  <2>1. /\ DOMAIN problems' = 1 .. Len(problems) + 1 /\ Len(problems) \in Nat
        /\ DOMAIN problems = 1 .. Len(problems)
        /\ problems'[Len(problems) + 1] = e
        /\ \A i \in DOMAIN problems : problems'[i] = problems[i]
    BY <1>4, <1>5
  <2>2. CASE n = k
    BY <1>3, <2>1, <2>2 DEF ExplainedSoFar
  <2>3. CASE n # k
    <3>1. Heard(n) \/ ExplainedSoFar(n)
      BY <2>3 DEF IInv, Accounted
    <3> QED BY <2>1, <3>1 DEF ExplainedSoFar
  <2> QED BY <2>2, <2>3
<1>10. BudgetOK'
  <2>1. \A i \in DOMAIN problems : problems[i].why # "budget"
    BY <1>1 DEF IInv, BudgetOK
  <2>2. CASE problems' = problems
    BY <1>1, <2>1, <2>2 DEF BudgetOK
  <2>3. CASE problems' = Append(problems, e)
    <3>1. /\ DOMAIN problems' = 1 .. Len(problems) + 1 /\ Len(problems) \in Nat
          /\ DOMAIN problems = 1 .. Len(problems)
          /\ Len(problems') = Len(problems) + 1
          /\ problems'[Len(problems) + 1] = e
          /\ \A i \in DOMAIN problems : problems'[i] = problems[i]
      BY <1>4, <2>3
    <3>2. ASSUME NEW i \in DOMAIN problems', problems'[i].why = "budget"
          PROVE  i = Len(problems) + 1
      BY <2>1, <3>1, <3>2
    <3> QED BY <1>1, <1>3, <3>1, <3>2 DEF BudgetOK
  <2> QED BY <1>5, <2>2, <2>3
<1> QED BY <1>1, <1>7, <1>8, <1>9, <1>10 DEF IInv

LEMMA StepSkip == ASSUME IInv, Skip PROVE IInv'
<1>1. /\ Returned /\ flags.all /\ ~ Found /\ GoOn
      /\ UNCHANGED <<flags, call, k, findings, exit, output, written, heard>>
      /\ Explain("failed") \/ (~ flags.verbose /\ UNCHANGED problems)
  BY DEF Skip
<1> QED BY <1>1, StepExplains

LEMMA StepBudgetGone == ASSUME IInv, BudgetGone PROVE IInv'
<1>1. /\ Returned /\ flags.all /\ ~ Found /\ pc' = "family" /\ ctx.err # Nil
      /\ UNCHANGED <<flags, call, k, findings, exit, output, written, heard>>
      /\ Explain("budget")
  BY DEF BudgetGone
<1> QED BY <1>1, StepExplains

\* An address is credited already exactly when an earlier call reported it.
LEMMA CreditedAlready ==
  ASSUME IInv, Returned, flags.all, Found
  PROVE  (\E i \in DOMAIN findings : SameAddress(findings[i], Address))
           <=> ~ FirstReport(Len(heard))
<1>1. /\ Len(heard) \in Nat /\ Taken = Len(heard) - 1 /\ Taken \in Nat
      /\ Address = heard[Len(heard)] /\ Len(heard) >= 1
  BY TakenFacts DEF Arriving, Address
<1>2. ASSUME NEW i \in DOMAIN findings, SameAddress(findings[i], Address)
      PROVE  ~ FirstReport(Len(heard))
  <2>1. findings[i] \in FirstReports(Taken)
    BY DEF IInv, Credited
  <2>2. PICK j \in 1 .. Taken : findings[i] = heard[j]
    BY <2>1 DEF FirstReports
  <2>3. SameAddress(heard[j], heard[Len(heard)])
    BY <1>1, <1>2, <2>2
  <2>4. j \in 1 .. Len(heard) - 1
    BY <1>1
  <2> QED BY <2>3, <2>4 DEF FirstReport
<1>3. ASSUME ~ FirstReport(Len(heard))
      PROVE  \E i \in DOMAIN findings : SameAddress(findings[i], Address)
  <2>1. PICK j \in 1 .. Taken : SameAddress(heard[j], heard[Len(heard)])
    BY <1>1, <1>3 DEF FirstReport
  <2>2. PICK i \in DOMAIN findings : SameAddress(findings[i], heard[j])
    BY DEF IInv, Credited
  <2> QED BY <1>1, <2>1, <2>2 DEF SameAddress
<1> QED BY <1>2, <1>3

\* What is credited came before the call that has just returned.
LEMMA CreditedBefore ==
  ASSUME IInv, Returned, flags.all, NEW i \in DOMAIN findings
  PROVE  findings[i].n \in Nat /\ findings[i].n < k
<1>1. k \in Nat /\ pc = "calling" /\ findings[i] \in Reports
  <2>1. findings \in Seq(Reports)
    BY DEF IInv, Types
  <2> QED BY <2>1, NumberFacts DEF Returned
<1>2. findings[i].n \in Nat
  BY <1>1 DEF Reports
<1>3. PICK j \in 1 .. Taken : findings[i] = heard[j]
  BY DEF IInv, Credited, FirstReports
<1>4. heard[j].n <= k - 1
  BY <1>1 DEF IInv, HeardOK
<1> QED BY <1>1, <1>2, <1>3, <1>4

LEMMA StepTakeAddress == ASSUME IInv, TakeAddress PROVE IInv'
<1>1. /\ Returned /\ flags.all /\ Found /\ GoOn
      /\ UNCHANGED <<flags, call, k, exit, output, written, heard>>
      /\ problems' = problems
      /\ findings' = IF \E i \in DOMAIN findings : SameAddress(findings[i], Address)
                     THEN findings ELSE Append(findings, Address)
  BY DEF TakeAddress
<1>2. /\ pc = "calling" /\ pc' \in {"ask", "family"} /\ k \in Nat /\ k > 0
      /\ ~ Arriving' /\ Taken' = Len(heard) /\ Calls' = Calls
      /\ ContextOK' /\ LoopOK' /\ HeardOK' /\ DoneOK' /\ CommandIsBounded'
      /\ UNCHANGED <<asked, now, ctx, over, state, answer>>
  BY <1>1, LoopGoesOn DEF call
<1>3. /\ Len(heard) \in Nat /\ DOMAIN heard = 1 .. Len(heard) /\ Len(heard) >= 1
      /\ Taken = Len(heard) - 1 /\ Taken \in Nat
      /\ Address \in Reports /\ Address = heard[Len(heard)] /\ Address.n = k
  BY <1>1, TakenFacts DEF Arriving, Address
<1>4. findings \in Seq(Reports)
  BY DEF IInv, Types
<1>5. findings' \in Seq(Reports)
  BY <1>1, <1>3, <1>4
<1>6. Types'
  BY <1>1, <1>2, <1>5 DEF IInv, Types
<1>7. Credited'
  <2>1. /\ {findings[i] : i \in DOMAIN findings} = FirstReports(Taken)
        /\ \A i \in 1 .. Taken :
             \E j \in DOMAIN findings : SameAddress(findings[j], heard[i])
        /\ \A i, j \in DOMAIN findings : i < j => findings[i].n < findings[j].n
    BY <1>1 DEF IInv, Credited
  <2>2. FirstReports(Taken)' = FirstReports(Len(heard))
    BY <1>1, <1>2 DEF FirstReports, FirstReport
  <2>3. 1 .. Len(heard) = 1 .. Taken \cup {Len(heard)}
    BY <1>3
  <2>4. CASE \E i \in DOMAIN findings : SameAddress(findings[i], Address)
    <3>1. findings' = findings /\ ~ FirstReport(Len(heard))
      BY <1>1, <2>4, CreditedAlready
    <3>2. {j \in 1 .. Len(heard) : FirstReport(j)} = {j \in 1 .. Taken : FirstReport(j)}
      BY <2>3, <3>1
    <3>3. FirstReports(Len(heard)) = FirstReports(Taken)
      BY <3>2 DEF FirstReports
    <3>4. \A i \in 1 .. Len(heard) :
            \E j \in DOMAIN findings : SameAddress(findings[j], heard[i])
      BY <1>3, <2>1, <2>3, <2>4
    <3> QED BY <1>1, <1>2, <2>1, <2>2, <3>1, <3>3, <3>4 DEF Credited, SameAddress
  <2>5. CASE ~ \E i \in DOMAIN findings : SameAddress(findings[i], Address)
    <3>1. findings' = Append(findings, Address) /\ FirstReport(Len(heard))
      BY <1>1, <2>5, CreditedAlready
    <3>2. /\ DOMAIN findings = 1 .. Len(findings) /\ Len(findings) \in Nat
          /\ DOMAIN findings' = 1 .. Len(findings) + 1
          /\ findings'[Len(findings) + 1] = Address
          /\ \A i \in DOMAIN findings : findings'[i] = findings[i]
      BY <1>3, <1>4, <3>1
    <3>3. {j \in 1 .. Len(heard) : FirstReport(j)}
            = {j \in 1 .. Taken : FirstReport(j)} \cup {Len(heard)}
      BY <2>3, <3>1
    <3>4. FirstReports(Len(heard)) = FirstReports(Taken) \cup {Address}
      BY <1>3, <3>3 DEF FirstReports
    <3>5. {findings'[i] : i \in DOMAIN findings'}
            = {findings[i] : i \in DOMAIN findings} \cup {Address}
      BY <3>2
    <3>6. \A i \in 1 .. Taken' :
            \E j \in DOMAIN findings' : SameAddress(findings'[j], heard[i])
      <4>1. \A i \in 1 .. Taken :
              \E j \in DOMAIN findings' : SameAddress(findings'[j], heard[i])
        BY <2>1, <3>2
      <4>2. SameAddress(findings'[Len(findings) + 1], heard[Len(heard)])
        BY <1>3, <3>2 DEF SameAddress
      <4>3. Len(findings) + 1 \in DOMAIN findings'
        BY <3>2
      <4> QED BY <1>2, <2>3, <4>1, <4>2, <4>3
    <3>7. ASSUME NEW i \in DOMAIN findings', NEW j \in DOMAIN findings', i < j
          PROVE  findings'[i].n < findings'[j].n
      <4>1. i \in DOMAIN findings /\ findings'[i] = findings[i]
        BY <3>2, <3>7
      <4>2. CASE j \in DOMAIN findings
        BY <2>1, <3>2, <3>7, <4>1, <4>2
      <4>3. CASE j = Len(findings) + 1
        BY <1>1, <1>3, <3>2, <4>1, <4>3, CreditedBefore
      <4> QED BY <3>2, <4>2, <4>3
    <3> QED BY <1>1, <2>1, <2>2, <3>4, <3>5, <3>6, <3>7 DEF Credited, SameAddress
  <2> QED BY <2>4, <2>5
<1>8. Accounted'
  <2> SUFFICES ASSUME flags.verbose, NEW n \in 1 .. k PROVE Heard(n) \/ ExplainedSoFar(n)
    BY <1>1, <1>2 DEF Accounted, Heard, ExplainedSoFar
  <2>1. CASE n = k
    BY <1>3, <2>1 DEF Heard
  <2>2. CASE n # k
    BY <1>1, <2>2 DEF IInv, Accounted
  <2> QED BY <2>1, <2>2
<1>9. BudgetOK'
  BY <1>1, <1>2 DEF IInv, BudgetOK
<1> QED BY <1>2, <1>6, <1>7, <1>8, <1>9 DEF IInv

\* A family that ends early ends the loop over the families too.
LEMMA StepFamilyEnds == ASSUME IInv, FamilyEnds PROVE IInv'
<1>1. /\ pc = "family" /\ flags.all /\ k > 0
      /\ UNCHANGED <<flags, asked, now, ctx, over, state, answer, findings, problems,
                     exit, output, written, heard>>
  BY DEF FamilyEnds, call, report, IInv, LoopOK
<1>2. k \in Nat /\ k <= Calls /\ Calls \in {3, 6}
  BY <1>1, NumberFacts, CallsFacts
<1>3. ctx.err # Nil \/ LastOfFamily = k
  <2>1. LastOfFamily = 3 * ((k + 2) \div 3)
    <3>1. k + 3 - 1 = k + 2
      BY <1>2
    <3> QED BY <3>1, CallsFacts DEF LastOfFamily
  <2>2. k % 3 = 0 => 3 * ((k + 2) \div 3) = k
    BY <1>2
  <2> QED BY <1>1, <2>1, <2>2 DEF IInv, LoopOK
<1>4. /\ k' = k
      /\ \/ pc' = "report" /\ (k = Calls \/ ctx.err # Nil)
         \/ pc' = "ask" /\ k < Calls
  <2>1. CASE ctx.err # Nil \/ LastOfFamily = Calls
    BY <1>3, <2>1 DEF FamilyEnds
  <2>2. CASE ~ (ctx.err # Nil \/ LastOfFamily = Calls)
    <3>1. pc' = "ask" /\ k' = k /\ k # Calls
      BY <1>3, <2>2 DEF FamilyEnds
    <3> QED BY <1>2, <3>1
  <2> QED BY <2>1, <2>2
<1>5. ~ Arriving /\ ~ Arriving' /\ Taken' = Taken /\ Calls' = Calls
  BY <1>1, <1>4 DEF Arriving, Returned, Taken, Calls, FamiliesAsked, Version
<1>6. Types'
  BY <1>1, <1>4, <1>5 DEF IInv, Types
<1>7. ContextOK'
  <2>1. Began' = Began
    BY <1>1, <1>4 DEF Began
  <2> QED BY <1>1, <2>1, ContextStays
<1>8. LoopOK'
  BY <1>1, <1>4, <1>5 DEF LoopOK
<1>9. HeardOK'
  BY <1>1, <1>4, <1>5 DEF IInv, HeardOK
<1>10. Credited'
  BY <1>1, <1>5, StillCredited
<1>11. Accounted' /\ DoneOK'
  BY <1>1, <1>4 DEF IInv, Accounted, DoneOK, Heard, ExplainedSoFar
<1>12. BudgetOK'
  <2>1. ctx.err # Nil => pc' = "report"
    BY DEF FamilyEnds
  <2> QED BY <1>1, <1>4, <2>1 DEF IInv, BudgetOK
<1> QED BY <1>1, <1>6, <1>7, <1>8, <1>9, <1>10, <1>11, <1>12, BoundStays DEF IInv

LEMMA StepReportAll == ASSUME IInv, ReportAll PROVE IInv'
<1>1. /\ pc = "report" /\ pc' = "done" /\ flags.all /\ k > 0
      /\ k = Calls \/ ctx.err # Nil
      /\ exit' \in {"ok", "error"} /\ written' \in BOOLEAN
      /\ UNCHANGED <<flags, asked, now, ctx, over, state, answer, k, findings, problems,
                     heard>>
  <2>1. written \in BOOLEAN
    BY DEF IInv, Types
  <2> QED BY <2>1 DEF ReportAll, Printed, PrintedNone, Exit, call, IInv, LoopOK
<1>2. /\ ~ Arriving /\ ~ Arriving' /\ Taken = Len(heard) /\ Taken' = Taken
      /\ Calls' = Calls
  BY <1>1 DEF Arriving, Returned, Taken, Calls, FamiliesAsked, Version
<1>3. /\ heard \in Seq(Reports) /\ findings \in Seq(Reports)
      /\ problems \in Seq(Explanations)
  BY DEF IInv, Types
<1>4. findings = <<>> <=> heard = <<>>
  <2>1. /\ {findings[i] : i \in DOMAIN findings} = FirstReports(Taken)
        /\ \A i \in 1 .. Taken :
             \E j \in DOMAIN findings : SameAddress(findings[j], heard[i])
    BY <1>1 DEF IInv, Credited
  <2>2. ASSUME findings = <<>> PROVE heard = <<>>
    <3>1. 1 .. Len(heard) = {}
      BY <1>2, <2>1, <2>2
    <3>2. Len(heard) \in Nat
      BY <1>3
    <3>3. Len(heard) = 0
      BY <3>1, <3>2
    <3> QED BY <1>3, <3>3
  <2>3. ASSUME heard = <<>>, findings # <<>> PROVE FALSE
    <3>1. 1 \in DOMAIN findings
      BY <1>3, <2>3
    <3>2. findings[1] \in FirstReports(0)
      BY <1>2, <2>1, <2>3, <3>1
    <3> QED BY <3>2 DEF FirstReports
  <2> QED BY <2>2, <2>3
<1>5. /\ exit' = "ok" => heard # <<>>
      /\ exit' = "error" => heard = <<>> \/ (flags.json /\ ~ written')
      /\ output'.addresses \in {findings, <<>>} /\ output'.problems \in {problems, <<>>}
      /\ written' => output'.addresses = findings
      /\ written' /\ flags.verbose => output'.problems = problems
  <2>1. CASE findings = <<>>
    <3>1. /\ exit' = "error" /\ output'.addresses = <<>>
          /\ output'.problems = IF flags.verbose THEN problems ELSE <<>>
      BY <2>1 DEF ReportAll, PrintedNone, Exit, Nothing
    <3> QED BY <1>4, <2>1, <3>1
  <2>2. CASE findings # <<>>
    <3> DEFINE explained == IF flags.json \/ flags.verbose THEN problems ELSE <<>>
    <3>1. PICK works \in BOOLEAN :
            /\ written' = works
            /\ exit' = IF flags.json /\ ~ works THEN "error" ELSE "ok"
            /\ output' = IF works THEN [addresses |-> findings, problems |-> explained]
                         ELSE Nothing
      BY <2>2 DEF ReportAll, Printed, Exit
    <3>2. CASE works
      BY <1>4, <2>2, <3>1, <3>2
    <3>3. CASE ~ works
      BY <1>4, <2>2, <3>1, <3>3 DEF Nothing
    <3> QED BY <3>2, <3>3
  <2> QED BY <2>1, <2>2
<1>6. Types'
  <2>1. <<>> \in Seq(Reports) /\ <<>> \in Seq(Explanations)
    OBVIOUS
  <2>2. output'.addresses \in Seq(Reports) /\ output'.problems \in Seq(Explanations)
    BY <1>3, <1>5, <2>1
  <2> QED BY <1>1, <1>2, <2>2 DEF IInv, Types
<1>7. ContextOK'
  <2>1. Began' = Began
    BY <1>1 DEF Began
  <2> QED BY <1>1, <2>1, ContextStays
<1>8. LoopOK'
  BY <1>1, <1>2 DEF LoopOK
<1>9. HeardOK'
  BY <1>1, <1>2 DEF IInv, HeardOK
<1>10. Credited'
  BY <1>1, <1>2, StillCredited
<1>11. Accounted' /\ BudgetOK'
  BY <1>1 DEF IInv, Accounted, BudgetOK, Heard, ExplainedSoFar
<1>12. DoneOK'
  BY <1>1, <1>5 DEF DoneOK
<1> QED BY <1>1, <1>6, <1>7, <1>8, <1>9, <1>10, <1>11, <1>12, BoundStays DEF IInv

LEMMA StepStutters == ASSUME IInv, UNCHANGED vars PROVE IInv'
<1>1. UNCHANGED <<flags, pc, asked, now, ctx, over, state, answer, k, findings,
                  problems, exit, output, written, heard>>
  BY DEF vars, call, report
<1>2. Arriving' = Arriving /\ Taken' = Taken /\ Calls' = Calls
  BY <1>1 DEF Arriving, Returned, Found, Taken, Calls, FamiliesAsked, Version
<1>3. Types'
  BY <1>1, <1>2 DEF IInv, Types
<1>4. LoopOK' /\ HeardOK'
  BY <1>1, <1>2 DEF IInv, LoopOK, HeardOK
<1>5. ContextOK'
  <2>1. Began' = Began
    BY <1>1 DEF Began
  <2> QED BY <1>1, <2>1, ContextStays
<1>6. Credited'
  BY <1>1, <1>2, StillCredited
<1>7. Accounted' /\ BudgetOK' /\ DoneOK'
  BY <1>1 DEF IInv, Accounted, BudgetOK, DoneOK, Heard, ExplainedSoFar
<1> QED BY <1>1, <1>3, <1>4, <1>5, <1>6, <1>7, BoundStays DEF IInv

LEMMA StepIInv == IInv /\ [Next]_vars => IInv'
<1> SUFFICES ASSUME IInv, [Next]_vars PROVE IInv'
  OBVIOUS
<1>1. CASE NothingToDo
  BY <1>1, StepNothingToDo
<1>2. CASE Run
  BY <1>2, StepRun
<1>3. CASE Ask
  BY <1>3, StepAsk
<1>4. CASE ClientStarts
  BY <1>4, StepClientStarts
<1>5. CASE ReportOne
  BY <1>5, StepReportOne
<1>6. CASE TakeAddress
  BY <1>6, StepTakeAddress
<1>7. CASE Skip
  BY <1>7, StepSkip
<1>8. CASE BudgetGone
  BY <1>8, StepBudgetGone
<1>9. CASE FamilyEnds
  BY <1>9, StepFamilyEnds
<1>10. CASE ReportAll
  BY <1>10, StepReportAll
<1>11. CASE ClientReturns
  BY <1>11, StepClientReturns
<1>12. CASE Expires
  BY <1>12, StepExpires
<1>13. CASE Wait
  BY <1>13, StepWait
<1>14. CASE Terminated \/ UNCHANGED vars
  BY <1>14, StepStutters DEF Terminated
<1> QED BY <1>1, <1>2, <1>3, <1>4, <1>5, <1>6, <1>7, <1>8, <1>9, <1>10, <1>11, <1>12,
           <1>13, <1>14 DEF Next, Program

-----------------------------------------------------------------------------
(* What follows.                                                           *)

\* After each step of the command the credits, the explanations, the budget
\* and the bookkeeping of the loops are as the code relies on them.
THEOREM Invariance == Spec => []IInv
<1> QED BY InitIInv, StepIInv, PTL DEF Spec

LEMMA TypesOK == IInv => TypeOK
<1> SUFFICES ASSUME IInv PROVE TypeOK
  OBVIOUS
<1>1. asked \in Probe!Questions
  <2>1. {0} \in SUBSET Nat /\ {0, DefaultAttemptTimeout} \in SUBSET Nat
        /\ {FALSE} \in SUBSET BOOLEAN
    BY DefaultAttemptTimeoutAssumption
  <2> QED BY <2>1 DEF IInv, Types, Probe!Questions, Probe!Versions, Versions
<1>2. ctx \in Contexts
  BY DEF IInv, Types, Contexts, Deadlines, ContextErrors
<1> QED BY <1>1, <1>2 DEF IInv, Types, TypeOK

\* Every variable of the command keeps to its type, whatever the flags are.
THEOREM CommandTypes == Spec => []TypeOK
<1> QED BY Invariance, TypesOK, PTL

LEMMA FirstOnesWin == IInv => FirstReportersWin
<1> SUFFICES ASSUME IInv, flags.all, Delivered
             PROVE  /\ {output.addresses[i] : i \in DOMAIN output.addresses} =
                         {heard[i] : i \in {j \in DOMAIN heard : FirstReport(j)}}
                    /\ \A i, j \in DOMAIN output.addresses :
                         i < j => output.addresses[i].n < output.addresses[j].n
  BY DEF FirstReportersWin
<1>1. /\ ~ Arriving /\ Taken = Len(heard) /\ DOMAIN heard = 1 .. Len(heard)
      /\ FirstReports(Taken) = {heard[i] : i \in {j \in DOMAIN heard : FirstReport(j)}}
  BY TakenFacts DEF Delivered, Arriving, Returned, FirstReports
<1>2. /\ {findings[i] : i \in DOMAIN findings} = FirstReports(Taken)
      /\ \A i, j \in DOMAIN findings : i < j => findings[i].n < findings[j].n
  BY DEF IInv, Credited
<1>3. output.addresses = findings
  BY DEF IInv, DoneOK, Delivered
<1> QED BY <1>1, <1>2, <1>3

\* reportAll shows each address that was heard once, in the order of the calls
\* and with the family and method that came first, however the calls end.
THEOREM FirstReporters == Spec => []FirstReportersWin
<1> QED BY Invariance, FirstOnesWin, PTL

LEMMA AllAreAccountedFor == IInv => NothingPassedOver
<1> SUFFICES ASSUME IInv, flags.all, flags.verbose, Delivered
             PROVE  /\ \A n \in 1 .. k : Heard(n) \/ Explained(n)
                    /\ k < Calls => ctx.err = DeadlineExceeded
  BY DEF NothingPassedOver
<1>1. pc = "done" /\ k > 0 /\ written
  BY DEF Delivered
<1>2. output.problems = problems
  BY <1>1 DEF IInv, DoneOK
<1>3. \A n \in 1 .. k : Heard(n) \/ ExplainedSoFar(n)
  BY <1>1 DEF IInv, Accounted
<1>4. k < Calls => ctx.err = DeadlineExceeded
  <2>1. ctx.err \in {Nil, DeadlineExceeded}
    BY DEF IInv, Types
  <2>2. k = Calls \/ ctx.err # Nil
    BY <1>1 DEF IInv, LoopOK
  <2>3. k = Calls => ~ (k < Calls)
    BY NumberFacts
  <2> QED BY <2>1, <2>2, <2>3
<1> QED BY <1>2, <1>3, <1>4 DEF Explained, ExplainedSoFar

\* Each call that was made returned an address or is explained, and calls are
\* left out only when the overall budget has ended.
THEOREM NoCallIsPassedOver == Spec => []NothingPassedOver
<1> QED BY Invariance, AllAreAccountedFor, PTL

LEMMA BudgetIsGone == IInv => BudgetMessageIsTrue
BY DEF IInv, BudgetOK, ContextOK, BudgetMessageIsTrue

\* The report says that the budget is gone only of the last call, once, and
\* when the deadline of the context has passed.
THEOREM BudgetMessages == Spec => []BudgetMessageIsTrue
<1> QED BY Invariance, BudgetIsGone, PTL

LEMMA ExitIsAboutAddresses == IInv => FailsEmptyHanded
BY DEF IInv, DoneOK, FailsEmptyHanded

\* The exit status says whether any address was found, with one call and with
\* all, as text and as JSON; one thing besides is an error, a JSON document that
\* could not be written.
THEOREM ExitStatus == Spec => []FailsEmptyHanded
<1> QED BY Invariance, ExitIsAboutAddresses, PTL

\* All calls together take no longer than the flag allows and the one attempt
\* that is under way, also when the product of the flag does not fit a Duration.
THEOREM CommandBounded == Spec => []CommandIsBounded
<1>1. IInv => CommandIsBounded
  BY DEF IInv
<1> QED BY <1>1, Invariance, PTL
=============================================================================
