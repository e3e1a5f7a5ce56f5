-------------------------------- MODULE Round -------------------------------
(***************************************************************************)
(* runRound of rounds.go with the attempts it runs: one goroutine per      *)
(* target, a buffered channel of outcomes, a goroutine that closes the     *)
(* channel when all are done, and the collector that returns the first     *)
(* address.  An attempt is tryConnection (stun.go), or tryQuery (dns.go)   *)
(* and tryProtocol (http.go), which differ in nothing but what they parse. *)
(*                                                                         *)
(* Steps of the program and timers that are due take no time; only waiting *)
(* for the network does.  Within one instant every order is possible.      *)
(***************************************************************************)
EXTENDS Contexts, Addresses, Sequences, FiniteSets

CONSTANTS
  N,               \* number of targets, numbered in list order
  Kind,            \* "stun", or "query" for DNS and HTTP
  Family,          \* the family forced on every attempt
  Budget,          \* what attemptBudget granted the round
  ParentDeadlines  \* the deadlines the method's context may have

ASSUME RoundAssumption ==
  /\ N \in Nat \ {0}
  /\ Kind \in {"stun", "query"}
  /\ Family \in Families
  /\ Budget \in Nat \ {0}
  /\ ParentDeadlines \subseteq Nat \cup {NoDeadline}

Targets == 1 .. N

VARIABLES
  now,           \* time since the round started
  ctx,           \* the context runRound derives
  over,          \* history: when that context ended
  main,          \* what runRound itself is doing
  phase,         \* what the goroutine of each target is doing
  connDeadline,  \* SetDeadline of each STUN socket
  outcome,       \* what try returned for each target
  results,       \* the channel
  closed,        \* close(results) has run
  winner,        \* the address runRound returned
  failures       \* what it collected

vars == <<now, ctx, over, main, phase, connDeadline, outcome, results, closed,
          winner, failures>>

Failed == "failed"        \* any error of an attempt that is not its context's
NotFound == "not found"   \* ErrNotFound

Errors == ContextErrors \cup {Failed, NotFound}

Outcomes == [ip : IPs \cup {NoIP}, err : Errors]

Phases == {"idle", "new", "dialing", "reading", "asking", "returned", "sent",
           "done"}

TypeOK ==
  /\ now \in Nat
  /\ ctx \in [deadline : Int, err : ContextErrors]
  /\ over \in Nat
  /\ main \in {"launch", "collect", "returned"}
  /\ phase \in [Targets -> Phases]
  /\ connDeadline \in [Targets -> Int]
  /\ outcome \in [Targets -> Outcomes]
  /\ results \in Seq([target : Targets, ip : IPs \cup {NoIP}, err : Errors])
  /\ closed \in BOOLEAN
  /\ winner \in IPs \cup {NoIP}
  /\ failures \in Seq([target : Targets, err : Errors \ {Nil}])

Pending == [ip |-> NoIP, err |-> Nil]

Init ==
  /\ now = 0
  /\ \E d \in ParentDeadlines : ctx = WithTimeout(Background(d), 0, Budget)
  /\ over = 0
  /\ main = "launch"
  /\ phase = [t \in Targets |-> "idle"]
  /\ connDeadline = [t \in Targets |-> 0]
  /\ outcome = [t \in Targets |-> Pending]
  /\ results = <<>>
  /\ closed = FALSE
  /\ winner = NoIP
  /\ failures = <<>>

-----------------------------------------------------------------------------
(* The attempts.                                                           *)

env == <<now, ctx, over, main, results, closed, winner, failures>>

Goto(t, to) == phase' = [phase EXCEPT ![t] = to]

\* MUTANT: the family of the answer is not looked at.
Checked_AnyFamily(ip) ==
  IF ip = NoIP
  THEN [ip |-> NoIP, err |-> Failed]
  ELSE [ip |-> ip, err |-> Nil]

\* What try returns for an address it parsed, NoIP when there was none.
Checked(ip) ==
  IF ip = NoIP \/ FamilyMismatch(ip, Family)
  THEN [ip |-> NoIP, err |-> Failed]
  ELSE [ip |-> ip, err |-> Nil]

Return(t, o) ==
  /\ Goto(t, "returned")
  /\ outcome' = [outcome EXCEPT ![t] = o]
  /\ UNCHANGED <<env, connDeadline>>

Fail(t, err) == Return(t, [ip |-> NoIP, err |-> err])

\* tryConnection starts to dial.
Dial(t) ==
  /\ Kind = "stun" /\ phase[t] = "new"
  /\ Goto(t, "dialing")
  /\ UNCHANGED <<env, connDeadline, outcome>>

\* The socket is open: the request is built and written, and the deadline of
\* the answer is counted from here.
Connected(t) ==
  /\ phase[t] = "dialing"
  /\ Goto(t, "reading")
  /\ connDeadline' = [connDeadline EXCEPT ![t] = now + Budget]
  /\ UNCHANGED <<env, outcome>>

\* The first datagram decides, whoever sent it.
Datagram(t) ==
  /\ phase[t] = "reading"
  /\ \E ip \in IPs \cup {NoIP} : Return(t, Checked(ip))

ReadTimeout(t) ==
  /\ phase[t] = "reading"
  /\ connDeadline[t] <= now
  /\ Fail(t, Failed)

\* tryQuery, tryProtocol: the question is asked; one answer is looked at.
Ask(t) ==
  /\ Kind = "query" /\ phase[t] = "new"
  /\ Goto(t, "asking")
  /\ UNCHANGED <<env, connDeadline, outcome>>

Answered(t) ==
  /\ phase[t] = "asking"
  /\ \E ip \in IPs \cup {NoIP} : Return(t, Checked(ip))

\* Any other error: a target that is not usable, a refused connection, no
\* entropy, a failed write, an ICMP error.
AttemptFails(t) ==
  /\ phase[t] \in {"dialing", "reading", "asking"} \/
     (phase[t] = "new" /\ Kind = "query")
  /\ Fail(t, Failed)

\* MUTANT: the query is made without the round's context.
ObeysContext_DialOnly(t) == phase[t] = "dialing"

\* The calls that take the context; a socket's Read knows only its deadline.
ObeysContext(t) == phase[t] \in {"dialing", "asking"}

Abandon(t) ==
  /\ ObeysContext(t)
  /\ ctx.err # Nil
  /\ Fail(t, ctx.err)

\* MUTANT: the channel is not as wide as the round.
Capacity_One == 1

Capacity == N

Send(t) ==
  /\ phase[t] = "returned"
  /\ Len(results) < Capacity
  /\ results' = Append(results, [target |-> t, ip |-> outcome[t].ip,
                                 err |-> outcome[t].err])
  /\ Goto(t, "sent")
  /\ UNCHANGED <<now, ctx, over, main, connDeadline, outcome, closed, winner,
                 failures>>

\* MUTANT: wg.Done is not deferred, and a failed attempt misses it.
Done_SuccessOnly(t) ==
  /\ phase[t] = "sent" /\ outcome[t].ip # NoIP
  /\ Goto(t, "done")
  /\ UNCHANGED <<env, connDeadline, outcome>>

Done(t) ==
  /\ phase[t] = "sent"
  /\ Goto(t, "done")
  /\ UNCHANGED <<env, connDeadline, outcome>>

-----------------------------------------------------------------------------
(* runRound and the goroutine that closes the channel.                     *)

attempts == <<phase, connDeadline, outcome>>

EndContext(err) ==
  /\ ctx' = Ended(ctx, err)
  /\ over' = IF ctx.err = Nil THEN now ELSE over

Launch(t) ==
  /\ main = "launch"
  /\ phase[t] = "idle"
  /\ \A u \in Targets : u < t => phase[u] # "idle"
  /\ Goto(t, "new")
  /\ main' = IF t = N THEN "collect" ELSE main
  /\ UNCHANGED <<now, ctx, over, connDeadline, outcome, results, closed, winner,
                 failures>>

\* MUTANT: wg.Add is called by the goroutine itself.
Close_AddInside ==
  /\ main # "launch" /\ ~ closed
  /\ \A t \in Targets : phase[t] \in {"new", "done"}
  /\ closed' = TRUE
  /\ UNCHANGED <<attempts, now, ctx, over, main, results, winner, failures>>

\* wg.Wait returned.
Close ==
  /\ main # "launch" /\ ~ closed
  /\ \A t \in Targets : phase[t] = "done"
  /\ closed' = TRUE
  /\ UNCHANGED <<attempts, now, ctx, over, main, results, winner, failures>>

\* MUTANT: no deferred cancel.
ReceiveAddress_NoCancel ==
  /\ main = "collect" /\ results # <<>> /\ Head(results).ip # NoIP
  /\ winner' = Head(results).ip
  /\ results' = Tail(results)
  /\ main' = "returned"
  /\ UNCHANGED <<attempts, now, ctx, over, closed, failures>>

\* An address ends the round and, through the deferred cancel, its context.
ReceiveAddress ==
  /\ main = "collect" /\ results # <<>> /\ Head(results).ip # NoIP
  /\ winner' = Head(results).ip
  /\ results' = Tail(results)
  /\ main' = "returned"
  /\ EndContext(Canceled)
  /\ UNCHANGED <<attempts, now, closed, failures>>

\* MUTANT: an attempt's own error is lost.
ReportedError_ContextOnly(err) == IF err \in ContextErrors THEN err ELSE Nil

\* A nil error with a nil address is reported as having found nothing.
ReportedError(err) == IF err = Nil THEN NotFound ELSE err

ReceiveFailure ==
  /\ main = "collect" /\ results # <<>> /\ Head(results).ip = NoIP
  /\ failures' = Append(failures, [target |-> Head(results).target,
                                   err |-> ReportedError(Head(results).err)])
  /\ results' = Tail(results)
  /\ UNCHANGED <<attempts, now, ctx, over, main, closed, winner>>

\* MUTANT: the collector gives up as soon as the context is over.
ReceiveClosed_OnContext ==
  /\ main = "collect" /\ results = <<>> /\ (closed \/ ctx.err # Nil)
  /\ main' = "returned"
  /\ EndContext(Canceled)
  /\ UNCHANGED <<attempts, now, results, closed, winner, failures>>

\* MUTANT: a closed channel is not drained.
ReceiveClosed_Undrained ==
  /\ main = "collect" /\ closed
  /\ main' = "returned"
  /\ EndContext(Canceled)
  /\ UNCHANGED <<attempts, now, results, closed, winner, failures>>

\* The channel is drained and closed.
ReceiveClosed ==
  /\ main = "collect" /\ results = <<>> /\ closed
  /\ main' = "returned"
  /\ EndContext(Canceled)
  /\ UNCHANGED <<attempts, now, results, closed, winner, failures>>

Collect == ReceiveAddress \/ ReceiveFailure \/ ReceiveClosed

-----------------------------------------------------------------------------
(* Time and the caller.                                                    *)

CallerCancels ==
  /\ ctx.err = Nil
  /\ EndContext(Canceled)
  /\ UNCHANGED <<attempts, now, main, results, closed, winner, failures>>

DeadlineFires ==
  /\ Due(ctx, now)
  /\ EndContext(DeadlineExceeded)
  /\ UNCHANGED <<attempts, now, main, results, closed, winner, failures>>

\* t waits for the network, and for nothing else.
InFlight(t) == phase[t] \in {"dialing", "reading", "asking"}

Waiting(t) ==
  \/ /\ InFlight(t)
     /\ ObeysContext(t) => ctx.err = Nil
     /\ phase[t] = "reading" => now < connDeadline[t]
  \/ phase[t] = "done"

\* Nobody can move but the network.
Tick ==
  /\ \E t \in Targets : InFlight(t)
  /\ \A t \in Targets : Waiting(t)
  /\ main = "returned" \/ (main = "collect" /\ results = <<>> /\ ~ closed)
  /\ ~ Due(ctx, now)
  /\ now' = now + 1
  /\ UNCHANGED <<attempts, ctx, over, main, results, closed, winner, failures>>

AllOver == main = "returned" /\ closed

Terminated == AllOver /\ UNCHANGED vars

\* What the goroutine of t does of its own accord.
Proceeds(t) ==
  Dial(t) \/ Ask(t) \/ ReadTimeout(t) \/ Abandon(t) \/ Send(t) \/ Done(t)

\* What the network does to it.
Network(t) ==
  Connected(t) \/ Datagram(t) \/ Answered(t) \/ AttemptFails(t)

Next ==
  \/ \E t \in Targets : Launch(t) \/ Proceeds(t) \/ Network(t)
  \/ Close \/ Collect \/ CallerCancels \/ DeadlineFires \/ Tick \/ Terminated

\* The scheduler runs every goroutine and every timer; nothing obliges the
\* network to answer or the caller to cancel.
Fairness ==
  /\ \A t \in Targets : WF_vars(Proceeds(t)) /\ WF_vars(Launch(t))
  /\ WF_vars(Close) /\ WF_vars(Collect)
  /\ WF_vars(DeadlineFires) /\ WF_vars(Tick)

Spec == Init /\ [][Next]_vars /\ Fairness
-----------------------------------------------------------------------------
(* Properties.                                                             *)

\* No goroutine is left to send on results once it is closed: that panics.
NoSendOnClosed ==
  closed => \A t \in Targets : phase[t] \in {"sent", "done"}

\* An attempt that returned finds room in the channel, even when runRound has
\* stopped receiving: a sender that blocks there is a leaked goroutine.
SendsNeverBlock ==
  \A t \in Targets : phase[t] = "returned" => Len(results) < Capacity

\* A round that found nothing reports each of its targets, and none twice.
EveryLossReported ==
  main = "returned" /\ winner = NoIP =>
    \A t \in Targets : \E i \in 1 .. Len(failures) :
      /\ failures[i].target = t
      /\ \A j \in 1 .. Len(failures) : failures[j].target = t => j = i

\* runRound reports failure only when no attempt came back with an address,
\* however late and in whatever order the attempts ended.
NoAnswerDiscarded ==
  main = "returned" /\ winner = NoIP =>
    \A t \in Targets : phase[t] # "idle" /\ outcome[t].ip = NoIP

\* runRound, seen from run, is a race: one address of the family or every
\* target reported, no later than the contract allows.
Verdict ==
  IF main # "returned" THEN "racing" ELSE IF winner = NoIP THEN "lost" ELSE winner

Reported == {failures[i].target : i \in 1 .. Len(failures)}

Contract == INSTANCE Race WITH
  verdict        <- Verdict,
  reported       <- IF Verdict = "lost" THEN Reported ELSE {},
  HonoursContext <- Kind = "query"

RaceContract == Contract!Safety

\* A round is a race that ends: no answer that fails to come can hold up run.
RoundIsRace == Contract!Spec

\* Every goroutine of the round ends and the channel is closed, whoever wins
\* and whatever the network leaves unanswered.
EveryGoroutineEnds == <>[](AllOver /\ \A t \in Targets : phase[t] = "done")

\* "The rest are cancelled": once runRound has returned nothing of the round
\* waits for the network any more.
LosersReleased == [][main = "returned" => now' = now]_vars

\* Failures are listed in the order their targets were tried.
FailuresInOrder ==
  \A i, j \in 1 .. Len(failures) :
    i < j => failures[i].target < failures[j].target
=============================================================================
