------------------------------- MODULE Command ------------------------------
(***************************************************************************)
(* cmd/publicip: run reads the flags, report makes one call of the client, *)
(* reportAll one for each family and method.  A call is what module Call   *)
(* says of it, which Discovery implements; the client is New() without     *)
(* options.  Nobody cancels the context: only its deadline ends it.        *)
(***************************************************************************)
EXTENDS Timeout, Addresses, Sequences, FiniteSets

CONSTANTS
  FlagSets,  \* what the command may be started with
  Hosts,     \* the addresses the host has in each family
  Second,    \* time.Second
  Width      \* bits of a time.Duration

ASSUME CommandAssumption ==
  /\ \A f \in FlagSets :
       /\ DOMAIN f = {"info", "ipVersion", "method", "timeout", "all", "json", "verbose"}
       /\ f.timeout \in Int
       /\ f.info \in BOOLEAN /\ f.all \in BOOLEAN
       /\ f.json \in BOOLEAN /\ f.verbose \in BOOLEAN
  /\ Hosts # {}
  /\ Second \in Nat \ {0}
  /\ Width \in Nat \ {0}

VARIABLES
  flags,
  pc,
  asked, now, ctx, over, state, answer,  \* the call under way, and the clock
  k,          \* where the loops are: the number of the last call
  findings,   \* each address with the call that is credited with it
  problems,   \* each call that is explained, and how
  exit,       \* the exit status
  output,     \* what was written
  written,    \* whether writing the addresses worked
  heard       \* history: what each call returned that returned an address

call == <<asked, now, ctx, over, state, answer>>
report == <<findings, problems, exit, output, written>>
vars == <<flags, pc, call, k, report, heard>>

Probe == INSTANCE Call

ParseVersion(raw) ==
  CASE raw = ""  -> "Any"
    [] raw = "4" -> "IPv4Only"
    [] raw = "6" -> "IPv6Only"
    [] OTHER     -> "invalid"

Methods == <<"stun", "dns", "http">>

\* raw in lower case, which is how it is compared.
ParseMethod(raw) == IF raw \in {"", "stun", "dns", "http"} THEN raw ELSE "invalid"

\* time.Duration(timeout) * time.Second, in a signed integer.
Duration(timeout) ==
  ((timeout * Second + 2 ^ (Width - 1)) % 2 ^ Width) - 2 ^ (Width - 1)

Version == ParseVersion(flags.ipVersion)

FamiliesAsked == IF Version = "Any" THEN <<"IPv6Only", "IPv4Only">> ELSE <<Version>>

\* The calls, in their order.
Calls == IF flags.all THEN Len(Methods) * Len(FamiliesAsked) ELSE 1

MethodOf(n) ==
  IF flags.all THEN Methods[((n - 1) % Len(Methods)) + 1] ELSE ParseMethod(flags.method)

VersionAsked(n) ==
  IF flags.all THEN FamiliesAsked[((n - 1) \div Len(Methods)) + 1] ELSE Version

Question(n) ==
  [version |-> VersionAsked(n), timeout |-> 0, open |-> FALSE,
   late |-> IF MethodOf(n) \in {"", "stun"} THEN DefaultAttemptTimeout ELSE 0]

Nothing == [addresses |-> <<>>, problems |-> <<>>]

Init ==
  /\ flags \in FlagSets
  /\ pc = "start"
  /\ asked = [version |-> "Any", timeout |-> 0, open |-> FALSE, late |-> 0]
  /\ now = 0
  /\ ctx = Background(NoDeadline)
  /\ over = 0
  /\ state = "returned"
  /\ answer = Probe!NoAnswer
  /\ k = 0
  /\ findings = <<>>
  /\ problems = <<>>
  /\ exit = "none"
  /\ output = Nothing
  /\ written = TRUE
  /\ heard = <<>>

-----------------------------------------------------------------------------
(* run, and the calls.                                                     *)

Exit(status) == pc' = "done" /\ exit' = status

\* MUTANT: an unknown version is taken for what it says.
Rejected_NotVersion ==
  ParseMethod(flags.method) = "invalid" \/ flags.timeout <= 0

Rejected ==
  \/ Version = "invalid"
  \/ ParseMethod(flags.method) = "invalid"
  \/ flags.timeout <= 0

\* Help, the version, or flags that say nothing sensible.
NothingToDo ==
  /\ pc = "start" /\ (flags.info \/ Rejected)
  /\ Exit(IF flags.info THEN "ok" ELSE "error")
  /\ UNCHANGED <<flags, call, k, findings, problems, output, written, heard>>

Run ==
  /\ pc = "start" /\ ~ flags.info /\ ~ Rejected
  /\ ctx' = WithTimeout(ctx, now, Duration(flags.timeout))
  /\ over' = now
  /\ pc' = "ask"
  /\ UNCHANGED <<flags, asked, now, state, answer, k, report, heard>>

\* MUTANT: the budget is given to each call.
Ask_OwnBudget ==
  /\ pc = "ask"
  /\ k' = k + 1
  /\ asked' = Question(k + 1)
  /\ state' = "called"
  /\ answer' = Probe!NoAnswer
  /\ ctx' = WithTimeout(Background(NoDeadline), now, Duration(flags.timeout))
  /\ pc' = "calling"
  /\ UNCHANGED <<flags, now, over, report, heard>>

Ask ==
  /\ pc = "ask"
  /\ k' = k + 1
  /\ asked' = Question(k + 1)
  /\ state' = "called"
  /\ answer' = Probe!NoAnswer
  /\ pc' = "calling"
  /\ UNCHANGED <<flags, now, ctx, over, report, heard>>

\* The client has a discoverer for each of the methods.
ClientStarts ==
  /\ pc = "calling" /\ Probe!Start
  /\ UNCHANGED <<flags, pc, k, report, heard>>

ClientReturns ==
  /\ pc = "calling"
  /\ \/ Probe!Fail /\ UNCHANGED heard
     \/ Probe!Find /\ \E host \in Hosts :
          heard' = Append(heard, [n |-> k, family |-> answer'.version, host |-> host])
  /\ UNCHANGED <<flags, pc, k, report>>

Expires ==
  /\ pc # "done" /\ Probe!Expire
  /\ UNCHANGED <<flags, pc, k, report, heard>>

\* Only calls take time.
Wait ==
  /\ pc = "calling" /\ Probe!Wait
  /\ UNCHANGED <<flags, pc, k, report, heard>>

-----------------------------------------------------------------------------
(* report, for a single call, and reportAll.                               *)

Returned == pc = "calling" /\ state = "returned"

Found == answer.status = "found"

\* The address the call has just returned.
Address == heard[Len(heard)]

SameAddress(a, b) == a.family = b.family /\ a.host = b.host

\* A document that cannot be written is an error; whether bare lines could be is
\* not looked at.
Printed(addresses, explained) ==
  \E works \in BOOLEAN :
    /\ written' = works
    /\ Exit(IF flags.json /\ ~ works THEN "error" ELSE "ok")
    /\ output' = IF works THEN [addresses |-> addresses, problems |-> explained]
                 ELSE Nothing

PrintedNone(explained) ==
  /\ Exit("error")
  /\ output' = [Nothing EXCEPT !.problems = IF flags.verbose THEN explained ELSE <<>>]
  /\ UNCHANGED written

ReportOne ==
  /\ Returned /\ ~ flags.all
  /\ IF Found
     THEN Printed(<<Address>>, <<>>)
     ELSE PrintedNone(<<[n |-> k, why |-> "failed"]>>)
  /\ UNCHANGED <<flags, call, k, findings, problems, heard>>

\* Where the loops go after a call.
GoOn == pc' = IF k % Len(Methods) = 0 THEN "family" ELSE "ask"

\* MUTANT: an address is credited to the last method that reports it.
TakeAddress_Overwrites ==
  /\ Returned /\ flags.all /\ Found
  /\ findings' = Append(SelectSeq(findings, LAMBDA f : ~ SameAddress(f, Address)),
                        Address)
  /\ GoOn
  /\ UNCHANGED <<flags, call, k, problems, exit, output, written, heard>>

TakeAddress ==
  /\ Returned /\ flags.all /\ Found
  /\ findings' = IF \E i \in DOMAIN findings : SameAddress(findings[i], Address)
                 THEN findings ELSE Append(findings, Address)
  /\ GoOn
  /\ UNCHANGED <<flags, call, k, problems, exit, output, written, heard>>

Explain(why) == problems' = Append(problems, [n |-> k, why |-> why])

\* MUTANT: the first call that fails ends its family.
Skip_Breaks ==
  /\ Returned /\ flags.all /\ ~ Found /\ ctx.err = Nil
  /\ IF flags.verbose THEN Explain("failed") ELSE UNCHANGED problems
  /\ pc' = "family"
  /\ UNCHANGED <<flags, call, k, findings, exit, output, written, heard>>

Skip ==
  /\ Returned /\ flags.all /\ ~ Found /\ ctx.err = Nil
  /\ IF flags.verbose THEN Explain("failed") ELSE UNCHANGED problems
  /\ GoOn
  /\ UNCHANGED <<flags, call, k, findings, exit, output, written, heard>>

\* MUTANT: the loop over the methods goes on.
BudgetGone_Continues ==
  /\ Returned /\ flags.all /\ ~ Found /\ ctx.err # Nil
  /\ Explain("budget")
  /\ GoOn
  /\ UNCHANGED <<flags, call, k, findings, exit, output, written, heard>>

BudgetGone ==
  /\ Returned /\ flags.all /\ ~ Found /\ ctx.err # Nil
  /\ Explain("budget")
  /\ pc' = "family"
  /\ UNCHANGED <<flags, call, k, findings, exit, output, written, heard>>

\* The last call of the family of call k.
LastOfFamily == Len(Methods) * ((k + Len(Methods) - 1) \div Len(Methods))

\* The context is asked again between the families.
FamilyEnds ==
  /\ pc = "family"
  /\ IF ctx.err # Nil \/ LastOfFamily = Calls
     THEN pc' = "report" /\ UNCHANGED k
     ELSE pc' = "ask" /\ k' = LastOfFamily
  /\ UNCHANGED <<flags, call, report, heard>>

\* MUTANT: an exhausted budget is an error, whatever was found.
ReportAll_AllOrNothing ==
  /\ pc = "report"
  /\ IF findings = <<>> \/ ctx.err # Nil
     THEN PrintedNone(problems)
     ELSE Printed(findings, IF flags.json \/ flags.verbose THEN problems ELSE <<>>)
  /\ UNCHANGED <<flags, call, k, findings, problems, heard>>

ReportAll ==
  /\ pc = "report"
  /\ IF findings = <<>>
     THEN PrintedNone(problems)
     ELSE Printed(findings, IF flags.json \/ flags.verbose THEN problems ELSE <<>>)
  /\ UNCHANGED <<flags, call, k, findings, problems, heard>>

Terminated == pc = "done" /\ UNCHANGED vars

Program ==
  \/ NothingToDo \/ Run \/ Ask \/ ClientStarts \/ ReportOne
  \/ TakeAddress \/ Skip \/ BudgetGone \/ FamilyEnds \/ ReportAll

Next == Program \/ ClientReturns \/ Expires \/ Wait \/ Terminated

Spec == Init /\ [][Next]_vars

-----------------------------------------------------------------------------
(* Properties.                                                             *)

Reports == [n : Nat, family : {"IPv4Only", "IPv6Only"}, host : Hosts]
Explanations == [n : Nat, why : {"failed", "budget"}]

TypeOK ==
  /\ flags \in FlagSets
  /\ pc \in {"start", "ask", "calling", "family", "report", "done"}
  /\ asked \in Probe!Questions
  /\ now \in Nat
  /\ ctx \in Contexts
  /\ over \in Nat
  /\ state \in {"called", "running", "returned"}
  /\ k \in 0 .. Calls
  /\ findings \in Seq(Reports) /\ heard \in Seq(Reports)
  /\ problems \in Seq(Explanations)
  /\ exit \in {"none", "ok", "error"}
  /\ output.addresses \in Seq(Reports) /\ output.problems \in Seq(Explanations)
  /\ written \in BOOLEAN

FirstReport(i) == \A j \in 1 .. i - 1 : ~ SameAddress(heard[j], heard[i])

\* The command has made its calls, and what it had to show was not lost in writing.
Delivered == pc = "done" /\ k > 0 /\ written

\* "The first probe to report an address wins": each address that was heard is
\* shown once, in the order and with the method that came first, also what
\* arrives in the instant in which the budget ends.
FirstReportersWin ==
  flags.all /\ Delivered =>
    LET shown == output.addresses IN
    /\ {shown[i] : i \in DOMAIN shown} =
         {heard[i] : i \in {j \in DOMAIN heard : FirstReport(j)}}
    /\ \A i, j \in DOMAIN shown : i < j => shown[i].n < shown[j].n

Heard(n) == \E i \in DOMAIN heard : heard[i].n = n

Explained(n) == \E i \in DOMAIN output.problems : output.problems[i].n = n

\* "Try every method and family": whoever listens learns of each call that was
\* made, and none is left out while there is time.
NothingPassedOver ==
  flags.all /\ flags.verbose /\ Delivered =>
    /\ \A n \in 1 .. k : Heard(n) \/ Explained(n)
    /\ k < Calls => ctx.err = DeadlineExceeded

\* "The budget is gone; report what was collected": it is said at most once, of
\* the last call that was made, and only when the time has passed.
BudgetMessageIsTrue ==
  \A i \in DOMAIN problems :
    problems[i].why = "budget" =>
      i = Len(problems) /\ problems[i].n = k /\ ctx.deadline <= now

\* The exit status is about the addresses: neither a failed call nor a budget
\* that ran out turns an address that was found into an error, as text or as
\* JSON.  One thing does: a JSON document that could not be written.
FailsEmptyHanded ==
  pc = "done" /\ k > 0 =>
    /\ exit = "ok" => heard # <<>>
    /\ exit = "error" => heard = <<>> \/ (flags.json /\ ~ written)

Budget == IF Duration(flags.timeout) > 0 THEN Duration(flags.timeout) ELSE 0

\* "Overall budget in seconds": all calls together exceed it by no more than
\* what one attempt on a socket takes.
CommandIsBounded == now <= Budget + DefaultAttemptTimeout
=============================================================================
