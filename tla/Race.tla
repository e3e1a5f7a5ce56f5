-------------------------------- MODULE Race --------------------------------
(***************************************************************************)
(* What one round of attempts promises the code that starts it: it ends    *)
(* with one address of the family it was asked for, or with every target   *)
(* reported; and it ends by a time that depends on whether its attempts    *)
(* obey the round's context.                                               *)
(***************************************************************************)
EXTENDS Contexts, Addresses

CONSTANTS
  Targets,          \* the targets of the round
  Family,           \* the family forced on every attempt
  Budget,           \* what attemptBudget granted the round
  ParentDeadlines,  \* the deadlines the context handed to the round may have
  HonoursContext    \* FALSE for attempts that wait on a socket deadline

VARIABLES
  now,       \* time since the round started
  ctx,       \* the round's context
  over,      \* when it ended
  verdict,   \* "racing", the address found, or "lost"
  reported   \* the targets a lost round reports

vars == <<now, ctx, over, verdict, reported>>

Init ==
  /\ now = 0
  /\ \E d \in ParentDeadlines : ctx = WithTimeout(Background(d), 0, Budget)
  /\ over = 0
  /\ verdict = "racing"
  /\ reported = {}

EndContext(err) ==
  /\ ctx' = Ended(ctx, err)
  /\ over' = IF ctx.err = Nil THEN now ELSE over

Win ==
  /\ verdict = "racing"
  /\ \E ip \in IPs : ~ FamilyMismatch(ip, Family) /\ verdict' = ip
  /\ EndContext(Canceled)
  /\ UNCHANGED <<now, reported>>

Lose ==
  /\ verdict = "racing"
  /\ verdict' = "lost"
  /\ reported' = Targets
  /\ EndContext(Canceled)
  /\ UNCHANGED now

\* The caller gives up, or the deadline is noticed.
ContextEnds ==
  /\ ctx.err = Nil
  /\ \/ EndContext(Canceled)
     \/ Due(ctx, now) /\ EndContext(DeadlineExceeded)
  /\ UNCHANGED <<now, verdict, reported>>

\* While a round races, time passes up to the end of its context, be that the
\* deadline or a cancellation; an attempt that does not obey the context may
\* hold the round up for a budget more.
Wait ==
  /\ verdict = "racing" =>
       IF ctx.err = Nil
       THEN now < ctx.deadline
       ELSE ~ HonoursContext /\ now < over + Budget
  /\ now' = now + 1
  /\ UNCHANGED <<ctx, over, verdict, reported>>

Next == Win \/ Lose \/ ContextEnds \/ Wait

Safety == Init /\ [][Next]_vars

Spec == Safety /\ WF_vars(Win \/ Lose)
=============================================================================
