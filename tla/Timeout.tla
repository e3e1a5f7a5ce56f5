------------------------------ MODULE Timeout -------------------------------
(***************************************************************************)
(* timeout.go: how the time a context has left is divided.                 *)
(***************************************************************************)
EXTENDS Contexts

CONSTANT DefaultAttemptTimeout   \* defaultAttemptTimeout, options.go

ASSUME DefaultAttemptTimeoutAssumption == DefaultAttemptTimeout \in Nat \ {0}

AtLeastOne(n) == IF n < 1 THEN 1 ELSE n

\* MUTANT: the remainder of a division goes to whoever asks first.
Share_RoundedUp(ctx, now, left) ==
  (ctx.deadline - now + AtLeastOne(left) - 1) \div AtLeastOne(left)

\* The share of a bounded context: integer division of durations.
Share(ctx, now, left) == (ctx.deadline - now) \div AtLeastOne(left)

Refused == [ok |-> FALSE, budget |-> 0]

\* MUTANT: only the deadline is looked at.
AttemptBudget_DeadlineOnly(ctx, now, configured, left) ==
  IF ctx.deadline # NoDeadline /\ ctx.deadline - now <= 0
  THEN Refused
  ELSE [ok |-> TRUE, budget |-> configured]

\* attemptBudget: the caller's ceiling (none when configured <= 0) or the fair
\* share, whichever is less; the default when neither gives a positive time.
AttemptBudget(ctx, now, configured, left) ==
  LET bounded == ctx.deadline # NoDeadline
      ceiling == IF configured > 0 THEN configured ELSE 0
      share   == Share(ctx, now, left)
      budget  == IF bounded /\ (ceiling = 0 \/ share < ceiling)
                 THEN share ELSE ceiling
  IN  IF ctx.err # Nil \/ (bounded /\ ctx.deadline - now <= 0)
      THEN Refused
      ELSE [ok     |-> TRUE,
            budget |-> IF budget <= 0 THEN DefaultAttemptTimeout ELSE budget]

\* MUTANT: every method has the whole remainder.
MethodContext_Whole(ctx, now, methodsLeft) == ctx

\* methodContext: only a context with a deadline and methods behind this one is
\* divided.
MethodContext(ctx, now, methodsLeft) ==
  IF ctx.deadline = NoDeadline \/ methodsLeft < 2
  THEN ctx
  ELSE WithTimeout(ctx, now, Share(ctx, now, methodsLeft))

\* callContext of publicip.go: the client's own cap on the whole call.
CallContext(ctx, now, timeout) ==
  IF timeout <= 0 THEN ctx ELSE WithTimeout(ctx, now, timeout)

\* noBudgetError: a nil ctx.Err() means the timer has not fired yet.
NoBudgetError(ctx) == IF ctx.err # Nil THEN ctx.err ELSE DeadlineExceeded
=============================================================================
