------------------------------ MODULE Contexts ------------------------------
(***************************************************************************)
(* Go contexts, as the discovery code uses them: a deadline that may be    *)
(* absent and an error that is set once.  Code that derives a context      *)
(* holds one of these records; time is the clock of the module that uses   *)
(* it, in whatever unit its durations have.                                *)
(***************************************************************************)
EXTENDS Integers

CONSTANT NoDeadline   \* the deadline of a context without one

ASSUME NoDeadlineAssumption == NoDeadline \notin Int

Nil              == "nil"
Canceled         == "context canceled"
DeadlineExceeded == "context deadline exceeded"

ContextErrors == {Nil, Canceled, DeadlineExceeded}

Deadlines == Int \cup {NoDeadline}

Contexts == [deadline : Deadlines, err : ContextErrors]

\* A context nothing has ended yet.
Background(deadline) == [deadline |-> deadline, err |-> Nil]

\* The timer of a context is due: ctx.Err() reports it once the timer has fired.
Due(ctx, now) ==
  /\ ctx.err = Nil
  /\ ctx.deadline # NoDeadline
  /\ ctx.deadline <= now

\* The first error a context is given stays.
Ended(ctx, err) == [ctx EXCEPT !.err = IF @ = Nil THEN err ELSE @]

\* context.WithTimeout: the parent's deadline wins when it is the earlier one,
\* a parent that is over ends the child, and a child without time is born ended.
WithTimeout(parent, now, timeout) ==
  IF parent.deadline # NoDeadline /\ parent.deadline < now + timeout
  THEN parent
  ELSE [deadline |-> now + timeout,
        err      |-> IF parent.err = Nil /\ timeout <= 0
                     THEN DeadlineExceeded ELSE parent.err]
=============================================================================
