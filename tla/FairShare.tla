------------------------------ MODULE FairShare -----------------------------
(***************************************************************************)
(* How a deadline is divided among those that run one after the other: the *)
(* rounds of a method, which attemptBudget serves, and the methods of a    *)
(* call, which methodContext serves with the same share.  Each participant *)
(* asks when its turn comes and takes any time up to what its context      *)
(* allows.                                                                 *)
(***************************************************************************)
EXTENDS Timeout

CONSTANTS
  Participants,  \* how many take a turn
  Totals,        \* the times a context may have left at the start
  Ceilings       \* configured of attemptBudget; 0 for none

ASSUME FairShareAssumption ==
  /\ Participants \in Nat \ {0}
  /\ Totals \subseteq Nat \ {0}
  /\ Ceilings \subseteq Nat

VARIABLES
  now,      \* time since the context was made
  total,    \* the deadline of the context
  ceiling,
  left,     \* participants that have not had their turn, the current one too
  pc,       \* "asking", "spending" or "refused"
  granted   \* the budget of the participant that is spending

vars == <<now, total, ceiling, left, pc, granted>>

ctx == Background(total)

TypeOK ==
  /\ now \in Nat
  /\ total \in Totals
  /\ ceiling \in Ceilings
  /\ left \in 0 .. Participants
  /\ pc \in {"asking", "spending", "refused"}
  /\ granted \in Nat

Init ==
  /\ now = 0
  /\ total \in Totals
  /\ ceiling \in Ceilings
  /\ left = Participants
  /\ pc = "asking"
  /\ granted = 0

Grant ==
  LET g == AttemptBudget(ctx, now, ceiling, left) IN
  /\ pc = "asking" /\ left > 0
  /\ pc' = IF g.ok THEN "spending" ELSE "refused"
  /\ granted' = g.budget
  /\ UNCHANGED <<now, total, ceiling, left>>

\* MUTANT: a turn is not bounded by what it was granted.
LatestEnd_Unbounded == total

\* The context of a turn: WithTimeout(ctx, granted).
LatestEnd == WithTimeout(ctx, now, granted).deadline

\* MUTANT: attemptsLeft is not counted down.
TurnsLeft_Stuck == left

\* MUTANT: it is counted down by the loop and by the turn.
TurnsLeft_Twice == left - 2

\* len(rounds)-i: the one who spent is not counted again.
TurnsLeft == left - 1

Spend ==
  /\ pc = "spending"
  /\ now' \in now .. LatestEnd
  /\ left' = TurnsLeft
  /\ pc' = "asking"
  /\ granted' = 0
  /\ UNCHANGED <<total, ceiling>>

\* Everyone had a turn, or someone was refused.
Over == (pc = "refused" \/ left = 0) /\ UNCHANGED vars

Next == Grant \/ Spend \/ Over

Spec == Init /\ [][Next]_vars

-----------------------------------------------------------------------------
(* Properties.                                                             *)

\* There is a unit of time for everyone.
Enough == total >= Participants

EqualShare == total \div Participants

\* With a unit of time for everyone, no participant is refused, whatever those
\* before it took.
NoneStarved == Enough => pc # "refused"

\* A turn is never granted less than an equal share of the whole, or the
\* ceiling when that is less: time left over by one is never lost to the rest.
NobodyShortchanged ==
  Enough /\ pc = "spending" =>
    granted >= EqualShare \/ (ceiling > 0 /\ granted = ceiling)

\* A turn is never granted more than a fair share of what is left: "an attempt
\* also never exceeds a fair share of what the call has left" (options.go).  With
\* less than a unit for each the share is 0, and the default is granted instead.
GrantIsFairWhenEnough ==
  Enough /\ pc = "spending" => granted * left <= total - now
=============================================================================
