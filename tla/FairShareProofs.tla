--------------------------- MODULE FairShareProofs --------------------------
(***************************************************************************)
(* The theorems of FairShare.  The argument: while R is the time left, L   *)
(* the turns left and Q the equal share of the whole, R >= L * Q.  A turn  *)
(* takes at most R \div L, so what it leaves is enough for the others.     *)
(***************************************************************************)
EXTENDS FairShare, TLAPS

\* What a share is: the largest number that fits left times into the rest.
LEMMA DivFacts ==
  ASSUME NEW R \in Nat, NEW L \in Nat \ {0}
  PROVE  /\ R \div L \in Nat
         /\ (R \div L) * L <= R
         /\ R < ((R \div L) + 1) * L
<1> DEFINE q == R \div L
           m == R % L
<1>1. q \in Nat /\ m \in 0 .. L - 1 /\ R = L * q + m
  OBVIOUS
<1>2. q * L = L * q /\ (q + 1) * L = L * q + L
  BY <1>1
<1> QED
  BY <1>1, <1>2

\* If Q fits L times into R, then R \div L is Q at least.
LEMMA ShareIsEnough ==
  ASSUME NEW R \in Nat, NEW L \in Nat \ {0}, NEW Q \in Nat, L * Q <= R
  PROVE  R \div L >= Q
<1> DEFINE q == R \div L
<1>1. q \in Nat /\ R < (q + 1) * L
  BY DivFacts
<1>2. SUFFICES ASSUME q < Q PROVE FALSE
  BY <1>1
<1>3. q + 1 <= Q
  BY <1>1, <1>2
<1>4. (q + 1) * L <= Q * L
  <2> HIDE DEF q
  <2>1. \A a, b, c \in Nat : a <= b => a * c <= b * c
    OBVIOUS
  <2> QED
    BY <2>1, <1>1, <1>3
<1>5. Q * L = L * Q
  OBVIOUS
<1> HIDE DEF q
<1> QED
  BY <1>1, <1>4, <1>5

\* A turn that takes no more than its share leaves Q for each of the others.
LEMMA RestIsEnough ==
  ASSUME NEW R \in Nat, NEW L \in Nat \ {0}, NEW Q \in Nat, L * Q <= R,
         NEW s \in Nat, s <= R \div L
  PROVE  (L - 1) * Q <= R - s
<1> DEFINE q == R \div L
<1>1. q \in Nat /\ q * L <= R /\ q >= Q
  BY DivFacts, ShareIsEnough
<1> HIDE DEF q
<1>2. \A a, b, c \in Nat : a <= b => c * a <= c * b
  OBVIOUS
<1>3. (L - 1) * Q <= (L - 1) * q
  BY <1>1, <1>2, L - 1 \in Nat
<1>4. (L - 1) * q = q * L - q
  BY <1>1
<1>5. s <= q
  BY DEF q
<1>6. (L - 1) * Q \in Nat /\ (L - 1) * q \in Nat /\ q * L \in Nat
  BY <1>1
<1> QED
  BY <1>1, <1>3, <1>4, <1>5, <1>6
-----------------------------------------------------------------------------
(* The inductive invariant.                                                *)

SpendingHasTurn == pc = "spending" => left > 0

\* What is left is an equal share for everyone who has not had a turn.
Ledger ==
  /\ pc # "refused"
  /\ now <= total
  /\ left * EqualShare <= total - now

GrantIsShare ==
  pc = "spending" =>
    /\ granted <= (total - now) \div left
    /\ granted >= EqualShare \/ (ceiling > 0 /\ granted = ceiling)

IInv == TypeOK /\ SpendingHasTurn /\ (Enough => Ledger /\ GrantIsShare)

\* attemptBudget on a context whose time is up, and on one with time left: the
\* share s, if it is positive, or the ceiling when that is less, is granted.
LEMMA BudgetOfBounded ==
  ASSUME NEW T \in Nat, NEW n \in Nat, NEW c \in Nat, NEW L \in Nat \ {0},
         NEW g, g = AttemptBudget(Background(T), n, c, L)
  PROVE  LET s == Share(Background(T), n, L) IN
         /\ g.budget \in Nat
         /\ g.ok <=> n < T
         /\ n < T => s \in Nat
         /\ n < T /\ s > 0 =>
              /\ g.budget > 0 /\ g.budget <= s
              /\ g.budget >= s \/ (c > 0 /\ g.budget = c)
<1> DEFINE s == Share(Background(T), n, L)
<1>1. T # NoDeadline /\ s = (T - n) \div L
  BY NoDeadlineAssumption DEF Share, AtLeastOne, Background
<1>2. CASE n < T
  <2>1. T - n \in Nat /\ ~ (T - n <= 0)
    BY <1>2
  <2>2. s \in Nat
    BY <1>1, <2>1, DivFacts
  <2> HIDE DEF s
  <2> DEFINE b == IF c = 0 \/ s < c THEN s ELSE c
  <2>3. b \in Nat /\ (s > 0 => b > 0 /\ b <= s /\ (b = s \/ (c > 0 /\ b = c)))
    BY <2>2
  <2>4. g = [ok     |-> TRUE,
             budget |-> IF b <= 0 THEN DefaultAttemptTimeout ELSE b]
    <3>1. /\ Background(T).deadline = T
          /\ Background(T).err = Nil
          /\ (IF c > 0 THEN c ELSE 0) = c
      BY DEF Background
    <3> QED
      BY <1>1, <2>1, <3>1 DEF AttemptBudget, s
  <2> HIDE DEF b
  <2> QED
    BY <1>2, <2>2, <2>3, <2>4, DefaultAttemptTimeoutAssumption DEF s
<1>3. CASE n >= T
  <2>1. T - n <= 0 /\ Background(T).deadline = T
    BY <1>3 DEF Background
  <2>2. g = Refused
    BY <1>1, <2>1 DEF AttemptBudget
  <2> QED
    BY <1>3, <2>2 DEF Refused
<1> QED
  BY <1>2, <1>3

\* The latest end of a turn is within its grant and the deadline.
LEMMA EndOfTurn ==
  ASSUME NEW T \in Nat, NEW n \in Nat, NEW b \in Nat
  PROVE  LET d == WithTimeout(Background(T), n, b).deadline IN
         d \in Nat /\ d <= T /\ d <= n + b
BY NoDeadlineAssumption DEF WithTimeout, Background

LEMMA InitIInv == Init => IInv
<1> SUFFICES ASSUME Init PROVE IInv
  OBVIOUS
<1>1. TypeOK /\ SpendingHasTurn /\ GrantIsShare
  BY FairShareAssumption DEF Init, TypeOK, SpendingHasTurn, GrantIsShare
<1>2. Ledger
  <2>1. total \in Nat /\ Participants \in Nat \ {0}
    BY FairShareAssumption DEF Init
  <2>2. Participants * EqualShare <= total
    BY <2>1, DivFacts DEF EqualShare
  <2> QED
    BY <2>1, <2>2 DEF Ledger, Init
<1> QED
  BY <1>1, <1>2 DEF IInv

\* A turn is granted while the ledger holds: there is time, and the share is
\* an equal share at least.
LEMMA GrantArithmetic ==
  ASSUME NEW R \in Int, NEW L \in Nat \ {0}, NEW Q \in Nat \ {0}, L * Q <= R
  PROVE  R > 0 /\ R \div L \in Nat /\ R \div L >= Q /\ R \div L > 0
<1>1. L * Q > 0
  <2>1. \A a, b \in Nat \ {0} : a * b > 0
    OBVIOUS
  <2> QED
    BY <2>1
<1>2. R \in Nat \ {0}
  <2>1. L * Q \in Nat
    OBVIOUS
  <2> QED
    BY <1>1, <2>1
<1>3. R \div L \in Nat /\ R \div L >= Q
  BY <1>2, DivFacts, ShareIsEnough
<1> QED
  BY <1>2, <1>3

LEMMA SpendArithmetic ==
  ASSUME NEW T \in Nat, NEW n \in Nat, NEW m \in Nat, NEW L \in Nat \ {0},
         NEW Q \in Nat, NEW g \in Nat,
         n <= m, m <= T, m <= n + g, g <= (T - n) \div L, L * Q <= T - n
  PROVE  (L - 1) * Q <= T - m
<1> DEFINE R == T - n
           q == R \div L
           s == m - n
<1>1. R \in Nat /\ s \in Nat
  OBVIOUS
<1>2. q \in Nat
  BY <1>1, DivFacts
<1>3. s <= q
  <2> HIDE DEF q
  <2>1. g <= q
    BY DEF q
  <2> QED
    BY <1>2, <2>1
<1>4. (L - 1) * Q <= R - s
  <2> HIDE DEF R, s
  <2>1. L * Q <= R
    BY DEF R
  <2> QED
    BY <1>1, <1>3, <2>1, RestIsEnough
<1>5. R - s = T - m
  OBVIOUS
<1> QED
  BY <1>4, <1>5

\* What attemptBudget grants while the ledger holds.
LEMMA GrantedBudget ==
  ASSUME NEW T \in Nat, NEW n \in Nat, NEW c \in Nat, NEW L \in Nat \ {0},
         NEW Q \in Nat \ {0}, L * Q <= T - n,
         NEW g, g = AttemptBudget(Background(T), n, c, L)
  PROVE  /\ g.ok /\ g.budget <= (T - n) \div L
         /\ g.budget >= Q \/ (c > 0 /\ g.budget = c)
<1> DEFINE s == Share(Background(T), n, L)
<1>1. s = (T - n) \div L
  BY DEF Share, AtLeastOne, Background
<1>2. n < T /\ s \in Nat /\ s >= Q /\ s > 0
  <2> DEFINE R == T - n
  <2>1. R \in Int /\ L * Q <= R
    OBVIOUS
  <2> HIDE DEF R
  <2>2. R > 0 /\ R \div L \in Nat /\ R \div L >= Q /\ R \div L > 0
    BY <2>1, GrantArithmetic
  <2>3. n < T
    BY <2>2 DEF R
  <2>4. s = R \div L
    BY <1>1 DEF R
  <2> HIDE DEF s
  <2> QED
    BY <2>2, <2>3, <2>4
<1>3. g.budget \in Nat /\ (n < T => g.ok)
  BY BudgetOfBounded
<1>4. n < T /\ s > 0 => g.budget <= s
  BY BudgetOfBounded
<1>5. n < T /\ s > 0 => g.budget >= s \/ (c > 0 /\ g.budget = c)
  BY BudgetOfBounded
<1> HIDE DEF s
<1>6. g.ok /\ g.budget <= s /\ (g.budget >= Q \/ (c > 0 /\ g.budget = c))
  BY <1>2, <1>3, <1>4, <1>5
<1> QED
  BY <1>1, <1>6

LEMMA EqualShareFacts ==
  ASSUME total \in Nat
  PROVE  EqualShare \in Nat /\ (Enough => EqualShare \in Nat \ {0})
<1>1. Participants \in Nat \ {0}
  BY FairShareAssumption
<1>2. EqualShare \in Nat
  BY <1>1, DivFacts DEF EqualShare
<1>3. ASSUME Enough PROVE EqualShare >= 1
  <2>1. Participants * 1 <= total
    BY <1>1, <1>3 DEF Enough
  <2> QED
    BY <1>1, <2>1, ShareIsEnough DEF EqualShare
<1> QED
  BY <1>2, <1>3

LEMMA GrantIInv ==
  ASSUME IInv, Grant
  PROVE  IInv'
<1>1. /\ total \in Nat /\ now \in Nat /\ ceiling \in Nat
      /\ left \in Nat \ {0}
  BY FairShareAssumption DEF IInv, TypeOK, Grant
<1>2. PICK g : g = AttemptBudget(Background(total), now, ceiling, left)
  OBVIOUS
<1>3. /\ pc' = IF g.ok THEN "spending" ELSE "refused"
      /\ granted' = g.budget
      /\ UNCHANGED <<now, total, ceiling, left>>
  BY <1>2 DEF Grant, ctx
<1>4. TypeOK'
  <2>1. g.budget \in Nat
    BY <1>1, <1>2, BudgetOfBounded
  <2> QED
    BY <1>3, <2>1 DEF IInv, TypeOK
<1>5. SpendingHasTurn'
  BY <1>1, <1>3 DEF SpendingHasTurn
<1>6. ASSUME Enough' PROVE Ledger' /\ GrantIsShare'
  <2>1. Enough /\ Ledger
    BY <1>3, <1>6 DEF IInv, Enough
  <2>2. EqualShare \in Nat \ {0}
    BY <1>1, <2>1, EqualShareFacts
  <2>3. left * EqualShare <= total - now
    BY <2>1 DEF Ledger
  <2>4. /\ g.ok /\ g.budget <= (total - now) \div left
        /\ g.budget >= EqualShare \/ (ceiling > 0 /\ g.budget = ceiling)
    BY <1>1, <1>2, <2>2, <2>3, GrantedBudget
  <2>5. Ledger'
    BY <1>3, <2>1, <2>4 DEF Ledger, EqualShare
  <2>6. GrantIsShare'
    BY <1>3, <2>4 DEF GrantIsShare, EqualShare
  <2> QED
    BY <2>5, <2>6
<1> QED
  BY <1>4, <1>5, <1>6 DEF IInv

LEMMA SpendIInv ==
  ASSUME IInv, Spend
  PROVE  IInv'
<1>1. /\ total \in Nat \ {0} /\ now \in Nat /\ granted \in Nat
      /\ left \in Nat \ {0} /\ left \in 0 .. Participants
  BY FairShareAssumption DEF IInv, TypeOK, Spend, SpendingHasTurn
<1>2. /\ now' \in now .. LatestEnd /\ left' = left - 1
      /\ pc' = "asking" /\ granted' = 0
      /\ UNCHANGED <<total, ceiling>>
  BY DEF Spend, TurnsLeft
<1>3. LatestEnd \in Nat /\ LatestEnd <= total /\ LatestEnd <= now + granted
  BY <1>1, EndOfTurn DEF LatestEnd, ctx
<1>4. now' \in Nat /\ now <= now' /\ now' <= total /\ now' <= now + granted
  BY <1>1, <1>2, <1>3
<1>5. TypeOK'
  BY <1>1, <1>2, <1>4, FairShareAssumption DEF IInv, TypeOK
<1>6. SpendingHasTurn' /\ GrantIsShare'
  BY <1>2 DEF SpendingHasTurn, GrantIsShare
<1>7. ASSUME Enough' PROVE Ledger'
  <2>1. Ledger /\ GrantIsShare
    BY <1>2, <1>7 DEF IInv, Enough
  <2>2. EqualShare \in Nat /\ EqualShare' = EqualShare
    BY <1>1, <1>2, EqualShareFacts DEF EqualShare
  <2>3. /\ granted <= (total - now) \div left
        /\ left * EqualShare <= total - now
    BY <2>1 DEF Ledger, GrantIsShare, Spend
  <2>4. (left - 1) * EqualShare <= total - now'
    BY <1>1, <1>4, <2>2, <2>3, SpendArithmetic
  <2> QED
    BY <1>2, <1>4, <2>2, <2>4 DEF Ledger
<1> QED
  BY <1>5, <1>6, <1>7 DEF IInv

LEMMA IInvStep == IInv /\ [Next]_vars => IInv'
<1> SUFFICES ASSUME IInv, [Next]_vars PROVE IInv'
  OBVIOUS
<1>1. CASE Grant
  BY <1>1, GrantIInv
<1>2. CASE Spend
  BY <1>2, SpendIInv
<1>3. CASE UNCHANGED vars
  BY <1>3 DEF vars, IInv, TypeOK, SpendingHasTurn, Ledger, GrantIsShare,
              Enough, EqualShare
<1> QED
  BY <1>1, <1>2, <1>3 DEF Next, Over

THEOREM Invariance == Spec => []IInv
BY InitIInv, IInvStep, PTL DEF Spec

-----------------------------------------------------------------------------
(* The theorems.                                                           *)

\* Every state of the ledger is well typed.
THEOREM TypeCorrect == Spec => []TypeOK
BY Invariance, PTL DEF IInv

\* However many take a turn and whatever the ceiling: when there is a unit of
\* time for each, attemptBudget refuses nobody.
THEOREM NobodyIsRefused == Spec => []NoneStarved
<1>1. IInv => NoneStarved
  BY DEF IInv, Ledger, NoneStarved
<1> QED
  BY <1>1, Invariance, PTL

\* Each turn is granted an equal share of the whole, or the ceiling.
THEOREM EqualShareForAll == Spec => []NobodyShortchanged
<1>1. IInv => NobodyShortchanged
  BY DEF IInv, GrantIsShare, NobodyShortchanged
<1> QED
  BY <1>1, Invariance, PTL

\* No turn is granted more than a fair share of the time that is left.
THEOREM NoGrantTooLarge == Spec => []GrantIsFairWhenEnough
<1>1. ASSUME IInv PROVE GrantIsFairWhenEnough
  <2>1. SUFFICES ASSUME Enough, pc = "spending"
                 PROVE  granted * left <= total - now
    BY DEF GrantIsFairWhenEnough
  <2> DEFINE R == total - now
             q == R \div left
  <2>2. left \in Nat \ {0} /\ granted \in Nat /\ R \in Nat /\ granted <= q
    BY <1>1, <2>1, FairShareAssumption
       DEF IInv, TypeOK, SpendingHasTurn, Ledger, GrantIsShare
  <2>3. q \in Nat /\ q * left <= R
    BY <2>2, DivFacts
  <2>4. \A a, b, c \in Nat : a <= b => a * c <= b * c
    OBVIOUS
  <2> HIDE DEF q
  <2>5. granted * left <= q * left
    BY <2>2, <2>3, <2>4
  <2> QED
    BY <2>2, <2>3, <2>5
<1> QED
  BY <1>1, Invariance, PTL
=============================================================================
