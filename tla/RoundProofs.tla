----------------------------- MODULE RoundProofs ----------------------------
(***************************************************************************)
(* The theorems of Round.  What is in the channel or was collected comes   *)
(* from goroutines that have sent, each once; until an address is found    *)
(* nothing is dropped.  So a channel as wide as the round never fills, and *)
(* a round that drains it with no address has heard from every target.     *)
(***************************************************************************)
EXTENDS Round, FiniteSetTheorems, SequenceTheorems, TLAPS

Over == {"sent", "done"}
HasOutcome == {"returned", "sent", "done"}

\* The goroutines are launched in list order; the collector starts after all.
LaunchOrder ==
  /\ main = "launch" <=> phase[N] = "idle"
  /\ \A t, u \in Targets : t < u /\ phase[t] = "idle" => phase[u] = "idle"

\* An outcome is there once try returned, and an address in it is of the family.
OutcomesOK ==
  \A t \in Targets :
    outcome[t].ip # NoIP =>
      phase[t] \in HasOutcome /\ ~ FamilyMismatch(outcome[t].ip, Family)

ResultsOK ==
  /\ \A i \in 1 .. Len(results) :
       /\ phase[results[i].target] \in Over
       /\ results[i].ip = outcome[results[i].target].ip
  /\ \A i, j \in 1 .. Len(results) :
       results[i].target = results[j].target => i = j

FailuresOK ==
  /\ \A i \in 1 .. Len(failures) :
       /\ phase[failures[i].target] \in Over
       /\ outcome[failures[i].target].ip = NoIP
  /\ \A i, j \in 1 .. Len(failures) :
       failures[i].target = failures[j].target => i = j
  /\ \A i \in 1 .. Len(failures), j \in 1 .. Len(results) :
       failures[i].target # results[j].target

\* Until an address is found everything sent is in the channel or collected.
Accounted ==
  winner = NoIP =>
    \A t \in Targets :
      phase[t] \in Over =>
        \/ \E i \in 1 .. Len(results) : results[i].target = t
        \/ \E i \in 1 .. Len(failures) : failures[i].target = t

ClosedOK == closed => main # "launch" /\ \A t \in Targets : phase[t] = "done"

ReturnOK ==
  /\ winner # NoIP => main = "returned" /\ ~ FamilyMismatch(winner, Family)
  /\ main = "returned" /\ winner = NoIP => closed /\ results = <<>>

KindOK ==
  \A t \in Targets :
    /\ phase[t] \in {"dialing", "reading"} => Kind = "stun"
    /\ phase[t] = "asking" => Kind = "query"

\* When the context ends, or has ended.
End == IF ctx.err = Nil THEN ctx.deadline ELSE over

\* What obeys the context ends with it; a socket, a budget later.
TimeOK ==
  \A t \in Targets :
    /\ phase[t] \in {"idle", "new", "dialing", "asking"} => now <= End
    /\ phase[t] = "reading" =>
         /\ now <= connDeadline[t] /\ connDeadline[t] <= now + Budget
         /\ connDeadline[t] <= End + Budget

IInv ==
  /\ TypeOK
  /\ LaunchOrder
  /\ OutcomesOK
  /\ ResultsOK
  /\ FailuresOK
  /\ Accounted
  /\ ClosedOK
  /\ ReturnOK
  /\ KindOK
  /\ TimeOK
-----------------------------------------------------------------------------
(* Initially and after each step.                                          *)

LEMMA Constants ==
  /\ N \in Nat \ {0} /\ N \in Targets /\ Targets \subseteq Nat
  /\ Budget \in Nat \ {0}
BY RoundAssumption DEF Targets

\* What an address is checked against before try returns it.
LEMMA CheckedFacts ==
  ASSUME NEW ip \in IPs \cup {NoIP}
  PROVE  /\ Checked(ip) \in Outcomes
         /\ Checked(ip).ip # NoIP => ~ FamilyMismatch(Checked(ip).ip, Family)
BY DEF Checked, Outcomes, Errors, ContextErrors, Nil, Failed

\* What the channel and the collector hold speaks of targets.
LEMMA Entries ==
  ASSUME TypeOK
  PROVE  /\ Len(results) \in Nat /\ Len(failures) \in Nat
         /\ \A i \in 1 .. Len(results) :
              results[i].target \in Targets /\ results[i].ip \in IPs \cup {NoIP}
         /\ \A i \in 1 .. Len(failures) : failures[i].target \in Targets
<1> DEFINE R == [target : Targets, ip : IPs \cup {NoIP}, err : Errors]
           F == [target : Targets, err : Errors \ {Nil}]
<1>1. results \in Seq(R) /\ failures \in Seq(F)
  BY DEF TypeOK
<1>2. /\ \A r \in R : r.target \in Targets /\ r.ip \in IPs \cup {NoIP}
      /\ \A f \in F : f.target \in Targets
  OBVIOUS
<1> HIDE DEF R, F
<1>3. /\ \A i \in 1 .. Len(results) : results[i] \in R
      /\ \A i \in 1 .. Len(failures) : failures[i] \in F
  BY <1>1, ElementOfSeq
<1> QED
  BY <1>1, <1>2, <1>3

LEMMA InitIInv == Init => IInv
<1> SUFFICES ASSUME Init PROVE IInv
  OBVIOUS
<1>1. /\ ctx \in [deadline : Int, err : ContextErrors]
      /\ ctx.deadline >= 0 /\ ctx.err = Nil
  BY RoundAssumption, NoDeadlineAssumption
     DEF Init, WithTimeout, Background, ContextErrors, Nil
<1>2. TypeOK
  <2>1. Pending \in Outcomes
    BY DEF Pending, Outcomes, Errors, ContextErrors
  <2>2. /\ phase \in [Targets -> Phases] /\ outcome \in [Targets -> Outcomes]
        /\ connDeadline \in [Targets -> Int]
    BY <2>1 DEF Init, Phases
  <2>3. \A S : <<>> \in Seq(S)
    BY EmptySeq
  <2> QED
    BY <1>1, <2>2, <2>3 DEF Init, TypeOK
<1>3. LaunchOrder
  BY Constants DEF Init, LaunchOrder
<1>4. OutcomesOK
  BY DEF Init, OutcomesOK, Pending
<1>5. ResultsOK /\ FailuresOK
  BY DEF Init, ResultsOK, FailuresOK
<1>6. Accounted /\ ClosedOK /\ ReturnOK
  BY DEF Init, Accounted, ClosedOK, ReturnOK, Over
<1>7. KindOK /\ TimeOK
  BY <1>1 DEF Init, KindOK, TimeOK, End
<1> QED
  BY <1>2, <1>3, <1>4, <1>5, <1>6, <1>7 DEF IInv

\* A step of one goroutine that neither sends nor is launched.
Moves(t, to) ==
  /\ phase' = [phase EXCEPT ![t] = to]
  /\ UNCHANGED <<now, ctx, over, main, results, closed, winner, failures>>

\* Such a step keeps everything that does not speak of the phases before Over.
LEMMA MoveKeeps ==
  ASSUME IInv, NEW t \in Targets, NEW to \in Phases \ {"idle"}, Moves(t, to),
         phase[t] \in {"new", "dialing", "reading", "asking"} /\ to \notin Over,
         \A u \in Targets : phase[u] \in Over => outcome'[u] = outcome[u]
  PROVE  LaunchOrder' /\ ResultsOK' /\ FailuresOK' /\ Accounted' /\ ClosedOK'
         /\ ReturnOK'
<1>1. /\ phase \in [Targets -> Phases]
      /\ results \in Seq([target : Targets, ip : IPs \cup {NoIP}, err : Errors])
      /\ failures \in Seq([target : Targets, err : Errors \ {Nil}])
  BY DEF IInv, TypeOK
<1>2. \A u \in Targets : phase'[u] = IF u = t THEN to ELSE phase[u]
  BY <1>1 DEF Moves
<1>3. \A u \in Targets : phase'[u] \in Over <=> phase[u] \in Over
  BY <1>2 DEF Over
<1>4. LaunchOrder'
  <2>1. \A u \in Targets : phase'[u] = "idle" <=> phase[u] = "idle"
    BY <1>2
  <2>2. main' = main
    BY DEF Moves
  <2> QED
    BY <2>1, <2>2, Constants DEF IInv, LaunchOrder
<1>5. ResultsOK'
  BY <1>3, Entries DEF IInv, ResultsOK, Moves
<1>6. FailuresOK'
  BY <1>3, Entries DEF IInv, FailuresOK, Moves
<1>7. Accounted'
  BY <1>1, <1>3 DEF IInv, Accounted, Moves
<1>8. ClosedOK'
  BY <1>1 DEF IInv, ClosedOK, Moves
<1>9. ReturnOK'
  BY DEF IInv, ReturnOK, Moves
<1> QED
  BY <1>4, <1>5, <1>6, <1>7, <1>8, <1>9

LEMMA ReturnIInv ==
  ASSUME IInv, NEW t \in Targets,
         phase[t] \in {"new", "dialing", "reading", "asking"},
         NEW o \in Outcomes,
         o.ip # NoIP => ~ FamilyMismatch(o.ip, Family),
         Return(t, o)
  PROVE  IInv'
<1>1. /\ phase \in [Targets -> Phases] /\ outcome \in [Targets -> Outcomes]
  BY DEF IInv, TypeOK
<1>2. /\ Moves(t, "returned") /\ connDeadline' = connDeadline
      /\ outcome' = [outcome EXCEPT ![t] = o]
  BY DEF Return, Goto, env, Moves
<1>3. LaunchOrder' /\ ResultsOK' /\ FailuresOK' /\ Accounted' /\ ClosedOK'
      /\ ReturnOK'
  BY <1>1, <1>2, MoveKeeps DEF Over, Phases
<1>4. TypeOK'
  BY <1>1, <1>2 DEF IInv, TypeOK, Moves, Phases
<1>5. OutcomesOK'
  BY <1>1, <1>2 DEF IInv, OutcomesOK, Moves, HasOutcome
<1>6. KindOK' /\ TimeOK'
  BY <1>1, <1>2 DEF IInv, KindOK, TimeOK, End, Moves
<1> QED
  BY <1>3, <1>4, <1>5, <1>6 DEF IInv

LEMMA StartIInv ==
  ASSUME IInv, NEW t \in Targets, Dial(t) \/ Ask(t)
  PROVE  IInv'
<1>1. PICK to \in {"dialing", "asking"} :
        /\ Moves(t, to) /\ UNCHANGED <<connDeadline, outcome>>
        /\ to = "dialing" => Kind = "stun"
        /\ to = "asking" => Kind = "query"
  BY DEF Dial, Ask, Goto, env, Moves
<1>2. phase[t] = "new" /\ phase \in [Targets -> Phases]
  BY DEF Dial, Ask, IInv, TypeOK
<1>3. LaunchOrder' /\ ResultsOK' /\ FailuresOK' /\ Accounted' /\ ClosedOK'
      /\ ReturnOK'
  BY <1>1, <1>2, MoveKeeps DEF Over, Phases
<1>4. TypeOK'
  BY <1>1, <1>2 DEF IInv, TypeOK, Moves, Phases
<1>5. OutcomesOK'
  BY <1>1, <1>2 DEF IInv, OutcomesOK, Moves, HasOutcome
<1>6. KindOK' /\ TimeOK'
  BY <1>1, <1>2 DEF IInv, KindOK, TimeOK, End, Moves
<1> QED
  BY <1>3, <1>4, <1>5, <1>6 DEF IInv

LEMMA ConnectedIInv ==
  ASSUME IInv, NEW t \in Targets, Connected(t)
  PROVE  IInv'
<1>1. /\ Moves(t, "reading") /\ outcome' = outcome
      /\ connDeadline' = [connDeadline EXCEPT ![t] = now + Budget]
  BY DEF Connected, Goto, env, Moves
<1>2. /\ phase[t] = "dialing" /\ phase \in [Targets -> Phases]
      /\ connDeadline \in [Targets -> Int]
      /\ now \in Nat /\ ctx.deadline \in Int /\ Budget \in Nat
  BY Constants DEF Connected, IInv, TypeOK
<1>3. LaunchOrder' /\ ResultsOK' /\ FailuresOK' /\ Accounted' /\ ClosedOK'
      /\ ReturnOK'
  BY <1>1, <1>2, MoveKeeps DEF Over, Phases
<1>4. TypeOK'
  BY <1>1, <1>2 DEF IInv, TypeOK, Moves, Phases
<1>5. OutcomesOK'
  BY <1>1, <1>2 DEF IInv, OutcomesOK, Moves, HasOutcome
<1>6. KindOK'
  BY <1>1, <1>2 DEF IInv, KindOK, Moves
<1>7. TimeOK'
  <2>1. now <= End
    BY <1>2 DEF IInv, TimeOK
  <2>2. End \in Int /\ End' = End
    BY <1>1, <1>2 DEF End, Moves, IInv, TypeOK
  <2>3. \A u \in Targets : phase'[u] = IF u = t THEN "reading" ELSE phase[u]
    BY <1>1, <1>2 DEF Moves
  <2>4. \A u \in Targets :
          connDeadline'[u] = IF u = t THEN now + Budget ELSE connDeadline[u]
    BY <1>1, <1>2
  <2>5. now' = now
    BY <1>1 DEF Moves
  <2> HIDE DEF End
  <2> QED
    BY <1>2, <2>1, <2>2, <2>3, <2>4, <2>5 DEF IInv, TimeOK
<1> QED
  BY <1>3, <1>4, <1>5, <1>6, <1>7 DEF IInv

LEMMA SendIInv ==
  ASSUME IInv, NEW t \in Targets, Send(t)
  PROVE  IInv'
<1> DEFINE e == [target |-> t, ip |-> outcome[t].ip, err |-> outcome[t].err]
           n == Len(results) + 1
<1>1. /\ phase[t] = "returned" /\ results' = Append(results, e)
      /\ phase' = [phase EXCEPT ![t] = "sent"]
      /\ UNCHANGED <<now, ctx, over, main, connDeadline, outcome, closed, winner,
                     failures>>
  BY DEF Send, Goto
<1>2. /\ phase \in [Targets -> Phases] /\ outcome \in [Targets -> Outcomes]
      /\ results \in Seq([target : Targets, ip : IPs \cup {NoIP}, err : Errors])
  BY DEF IInv, TypeOK
<1>3. e \in [target : Targets, ip : IPs \cup {NoIP}, err : Errors]
  BY <1>2 DEF Outcomes
<1>4. /\ Len(results) \in Nat /\ Len(results') = n
      /\ results'[n] = e
      /\ \A i \in 1 .. Len(results) : results'[i] = results[i]
  BY <1>1, <1>2, <1>3, AppendProperties
<1>5. \A u \in Targets : phase'[u] = IF u = t THEN "sent" ELSE phase[u]
  BY <1>1, <1>2
<1>6. /\ \A i \in 1 .. Len(results) :
           results[i].target \in Targets /\ results[i].target # t
      /\ \A i \in 1 .. Len(failures) :
           failures[i].target \in Targets /\ failures[i].target # t
  BY <1>1, Entries DEF IInv, ResultsOK, FailuresOK, Over
<1>7. e.target = t /\ e.ip = outcome[t].ip
  OBVIOUS
<1>8. TypeOK'
  <2>1. /\ results' \in Seq([target : Targets, ip : IPs \cup {NoIP}, err : Errors])
        /\ phase' \in [Targets -> Phases]
    BY <1>1, <1>2, <1>3, AppendProperties DEF Phases
  <2> QED
    BY <1>1, <2>1 DEF IInv, TypeOK
<1> HIDE DEF e
<1>9. LaunchOrder'
  BY <1>1, <1>5, Constants DEF IInv, LaunchOrder
<1>10. OutcomesOK'
  BY <1>1, <1>5 DEF IInv, OutcomesOK, HasOutcome
<1>11. ResultsOK'
  <2>1. \A i \in 1 .. n : i = n \/ i \in 1 .. Len(results)
    BY <1>4
  <2>2. \A i \in 1 .. n :
          phase'[results'[i].target] \in Over
          /\ results'[i].ip = outcome'[results'[i].target].ip
    BY <1>1, <1>4, <1>5, <1>6, <1>7, <2>1 DEF IInv, ResultsOK, Over
  <2>3. \A i, j \in 1 .. n : results'[i].target = results'[j].target => i = j
    BY <1>4, <1>6, <1>7, <2>1 DEF IInv, ResultsOK
  <2> QED
    BY <1>4, <2>2, <2>3 DEF ResultsOK
<1>12. FailuresOK'
  <2>1. \A i \in 1 .. n : i = n \/ i \in 1 .. Len(results)
    BY <1>4
  <2>2. \A i \in 1 .. Len(failures) : phase'[failures[i].target] \in Over
    BY <1>5, <1>6 DEF IInv, FailuresOK, Over
  <2>3. \A i \in 1 .. Len(failures), j \in 1 .. n :
          failures[i].target # results'[j].target
    BY <1>4, <1>6, <1>7, <2>1 DEF IInv, FailuresOK
  <2> QED
    BY <1>1, <1>4, <2>2, <2>3 DEF IInv, FailuresOK
<1>13. Accounted'
  <2> SUFFICES ASSUME winner = NoIP, NEW u \in Targets, phase'[u] \in Over
               PROVE  \/ \E i \in 1 .. n : results'[i].target = u
                      \/ \E i \in 1 .. Len(failures) : failures[i].target = u
    BY <1>1, <1>4 DEF Accounted
  <2>1. CASE u = t
    BY <1>4, <1>7, <2>1
  <2>2. CASE u # t
    <3>1. \/ \E i \in 1 .. Len(results) : results[i].target = u
          \/ \E i \in 1 .. Len(failures) : failures[i].target = u
      BY <1>5, <2>2 DEF IInv, Accounted
    <3> QED
      BY <1>4, <3>1
  <2> QED
    BY <2>1, <2>2
<1>14. ClosedOK' /\ ReturnOK'
  BY <1>1 DEF IInv, ClosedOK, ReturnOK
<1>15. KindOK' /\ TimeOK'
  BY <1>1, <1>5 DEF IInv, KindOK, TimeOK, End
<1> QED
  BY <1>8, <1>9, <1>10, <1>11, <1>12, <1>13, <1>14, <1>15 DEF IInv

LEMMA DoneIInv ==
  ASSUME IInv, NEW t \in Targets, Done(t)
  PROVE  IInv'
<1>1. /\ phase[t] = "sent" /\ phase' = [phase EXCEPT ![t] = "done"]
      /\ UNCHANGED <<now, ctx, over, main, connDeadline, outcome, results, closed,
                     winner, failures>>
  BY DEF Done, Goto, env
<1>2. phase \in [Targets -> Phases]
  BY DEF IInv, TypeOK
<1>3. \A u \in Targets : phase'[u] = IF u = t THEN "done" ELSE phase[u]
  BY <1>1, <1>2
<1>4. \A u \in Targets : phase'[u] \in Over <=> phase[u] \in Over
  BY <1>1, <1>3 DEF Over
<1>5. TypeOK'
  BY <1>1, <1>2 DEF IInv, TypeOK, Phases
<1>6. LaunchOrder'
  BY <1>1, <1>3, Constants DEF IInv, LaunchOrder
<1>7. OutcomesOK'
  BY <1>1, <1>3 DEF IInv, OutcomesOK, HasOutcome
<1>8. ResultsOK'
  BY <1>1, <1>4, Entries DEF IInv, ResultsOK
<1>9. FailuresOK'
  BY <1>1, <1>4, Entries DEF IInv, FailuresOK
<1>10. Accounted' /\ ReturnOK'
  BY <1>1, <1>4 DEF IInv, Accounted, ReturnOK
<1>11. ClosedOK'
  BY <1>1, <1>3 DEF IInv, ClosedOK
<1>12. KindOK' /\ TimeOK'
  BY <1>1, <1>3 DEF IInv, KindOK, TimeOK, End
<1> QED
  BY <1>5, <1>6, <1>7, <1>8, <1>9, <1>10, <1>11, <1>12 DEF IInv

LEMMA LaunchIInv ==
  ASSUME IInv, NEW t \in Targets, Launch(t)
  PROVE  IInv'
<1>1. /\ phase[t] = "idle" /\ phase' = [phase EXCEPT ![t] = "new"]
      /\ main = "launch" /\ main' = IF t = N THEN "collect" ELSE main
      /\ \A u \in Targets : u < t => phase[u] # "idle"
      /\ UNCHANGED <<now, ctx, over, connDeadline, outcome, results, closed, winner,
                     failures>>
  BY DEF Launch, Goto
<1>2. phase \in [Targets -> Phases]
  BY DEF IInv, TypeOK
<1>3. \A u \in Targets : phase'[u] = IF u = t THEN "new" ELSE phase[u]
  BY <1>1, <1>2
<1>4. \A u \in Targets : phase'[u] \in Over <=> phase[u] \in Over
  BY <1>1, <1>3 DEF Over
<1>5. TypeOK'
  BY <1>1, <1>2 DEF IInv, TypeOK, Phases
<1>6. LaunchOrder'
  BY <1>1, <1>3, Constants DEF IInv, LaunchOrder
<1>7. OutcomesOK'
  BY <1>1, <1>3 DEF IInv, OutcomesOK, HasOutcome
<1>8. ResultsOK'
  BY <1>1, <1>4, Entries DEF IInv, ResultsOK
<1>9. FailuresOK'
  BY <1>1, <1>4, Entries DEF IInv, FailuresOK
<1>10. Accounted'
  BY <1>1, <1>4 DEF IInv, Accounted
<1>11. ClosedOK' /\ ReturnOK'
  BY <1>1 DEF IInv, ClosedOK, ReturnOK
<1>12. KindOK' /\ TimeOK'
  BY <1>1, <1>3 DEF IInv, KindOK, TimeOK, End
<1> QED
  BY <1>5, <1>6, <1>7, <1>8, <1>9, <1>10, <1>11, <1>12 DEF IInv

\* Taking the head of the channel shifts the rest by one.
LEMMA Dequeue ==
  ASSUME TypeOK, results # <<>>, results' = Tail(results)
  PROVE  /\ Len(results) \in Nat \ {0} /\ Len(results') = Len(results) - 1
         /\ Head(results) = results[1]
         /\ \A i \in 1 .. Len(results') :
              i + 1 \in 1 .. Len(results) /\ results'[i] = results[i + 1]
         /\ results' \in Seq([target : Targets, ip : IPs \cup {NoIP},
                              err : Errors])
         /\ results[1] \in [target : Targets, ip : IPs \cup {NoIP}, err : Errors]
<1> DEFINE R == [target : Targets, ip : IPs \cup {NoIP}, err : Errors]
<1>1. results \in Seq(R)
  BY DEF TypeOK
<1> HIDE DEF R
<1>2. /\ Tail(results) \in Seq(R) /\ Head(results) \in R
      /\ Len(results) \in Nat \ {0}
  BY <1>1, HeadTailProperties, EmptySeq
<1>3. /\ Len(Tail(results)) = Len(results) - 1
      /\ Head(results) = results[1]
      /\ \A i \in 1 .. Len(results) - 1 : Tail(results)[i] = results[i + 1]
  BY <1>1, <1>2
<1> QED
  BY <1>2, <1>3 DEF R

\* What is left in the channel is as good as before.
LEMMA DequeueKeeps ==
  ASSUME IInv, results # <<>>, results' = Tail(results),
         UNCHANGED <<phase, outcome>>
  PROVE  ResultsOK'
<1>1. TypeOK
  BY DEF IInv
<1>2. /\ \A i \in 1 .. Len(results') :
           /\ phase[results'[i].target] \in Over
           /\ results'[i].ip = outcome[results'[i].target].ip
      /\ \A i, j \in 1 .. Len(results') :
           results'[i].target = results'[j].target => i + 1 = j + 1
  BY <1>1, Dequeue DEF IInv, ResultsOK
<1>3. \A i, j \in 1 .. Len(results') : i + 1 = j + 1 => i = j
  BY <1>1, Dequeue
<1> QED
  BY <1>2, <1>3 DEF ResultsOK

\* The end of the context is noted once.
LEMMA EndContextKeeps ==
  ASSUME IInv, UNCHANGED <<attempts, now>>,
         NEW e \in {Canceled, DeadlineExceeded}, EndContext(e)
  PROVE  /\ ctx' \in [deadline : Int, err : ContextErrors]
         /\ over' \in Nat
         /\ TimeOK'
<1>1. /\ ctx \in [deadline : Int, err : ContextErrors]
      /\ over \in Nat /\ now \in Nat /\ connDeadline \in [Targets -> Int]
      /\ Budget \in Nat
  BY Constants DEF IInv, TypeOK
<1>2. /\ ctx' \in [deadline : Int, err : ContextErrors]
      /\ ctx'.err # Nil
      /\ ctx.err # Nil => over' = over
      /\ ctx.err = Nil => over' = now
  BY <1>1 DEF EndContext, Ended, ContextErrors, Nil, Canceled, DeadlineExceeded
<1>3. over' \in Nat
  BY <1>1, <1>2
<1>4. TimeOK'
  BY <1>1, <1>2 DEF IInv, TimeOK, End, attempts
<1> QED
  BY <1>2, <1>3, <1>4

\* Steps that leave the goroutines and the clock alone.
LEMMA CollectorKeeps ==
  ASSUME IInv, UNCHANGED <<attempts, now, closed>>,
         main # "launch", main' # "launch",
         UNCHANGED <<ctx, over>> \/ EndContext(Canceled)
  PROVE  LaunchOrder' /\ OutcomesOK' /\ ClosedOK' /\ KindOK' /\ TimeOK'
<1>1. LaunchOrder' /\ OutcomesOK' /\ ClosedOK' /\ KindOK'
  BY DEF IInv, LaunchOrder, OutcomesOK, ClosedOK, KindOK, attempts
<1>2. TimeOK'
  BY EndContextKeeps DEF IInv, TimeOK, End, attempts
<1> QED
  BY <1>1, <1>2

LEMMA ReceiveAddressIInv ==
  ASSUME IInv, ReceiveAddress
  PROVE  IInv'
<1> DEFINE r == results[1]
<1>1. TypeOK /\ ctx \in [deadline : Int, err : ContextErrors]
  BY DEF IInv, TypeOK
<1>2. /\ main = "collect" /\ results # <<>> /\ r.ip # NoIP
      /\ winner' = r.ip /\ results' = Tail(results) /\ main' = "returned"
      /\ EndContext(Canceled)
      /\ UNCHANGED <<attempts, now, closed, failures>>
  BY <1>1, Dequeue DEF ReceiveAddress
<1>3. ctx' \in [deadline : Int, err : ContextErrors] /\ over' \in Nat
  BY <1>2, EndContextKeeps
<1>4. LaunchOrder' /\ OutcomesOK' /\ ClosedOK' /\ KindOK' /\ TimeOK'
  BY <1>2, CollectorKeeps
<1>5. r.ip \in IPs /\ 1 \in 1 .. Len(results) /\ r.target \in Targets
  BY <1>1, <1>2, Dequeue
<1>6. TypeOK'
  BY <1>1, <1>2, <1>3, <1>5, Dequeue DEF TypeOK, attempts
<1>7. ResultsOK'
  BY <1>2, DequeueKeeps DEF attempts
<1>8. FailuresOK'
  BY <1>1, <1>2, Dequeue DEF IInv, FailuresOK, attempts
<1>9. Accounted'
  BY <1>2 DEF Accounted
<1>10. ReturnOK'
  <2>1. r.ip = outcome[r.target].ip
    BY <1>5 DEF IInv, ResultsOK
  <2>2. ~ FamilyMismatch(r.ip, Family)
    BY <1>2, <1>5, <2>1 DEF IInv, OutcomesOK
  <2> QED
    BY <1>2, <2>2 DEF ReturnOK
<1> QED
  BY <1>4, <1>6, <1>7, <1>8, <1>9, <1>10 DEF IInv

LEMMA ReceiveFailureIInv ==
  ASSUME IInv, ReceiveFailure
  PROVE  IInv'
<1> DEFINE r == results[1]
           f == [target |-> r.target, err |-> ReportedError(r.err)]
           n == Len(failures) + 1
<1>1. TypeOK /\ ctx \in [deadline : Int, err : ContextErrors]
  BY DEF IInv, TypeOK
<1>2. /\ main = "collect" /\ results # <<>> /\ r.ip = NoIP
      /\ failures' = Append(failures, f) /\ results' = Tail(results)
      /\ UNCHANGED <<attempts, now, ctx, over, main, closed, winner>>
  BY <1>1, Dequeue DEF ReceiveFailure
<1>3. LaunchOrder' /\ OutcomesOK' /\ ClosedOK' /\ KindOK' /\ TimeOK'
  BY <1>2, CollectorKeeps
<1>4. /\ 1 \in 1 .. Len(results) /\ r.target \in Targets
      /\ f \in [target : Targets, err : Errors \ {Nil}]
  <2>1. /\ 1 \in 1 .. Len(results)
        /\ r \in [target : Targets, ip : IPs \cup {NoIP}, err : Errors]
    BY <1>1, <1>2, Dequeue
  <2>2. r.target \in Targets /\ r.err \in Errors
    BY <2>1
  <2>3. ReportedError(r.err) \in Errors \ {Nil}
    BY <2>2 DEF ReportedError, Errors, Nil, NotFound
  <2> QED
    BY <2>1, <2>2, <2>3
<1>5. f.target = r.target
  OBVIOUS
<1> HIDE DEF f
<1>6. /\ failures' \in Seq([target : Targets, err : Errors \ {Nil}])
      /\ Len(failures) \in Nat /\ Len(failures') = n
      /\ failures'[n] = f
      /\ \A i \in 1 .. Len(failures) : failures'[i] = failures[i]
      /\ \A i \in 1 .. n : i = n \/ i \in 1 .. Len(failures)
  BY <1>1, <1>2, <1>4, AppendProperties DEF TypeOK
<1>7. TypeOK'
  BY <1>1, <1>2, <1>6, Dequeue DEF TypeOK, attempts
<1>8. ResultsOK'
  BY <1>2, DequeueKeeps DEF attempts
<1>9. /\ phase[r.target] \in Over /\ outcome[r.target].ip = NoIP
      /\ \A i \in 1 .. Len(failures) : failures[i].target # r.target
      /\ \A j \in 2 .. Len(results) : results[j].target # r.target
  <2>1. /\ phase[r.target] \in Over /\ outcome[r.target].ip = NoIP
        /\ \A i \in 1 .. Len(failures) : failures[i].target # r.target
    BY <1>2, <1>4 DEF IInv, ResultsOK, FailuresOK
  <2>2. ASSUME NEW j \in 2 .. Len(results), results[j].target = r.target
        PROVE  FALSE
    <3>1. j \in 1 .. Len(results) /\ j # 1
      BY <1>1, <1>2, Dequeue
    <3> QED
      BY <1>4, <2>2, <3>1 DEF IInv, ResultsOK
  <2> QED
    BY <2>1, <2>2
<1>10. FailuresOK'
  <2>1. \A i \in 1 .. n :
          /\ phase'[failures'[i].target] \in Over
          /\ outcome'[failures'[i].target].ip = NoIP
    <3>1. \A i \in 1 .. Len(failures) :
            /\ phase[failures[i].target] \in Over
            /\ outcome[failures[i].target].ip = NoIP
      BY DEF IInv, FailuresOK
    <3>2. phase' = phase /\ outcome' = outcome
      BY <1>2 DEF attempts
    <3>3. ASSUME NEW i \in 1 .. n
          PROVE  /\ phase[failures'[i].target] \in Over
                 /\ outcome[failures'[i].target].ip = NoIP
      <4>1. CASE i = n
        BY <1>5, <1>6, <1>9, <4>1
      <4>2. CASE i \in 1 .. Len(failures)
        BY <1>6, <3>1, <4>2
      <4> QED
        BY <1>6, <4>1, <4>2
    <3> QED
      BY <3>2, <3>3
  <2>2. \A i, j \in 1 .. n : failures'[i].target = failures'[j].target => i = j
    <3>1. \A i, j \in 1 .. Len(failures) :
            failures[i].target = failures[j].target => i = j
      BY DEF IInv, FailuresOK
    <3>2. \A i \in 1 .. Len(failures) : failures'[i].target # failures'[n].target
      BY <1>5, <1>6, <1>9
    <3>3. \A i, j \in 1 .. Len(failures) :
            failures'[i].target = failures'[j].target => i = j
      BY <1>6, <3>1
    <3> QED
      BY <1>6, <3>2, <3>3
  <2>3. ASSUME NEW i \in 1 .. n, NEW j \in 1 .. Len(results')
        PROVE  failures'[i].target # results'[j].target
    <3>1. j + 1 \in 2 .. Len(results) /\ results'[j] = results[j + 1]
      BY <1>1, <1>2, Dequeue
    <3>2. j + 1 \in 1 .. Len(results)
      BY <3>1
    <3>3. CASE i = n
      BY <1>5, <1>6, <1>9, <3>1, <3>3
    <3>4. CASE i \in 1 .. Len(failures)
      <4>1. failures[i].target # results[j + 1].target
        BY <3>2, <3>4 DEF IInv, FailuresOK
      <4> QED
        BY <1>6, <3>1, <3>4, <4>1
    <3> QED
      BY <1>6, <3>3, <3>4
  <2> QED
    BY <1>6, <2>1, <2>2, <2>3 DEF FailuresOK
<1>11. Accounted'
  <2> SUFFICES ASSUME winner = NoIP, NEW u \in Targets, phase[u] \in Over
               PROVE  \/ \E i \in 1 .. Len(results') : results'[i].target = u
                      \/ \E i \in 1 .. n : failures'[i].target = u
    BY <1>2, <1>6 DEF Accounted, attempts
  <2>1. \/ \E i \in 1 .. Len(results) : results[i].target = u
        \/ \E i \in 1 .. Len(failures) : failures[i].target = u
    BY DEF IInv, Accounted
  <2>2. CASE r.target = u
    BY <1>5, <1>6, <2>2
  <2>3. ASSUME NEW i \in 1 .. Len(results), results[i].target = u, i # 1
        PROVE  \E j \in 1 .. Len(results') : results'[j].target = u
    <3>1. i - 1 \in 1 .. Len(results') /\ (i - 1) + 1 = i
      BY <1>1, <1>2, <2>3, Dequeue
    <3>2. results'[i - 1] = results[i]
      BY <1>1, <1>2, <3>1, Dequeue
    <3> QED
      BY <2>3, <3>1, <3>2
  <2>4. CASE \E i \in 1 .. Len(failures) : failures[i].target = u
    BY <1>6, <2>4
  <2> QED
    BY <2>1, <2>2, <2>3, <2>4
<1>12. ReturnOK'
  BY <1>2 DEF IInv, ReturnOK
<1> QED
  BY <1>3, <1>7, <1>8, <1>10, <1>11, <1>12 DEF IInv

LEMMA ReceiveClosedIInv ==
  ASSUME IInv, ReceiveClosed
  PROVE  IInv'
<1>1. /\ ctx \in [deadline : Int, err : ContextErrors] /\ TypeOK
      /\ main = "collect" /\ results = <<>> /\ closed /\ main' = "returned"
      /\ EndContext(Canceled)
      /\ UNCHANGED <<attempts, now, results, closed, winner, failures>>
  BY DEF ReceiveClosed, IInv, TypeOK
<1>2. ctx' \in [deadline : Int, err : ContextErrors] /\ over' \in Nat
  BY <1>1, EndContextKeeps
<1>3. LaunchOrder' /\ OutcomesOK' /\ ClosedOK' /\ KindOK' /\ TimeOK'
  BY <1>1, CollectorKeeps
<1>4. TypeOK'
  BY <1>1, <1>2 DEF TypeOK, attempts
<1>5. ResultsOK' /\ FailuresOK' /\ Accounted'
  BY <1>1 DEF IInv, ResultsOK, FailuresOK, Accounted, attempts
<1>6. ReturnOK'
  BY <1>1 DEF IInv, ReturnOK
<1> QED
  BY <1>3, <1>4, <1>5, <1>6 DEF IInv

LEMMA CloseIInv ==
  ASSUME IInv, Close
  PROVE  IInv'
<1>1. /\ main # "launch" /\ \A t \in Targets : phase[t] = "done"
      /\ closed' = TRUE
      /\ UNCHANGED <<attempts, now, ctx, over, main, results, winner, failures>>
  BY DEF Close
<1>2. TypeOK' /\ LaunchOrder' /\ OutcomesOK' /\ KindOK' /\ TimeOK'
  BY <1>1 DEF IInv, TypeOK, LaunchOrder, OutcomesOK, KindOK, TimeOK, End, attempts
<1>3. ResultsOK' /\ FailuresOK' /\ Accounted'
  BY <1>1 DEF IInv, ResultsOK, FailuresOK, Accounted, attempts
<1>4. ClosedOK' /\ ReturnOK'
  BY <1>1 DEF IInv, ClosedOK, ReturnOK, attempts
<1> QED
  BY <1>2, <1>3, <1>4 DEF IInv

LEMMA ContextIInv ==
  ASSUME IInv, CallerCancels \/ DeadlineFires
  PROVE  IInv'
<1>1. PICK e \in {Canceled, DeadlineExceeded} :
        /\ EndContext(e)
        /\ UNCHANGED <<attempts, now, main, results, closed, winner, failures>>
  BY DEF CallerCancels, DeadlineFires
<1>2. UNCHANGED <<attempts, now>>
  BY <1>1
<1>3. ctx' \in [deadline : Int, err : ContextErrors] /\ over' \in Nat /\ TimeOK'
  BY <1>1, <1>2, EndContextKeeps
<1>4. TypeOK' /\ LaunchOrder' /\ OutcomesOK' /\ KindOK'
  BY <1>1, <1>3 DEF IInv, TypeOK, LaunchOrder, OutcomesOK, KindOK, attempts
<1>5. ResultsOK' /\ FailuresOK' /\ Accounted'
  BY <1>1 DEF IInv, ResultsOK, FailuresOK, Accounted, attempts
<1>6. ClosedOK' /\ ReturnOK' /\ TimeOK'
  BY <1>1, <1>3 DEF IInv, ClosedOK, ReturnOK, attempts
<1> QED
  BY <1>4, <1>5, <1>6 DEF IInv

LEMMA TickIInv ==
  ASSUME IInv, Tick
  PROVE  IInv'
<1>1. /\ \A t \in Targets : Waiting(t)
      /\ ~ Due(ctx, now) /\ now' = now + 1
      /\ UNCHANGED <<attempts, ctx, over, main, results, closed, winner, failures>>
  BY DEF Tick
<1>2. now \in Nat /\ ctx \in [deadline : Int, err : ContextErrors]
      /\ connDeadline \in [Targets -> Int]
  BY DEF IInv, TypeOK
<1>3. TypeOK' /\ LaunchOrder' /\ OutcomesOK' /\ KindOK'
  BY <1>1, <1>2 DEF IInv, TypeOK, LaunchOrder, OutcomesOK, KindOK, attempts
<1>4. ResultsOK' /\ FailuresOK' /\ Accounted'
  BY <1>1 DEF IInv, ResultsOK, FailuresOK, Accounted, attempts
<1>5. ClosedOK' /\ ReturnOK'
  BY <1>1 DEF IInv, ClosedOK, ReturnOK, attempts
<1>6. TimeOK'
  <2> SUFFICES ASSUME NEW t \in Targets
               PROVE  /\ phase[t] \in {"idle", "new", "dialing", "asking"} =>
                           now + 1 <= End
                      /\ phase[t] = "reading" =>
                           /\ now + 1 <= connDeadline[t]
                           /\ connDeadline[t] <= now + 1 + Budget
                           /\ connDeadline[t] <= End + Budget
    BY <1>1 DEF TimeOK, End, attempts
  <2>1. Waiting(t)
    BY <1>1
  <2>2. CASE phase[t] = "reading"
    BY <1>2, <2>1, <2>2, Constants DEF Waiting, IInv, TimeOK
  <2>3. CASE phase[t] \in {"dialing", "asking"}
    <3>1. ctx.err = Nil
      BY <2>1, <2>3 DEF Waiting, ObeysContext
    <3>2. ctx.deadline # NoDeadline
      BY <1>2, NoDeadlineAssumption
    <3> QED
      BY <1>1, <1>2, <2>3, <3>1, <3>2 DEF Due, End
  <2>4. CASE phase[t] = "done"
    BY <2>4
  <2> QED
    BY <2>1, <2>2, <2>3, <2>4 DEF Waiting, InFlight
<1> QED
  BY <1>3, <1>4, <1>5, <1>6 DEF IInv

LEMMA AttemptIInv ==
  ASSUME IInv, NEW t \in Targets, Proceeds(t) \/ Network(t)
  PROVE  IInv'
<1>1. \A err \in Errors \ {Nil} : [ip |-> NoIP, err |-> err] \in Outcomes
  BY DEF Outcomes
<1>2. CASE Dial(t) \/ Ask(t)
  BY <1>2, StartIInv
<1>3. CASE ReadTimeout(t)
  BY <1>1, <1>3, ReturnIInv DEF ReadTimeout, Fail, Errors, Failed, Nil
<1>4. CASE Abandon(t)
  <2>1. ctx.err \in Errors \ {Nil}
    BY <1>4 DEF Abandon, IInv, TypeOK, Errors
  <2> QED
    BY <1>1, <1>4, <2>1, ReturnIInv DEF Abandon, ObeysContext, Fail
<1>5. CASE Send(t)
  BY <1>5, SendIInv
<1>6. CASE Done(t)
  BY <1>6, DoneIInv
<1>7. CASE Connected(t)
  BY <1>7, ConnectedIInv
<1>8. CASE Datagram(t) \/ Answered(t)
  BY <1>8, CheckedFacts, ReturnIInv DEF Datagram, Answered
<1>9. CASE AttemptFails(t)
  BY <1>1, <1>9, ReturnIInv DEF AttemptFails, Fail, Errors, Failed, Nil
<1> QED
  BY <1>2, <1>3, <1>4, <1>5, <1>6, <1>7, <1>8, <1>9 DEF Proceeds, Network

LEMMA StutterIInv ==
  ASSUME IInv, UNCHANGED vars
  PROVE  IInv'
<1>1. TypeOK' /\ LaunchOrder' /\ OutcomesOK' /\ KindOK' /\ TimeOK'
  BY DEF vars, IInv, TypeOK, LaunchOrder, OutcomesOK, KindOK, TimeOK, End
<1>2. ResultsOK' /\ FailuresOK' /\ Accounted'
  BY DEF vars, IInv, ResultsOK, FailuresOK, Accounted
<1>3. ClosedOK' /\ ReturnOK'
  BY DEF vars, IInv, ClosedOK, ReturnOK
<1> QED
  BY <1>1, <1>2, <1>3 DEF IInv

LEMMA IInvStep == IInv /\ [Next]_vars => IInv'
<1> SUFFICES ASSUME IInv, [Next]_vars PROVE IInv'
  OBVIOUS
<1>1. ASSUME NEW t \in Targets, Launch(t) \/ Proceeds(t) \/ Network(t)
      PROVE  IInv'
  BY <1>1, LaunchIInv, AttemptIInv
<1>2. CASE Close
  BY <1>2, CloseIInv
<1>3. CASE Collect
  BY <1>3, ReceiveAddressIInv, ReceiveFailureIInv, ReceiveClosedIInv DEF Collect
<1>4. CASE CallerCancels \/ DeadlineFires
  BY <1>4, ContextIInv
<1>5. CASE Tick
  BY <1>5, TickIInv
<1>6. CASE UNCHANGED vars
  BY <1>6, StutterIInv
<1> QED
  BY <1>1, <1>2, <1>3, <1>4, <1>5, <1>6 DEF Next, Terminated

THEOREM Invariance == Spec => []IInv
BY InitIInv, IInvStep, PTL DEF Spec

-----------------------------------------------------------------------------
(* The theorems.                                                           *)

\* Every reachable state of a round is well typed.
THEOREM TypeCorrect == Spec => []TypeOK
BY Invariance, PTL DEF IInv

\* No attempt of a round ever sends on the channel once it is closed.
THEOREM NoPanic == Spec => []NoSendOnClosed
<1>1. IInv => NoSendOnClosed
  BY DEF IInv, ClosedOK, NoSendOnClosed
<1> QED
  BY <1>1, Invariance, PTL

\* For any number of targets, an attempt that returned finds room in results.
THEOREM NoSenderBlocks == Spec => []SendsNeverBlock
<1>1. ASSUME IInv, NEW t \in Targets, phase[t] = "returned"
      PROVE  Len(results) < N
  <2> DEFINE S == 1 .. Len(results)
             T == Targets \ {t}
             f == [i \in S |-> results[i].target]
  <2>1. Len(results) \in Nat /\ N \in Nat
    BY <1>1, Entries, Constants DEF IInv
  <2>2. IsFiniteSet(S) /\ Cardinality(S) = Len(results)
    <3>1. PICK n \in Nat : n = Len(results)
      BY <2>1
    <3>2. IsFiniteSet(1 .. n) /\ Cardinality(1 .. n) = n
      BY FS_Interval
    <3> QED
      BY <3>1, <3>2
  <2>3. IsFiniteSet(Targets) /\ Cardinality(Targets) = N
    BY Constants, FS_Interval DEF Targets
  <2>4. IsFiniteSet(T) /\ Cardinality(T) = N - 1
    BY <2>3, FS_RemoveElement
  <2>5. f \in [S -> T]
    BY <1>1, Entries DEF IInv, ResultsOK, Over
  <2>6. \A i, j \in S : f[i] = f[j] => i = j
    BY <1>1 DEF IInv, ResultsOK
  <2>7. ~ (Cardinality(T) < Cardinality(S))
    <3> HIDE DEF S, T, f
    <3> QED
      BY <2>2, <2>4, <2>5, <2>6, FS_PigeonHole
  <2> QED
    BY <2>1, <2>2, <2>4, <2>7
<1>2. IInv => SendsNeverBlock
  BY <1>1 DEF SendsNeverBlock, Capacity
<1> QED
  BY <1>2, Invariance, PTL

\* A round that found nothing has heard from every target.
LEMMA LostRound ==
  ASSUME IInv, main = "returned", winner = NoIP, NEW t \in Targets
  PROVE  /\ phase[t] = "done"
         /\ \E i \in 1 .. Len(failures) : failures[i].target = t
<1>1. closed /\ results = <<>>
  BY DEF IInv, ReturnOK
<1>2. phase[t] = "done"
  BY <1>1 DEF IInv, ClosedOK
<1>3. \A i \in 1 .. Len(results) : FALSE
  BY <1>1
<1> QED
  BY <1>2, <1>3 DEF IInv, Accounted, Over

\* A round of any size that fails reports every target, and none twice.
THEOREM AllReported == Spec => []EveryLossReported
<1>1. IInv => EveryLossReported
  BY LostRound DEF IInv, FailuresOK, EveryLossReported
<1> QED
  BY <1>1, Invariance, PTL

\* A round fails only when no attempt came back with an address.
THEOREM NoneDiscarded == Spec => []NoAnswerDiscarded
<1>1. ASSUME IInv, main = "returned", winner = NoIP, NEW t \in Targets
      PROVE  phase[t] # "idle" /\ outcome[t].ip = NoIP
  <2>1. /\ phase[t] = "done"
        /\ \E i \in 1 .. Len(failures) : failures[i].target = t
    BY <1>1, LostRound
  <2> QED
    BY <1>1, <2>1 DEF IInv, FailuresOK
<1>2. IInv => NoAnswerDiscarded
  BY <1>1 DEF NoAnswerDiscarded
<1> QED
  BY <1>2, Invariance, PTL

-----------------------------------------------------------------------------
(* A round implements the contract of Race.                                *)

\* Steps that return no verdict, end no context and take no time are stutters.
LEMMA Stutters ==
  ASSUME UNCHANGED <<now, ctx, over, main, winner>>,
         main = "returned" => UNCHANGED failures
  PROVE  UNCHANGED Contract!vars
<1>1. Verdict' = Verdict /\ (Verdict # "lost" \/ Reported' = Reported)
  BY DEF Verdict, Reported
<1> QED
  BY <1>1 DEF Contract!vars

\* A round starts as a race.
LEMMA InitRace == Init => Contract!Init
BY DEF Init, Contract!Init, Verdict, Contract!WithTimeout, Contract!Background,
       WithTimeout, Background, Contract!Nil, Nil, Contract!DeadlineExceeded,
       DeadlineExceeded

LEMMA SameEndContext ==
  ASSUME NEW e, EndContext(e)
  PROVE  Contract!EndContext(e)
BY DEF Contract!EndContext, EndContext, Contract!Ended, Ended, Contract!Nil, Nil

LEMMA ReceiveAddressRace ==
  ASSUME IInv, ReceiveAddress
  PROVE  Contract!Win
<1>1. /\ main = "collect" /\ main' = "returned" /\ EndContext(Canceled)
      /\ now' = now /\ results # <<>> /\ winner' = Head(results).ip
      /\ winner' # NoIP
  BY DEF ReceiveAddress
<1>2. IInv'
  BY ReceiveAddressIInv
<1>3. winner' \in IPs /\ ~ FamilyMismatch(winner', Family)
  BY <1>1, <1>2 DEF IInv, TypeOK, ReturnOK
<1>4. Verdict = "racing" /\ Verdict' = winner'
  BY <1>1 DEF Verdict
<1>5. winner' # "lost"
  BY <1>3 DEF IPs
<1> QED
  BY <1>1, <1>3, <1>4, <1>5, SameEndContext
     DEF Contract!Win, Contract!IPs, IPs, Contract!FamilyMismatch,
         FamilyMismatch, Contract!To4, To4, Contract!Canceled, Canceled

LEMMA ReceiveClosedRace ==
  ASSUME IInv, ReceiveClosed
  PROVE  Contract!Lose
<1>1. /\ main = "collect" /\ main' = "returned" /\ EndContext(Canceled)
      /\ now' = now /\ winner' = winner /\ failures' = failures
  BY DEF ReceiveClosed
<1>2. IInv'
  BY ReceiveClosedIInv
<1>3. winner = NoIP
  BY <1>1 DEF IInv, ReturnOK
<1>4. Verdict = "racing" /\ Verdict' = "lost"
  BY <1>1, <1>3 DEF Verdict
<1>5. \A t \in Targets : \E i \in 1 .. Len(failures') : failures'[i].target = t
  <2>1. main' = "returned" /\ winner' = NoIP
    BY <1>1, <1>3
  <2>2. closed' /\ results' = <<>>
    BY <1>2, <2>1 DEF IInv, ReturnOK
  <2>3. \A t \in Targets : phase'[t] \in Over
    BY <1>2, <2>2 DEF IInv, ClosedOK, Over
  <2>4. \A i \in 1 .. Len(results') : FALSE
    BY <2>2
  <2> QED
    BY <1>2, <2>1, <2>3, <2>4 DEF IInv, Accounted
<1>6. \A i \in 1 .. Len(failures') : failures'[i].target \in Targets
  BY <1>1, Entries DEF IInv
<1>7. Reported' = Targets
  BY <1>5, <1>6 DEF Reported
<1> QED
  BY <1>1, <1>4, <1>7, SameEndContext DEF Contract!Lose, Contract!Canceled, Canceled

LEMMA ContextRace ==
  ASSUME CallerCancels \/ DeadlineFires
  PROVE  Contract!ContextEnds
<1>1. /\ ctx.err = Nil
      /\ UNCHANGED <<now, main, winner, failures>>
      /\ \/ EndContext(Canceled)
         \/ Due(ctx, now) /\ EndContext(DeadlineExceeded)
  BY DEF CallerCancels, DeadlineFires, Due
<1>2. UNCHANGED <<Verdict, Reported>>
  BY <1>1 DEF Verdict, Reported
<1> QED
  BY <1>1, <1>2, SameEndContext
     DEF Contract!ContextEnds, Contract!Due, Due, Contract!Nil, Nil,
         Contract!Canceled, Canceled, Contract!DeadlineExceeded, DeadlineExceeded

LEMMA TickRace ==
  ASSUME IInv, Tick
  PROVE  Contract!Wait
<1>1. /\ now' = now + 1 /\ ~ Due(ctx, now)
      /\ UNCHANGED <<ctx, over, main, winner, failures>>
  BY DEF Tick
<1>2. UNCHANGED <<Verdict, Reported>>
  BY <1>1 DEF Verdict, Reported
<1>3. PICK t \in Targets : InFlight(t) /\ Waiting(t)
  BY DEF Tick
<1>4. /\ now \in Nat /\ ctx \in [deadline : Int, err : ContextErrors] /\ over \in Nat
      /\ connDeadline \in [Targets -> Int] /\ Budget \in Nat
  BY Constants DEF IInv, TypeOK
<1>5. CASE ctx.err = Nil
  <2>1. ctx.deadline # NoDeadline
    BY <1>4, NoDeadlineAssumption
  <2>2. now < ctx.deadline
    BY <1>1, <1>4, <1>5, <2>1 DEF Due
  <2> QED
    BY <1>1, <1>2, <1>5, <2>2 DEF Contract!Wait, Contract!Nil, Nil
<1>6. CASE ctx.err # Nil
  <2>1. phase[t] = "reading"
    BY <1>3, <1>6 DEF InFlight, Waiting, ObeysContext
  <2>2. Kind # "query"
    BY <2>1 DEF IInv, KindOK
  <2>3. now < over + Budget
    BY <1>3, <1>4, <1>6, <2>1 DEF Waiting, IInv, TimeOK, End
  <2> QED
    BY <1>1, <1>2, <1>6, <2>2, <2>3 DEF Contract!Wait, Contract!Nil, Nil
<1> QED
  BY <1>5, <1>6

\* A round of any size, kind and budget is a race: it ends with an address of
\* its family or with every target reported, within the contract's time.
THEOREM RoundImplementsRace == Spec => RaceContract
<1>1. ASSUME IInv, [Next]_vars
      PROVE  [Contract!Next]_Contract!vars
  <2>1. ASSUME NEW t \in Targets, Proceeds(t) \/ Network(t)
        PROVE  UNCHANGED <<now, ctx, over, main, winner, failures>>
    BY <2>1 DEF Proceeds, Network, Dial, Ask, ReadTimeout, Abandon, Send, Done,
                Connected, Datagram, Answered, AttemptFails, Fail, Return, env
  <2>2. CASE \E t \in Targets : Proceeds(t) \/ Network(t)
    BY <2>1, <2>2, Stutters
  <2>3. ASSUME NEW t \in Targets, Launch(t)
        PROVE  UNCHANGED Contract!vars
    <3>1. /\ UNCHANGED <<now, ctx, over, winner, failures>>
          /\ main # "returned" /\ main' # "returned"
      BY <2>3 DEF Launch
    <3>2. Verdict = "racing" /\ Verdict' = "racing"
      BY <3>1 DEF Verdict
    <3> QED
      BY <3>1, <3>2 DEF Contract!vars
  <2>4. CASE Close
    BY <2>4, Stutters DEF Close
  <2>5. CASE ReceiveAddress
    BY <1>1, <2>5, ReceiveAddressRace DEF Contract!Next
  <2>6. CASE ReceiveFailure
    BY <2>6, Stutters DEF ReceiveFailure
  <2>7. CASE ReceiveClosed
    BY <1>1, <2>7, ReceiveClosedRace DEF Contract!Next
  <2>8. CASE CallerCancels \/ DeadlineFires
    BY <2>8, ContextRace DEF Contract!Next
  <2>9. CASE Tick
    BY <1>1, <2>9, TickRace DEF Contract!Next
  <2>10. CASE UNCHANGED vars
    BY <2>10, Stutters DEF vars
  <2> QED
    BY <1>1, <2>2, <2>3, <2>4, <2>5, <2>6, <2>7, <2>8, <2>9, <2>10
       DEF Next, Collect, Terminated
<1> QED
  BY <1>1, InitRace, Invariance, PTL DEF Spec, RaceContract, Contract!Safety

-----------------------------------------------------------------------------
(* What becomes of the losers.                                             *)

\* The deferred cancel: a round that has returned has ended its context.
ContextOver == main = "returned" => ctx.err # Nil

LEMMA EndedIsOver ==
  ASSUME TypeOK, NEW e \in {Canceled, DeadlineExceeded}, EndContext(e)
  PROVE  ctx'.err # Nil
BY DEF TypeOK, EndContext, Ended, Nil, Canceled, DeadlineExceeded

LEMMA ContextOverStep ==
  ASSUME TypeOK, ContextOver, [Next]_vars
  PROVE  ContextOver'
<1> USE DEF ContextOver
<1>1. ASSUME NEW t \in Targets, Proceeds(t) \/ Network(t)
      PROVE  ContextOver'
  BY <1>1 DEF Proceeds, Network, Dial, Ask, ReadTimeout, Abandon, Send, Done,
              Connected, Datagram, Answered, AttemptFails, Fail, Return, env
<1>2. ASSUME NEW t \in Targets, Launch(t)
      PROVE  ContextOver'
  BY <1>2 DEF Launch
<1>3. CASE Collect
  BY <1>3, EndedIsOver DEF Collect, ReceiveAddress, ReceiveFailure, ReceiveClosed
<1>4. CASE CallerCancels \/ DeadlineFires
  BY <1>4, EndedIsOver DEF CallerCancels, DeadlineFires
<1>5. CASE Close \/ Tick \/ UNCHANGED vars
  BY <1>5 DEF Close, Tick, vars
<1> QED
  BY <1>1, <1>2, <1>3, <1>4, <1>5 DEF Next, Terminated

\* With attempts that obey the context, as those of DNS and HTTP do, nothing of
\* a round waits for the network once runRound has returned.
THEOREM LosersAreReleased ==
  ASSUME Kind = "query"
  PROVE  Spec => LosersReleased
<1>1. Init => ContextOver
  BY DEF Init, ContextOver
<1>2. ASSUME IInv, ContextOver, Next
      PROVE  (main = "returned" => now' = now) \/ UNCHANGED vars
  <2>1. CASE Tick
    <3>1. PICK t \in Targets : InFlight(t) /\ Waiting(t)
      BY <2>1 DEF Tick
    <3>2. phase[t] = "asking"
      BY <1>2, <3>1 DEF InFlight, IInv, KindOK
    <3>3. ctx.err = Nil
      BY <3>1, <3>2 DEF Waiting, ObeysContext
    <3> QED
      BY <1>2, <3>3 DEF ContextOver
  <2>2. ASSUME NEW t \in Targets, Proceeds(t) \/ Network(t) \/ Launch(t)
        PROVE  now' = now
    BY <2>2 DEF Proceeds, Network, Dial, Ask, ReadTimeout, Abandon, Send, Done,
                Connected, Datagram, Answered, AttemptFails, Fail, Return, env,
                Launch
  <2>3. CASE Close \/ Collect \/ CallerCancels \/ DeadlineFires
    BY <2>3 DEF Close, Collect, ReceiveAddress, ReceiveFailure, ReceiveClosed,
                CallerCancels, DeadlineFires
  <2> QED
    BY <1>2, <2>1, <2>2, <2>3 DEF Next, Terminated
<1>3. IInv /\ ContextOver /\ [Next]_vars => ContextOver'
  BY ContextOverStep DEF IInv
<1>4. IInv /\ ContextOver /\ [Next]_vars =>
        [main = "returned" => now' = now]_vars
  BY <1>2
<1> QED
  BY <1>1, <1>3, <1>4, Invariance, PTL DEF Spec, LosersReleased
=============================================================================
