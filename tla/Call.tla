-------------------------------- MODULE Call --------------------------------
(***************************************************************************)
(* What a call of a Client promises whoever makes it: one address of the   *)
(* family asked for, or an error that is called a timeout when the call's  *)
(* context says, as the call returns, that its deadline ended it; and it   *)
(* comes back, at a time that depends on what it waits on.                 *)
(***************************************************************************)
EXTENDS Timeout, Addresses

VARIABLES
  asked,   \* what was asked, and of whom; fixed during the call
  now,
  ctx,     \* the context of the call
  over,    \* when it ended
  state,   \* "called", "running" or "returned"
  answer

vars == <<asked, now, ctx, over, state, answer>>

\* version: the IPVersion.  timeout: the client's cap, 0 for none.  late: how
\* long an attempt that waits on a socket may hold up a call that is over.
\* open: a discoverer of the caller's may be asked.
Questions == [version : Versions, timeout : Nat, late : Nat, open : BOOLEAN]

NoAnswer == [status |-> "none", ip |-> NoIP, version |-> "Any", timedOut |-> FALSE]

Init ==
  /\ asked \in Questions
  /\ now = 0
  /\ ctx \in Contexts /\ ctx.err = Nil
  /\ over = 0
  /\ state = "called"
  /\ answer = NoAnswer

Start ==
  /\ state = "called"
  /\ state' = "running"
  /\ ctx' = CallContext(ctx, now, asked.timeout)
  /\ UNCHANGED <<asked, now, over, answer>>

Return(a) ==
  /\ state' = "returned"
  /\ answer' = a
  /\ UNCHANGED <<asked, now, ctx, over>>

Unsupported ==
  /\ state = "called"
  /\ Return([NoAnswer EXCEPT !.status = "unsupported"])

RightFamily(ip) ==
  /\ asked.version = "IPv4Only" => To4(ip)
  /\ asked.version = "IPv6Only" => ~ To4(ip)

\* Only a discoverer of the caller's returns no address, or calls it what it is
\* not.
Find ==
  /\ state = "running"
  /\ \E ip \in IPs \cup {NoIP}, v \in Versions :
       /\ RightFamily(ip)
       /\ asked.open \/ (ip # NoIP /\ v = VersionOf(ip))
       /\ Return([status |-> "found", ip |-> ip, version |-> v, timedOut |-> FALSE])

\* The error of a named discoverer of the caller's is handed on as it is.
Fail ==
  /\ state = "running"
  /\ \/ Return([NoAnswer EXCEPT !.status   = "failed",
                                !.timedOut = ctx.err = DeadlineExceeded])
     \/ asked.open /\ Return([NoAnswer EXCEPT !.status = "foreign"])

End(err) ==
  /\ ctx' = Ended(ctx, err)
  /\ over' = now
  /\ UNCHANGED <<asked, now, state, answer>>

Expire == Due(ctx, now) /\ End(DeadlineExceeded)

Cancel == ctx.err = Nil /\ End(Canceled)

\* A call goes on after its end, be that its deadline or a cancellation, only
\* while a socket holds it up, and by no more than one attempt.
Wait ==
  /\ state = "running"
  /\ ~ Due(ctx, now)
  /\ ctx.err # Nil => now < over + asked.late
  /\ now' = now + 1
  /\ UNCHANGED <<asked, ctx, over, state, answer>>

Next == Start \/ Unsupported \/ Find \/ Fail \/ Expire \/ Cancel \/ Wait

Safety == Init /\ [][Next]_vars

\* A discoverer of the caller's that is given no end may take for ever.
MustReturn ==
  /\ asked.open => ctx.err # Nil \/ ctx.deadline # NoDeadline
  /\ Find \/ Fail

Spec == Safety /\ WF_vars(Start \/ Unsupported) /\ WF_vars(MustReturn)
=============================================================================
