# TLA+ models of publicip

`publicip` finds the public address of a host over STUN, DNS and HTTP. This
directory holds the specifications of its core, the TLC configurations that check
them on small instances and TLAPS proofs for every instance. Paths such as
`rounds.go:105` are relative to the repository.

## The system

| Part | State | Operations | Talks to | Correct when |
|---|---|---|---|---|
| Budgets, `timeout.go` | none; the time left of a context | `attemptBudget`, `methodContext`, `noBudgetError` | called by `run` and by the client | nobody starved, nobody over-served, time left over is not lost |
| Rounds, `rounds.go` | goroutines of a round, channel of outcomes, wait group, failures | `attemptRounds`, `run`, `runRound` | starts attempts, is called by each built-in discoverer | an answer is never dropped, each failure reported once, nothing blocks, leaks or panics |
| STUN, `stun.go` | one UDP socket per attempt | `tryConnection`, `parseBindingResponse` and the two address parsers | the network | the right address of the right family, no panic, an end in time |
| DNS, `dns.go` | none | `tryQuery` | resolver | the same |
| HTTP, `http.go` | a client and a pool of connections for each family | `newHTTPDiscoverer`, `clientForFamily`, `tryProtocol` | `net/http`, echo services, the transport of the caller | the same; the family is forced, what is borrowed stays as it was, no connection is left behind |
| Client, `publicip.go` | configuration; per call its context, the methods left, the failures | `DiscoverWithIPVersion` (and `Discover`), `DiscoverWithMethod`, `invoke` | discoverers, built-in or the caller's | the fallback skips nothing, the family is the one asked for, IPv6 first, the time is divided |
| Errors, `errors.go` | failures and one flag | `discoveryError` and its readers | the caller | a timeout is reported when it is one |
| Options, `options.go`, `defaults.go`, `New` | the configuration, and slices the caller may still hold | the `With...` functions, `New`, `ConfiguredMethods` | the caller | the later option wins, nonsense changes nothing, nobody changes a client that was built |
| Command, `cmd/publicip` | what `--all` has found and the problems it met | `run`, `report`, `discover`, `reportAll` | the client | each distinct address once, each call explained, one budget for all |

A call goes down: the client's loop over methods gives each method a share of the
time left as a context; `run` gives each family a share of that; `runRound` starts
an attempt for each target and takes the first address; attempts report through a
buffered channel. What comes back up is an address or a list of failures. The end
of a context, by deadline or by the caller, comes from the side at any moment.

What is hard here: the order in which attempts end, the context ends and the
collector looks; attempts that outlive their round; a deadline divided among
parts of which one (STUN) may take more than its share; a fallback over two
nested loops whose steps can be refused, cancelled or fail; lengths taken from
the network; connections that outlive the request they were dialled for and are
shared by attempts of several calls; slices that more than one hand holds.

## Modules

| Module | Models | Role |
|---|---|---|
| `Contexts` | Go contexts: a deadline, an error set once, `WithTimeout` | operators |
| `Addresses` | kinds of address, families, `familyMismatch`, `versionOf` | operators |
| `Timeout` | `timeout.go` and `callContext` | operators, as the code computes them in whole units |
| `FairShare` | the turns that share one deadline | state machine on `Timeout` |
| `Race` | what a round promises | abstract specification |
| `Round` | `runRound` and its attempts | implements `Race` |
| `Client` | a client as a call sees it | operators |
| `Discovery` | one call: client loop, `invoke`, `run`, contexts | state machine on `Timeout`; takes a round by what `Race` promises; implements `Call` |
| `Call` | what a call promises | abstract specification |
| `Command` | the command: flags, a call or all of them, output, exit status | state machine over the actions of `Call` |
| `Construction` | the options, `New`, `ConfiguredMethods`, slices | state machine; makes the clients of `Discovery` |
| `HTTP` | clients per family, transports, connections, attempts | state machine that extends `Construction` |
| `MCDiscovery`, `MCCommand`, `MCHTTP` | clients, command lines, options | model-checking modules |
| `BindingResponse` | `parseBindingResponse` | state machine |
| `RoundProofs`, `FairShareProofs`, `BindingResponseProofs`, `DiscoveryProofs`, `FallbackProofs`, `CommandProofs`, `ConstructionProofs`, `HTTPProofs` | | proofs |

### Round

Variables: `main` is where `runRound` is (starting goroutines, receiving,
returned), `phase[t]` where the goroutine of a target is, `results` and `closed`
the channel, `outcome[t]` what `try` returned, `connDeadline[t]` the deadline of a
STUN socket, `ctx` the round's context, `now` the clock. Each action is one step
after which another goroutine may run: starting a goroutine, dialling, the socket
being open, an answer, a timeout, giving up because the context is over, sending,
`wg.Done`, the close, and the three outcomes of a receive. `Kind` tells STUN
attempts, whose `Read` knows only the socket's deadline, from DNS and HTTP ones,
which pass the context to every call that waits. The network may do anything an
attempt can notice: any kind of address, a broken answer, an error, silence.

Time: a step of the program or a timer that is due takes no time, so `Tick` is
possible only when all that is left is to wait for the network. Within one
instant every order is explored, so an answer in the instant of a deadline may
come before or after it.

### Race

The contract of a round for the code that starts it: one address of the forced
family or every target reported; done by the end of its context, be that its
deadline or a cancellation, or one budget after that end when attempts wait on
sockets. `over`, a history variable of `Round`, is when the context ended. `Round`
implements it (`INSTANCE Race WITH verdict <- Verdict, ...`): `RaceContract` is the
safety part, checked for both kinds of attempts, and `RoundIsRace` all of it,
liveness included, checked for STUN rounds.

### Discovery

`StartAll` and `StartOne` are the two entry points, `SkipMethod`, `StartMethod`
and `LoopEnds` the loop of `DiscoverWithIPVersion`, `Invoke`, `MethodReturns` and
`MethodFails` what `invoke` does around a discoverer, `RoundRefused`,
`RoundGranted`, `RoundStarts`, `RoundWins`, `RoundLoses` and `MethodExhausted` the
function `run`. `call` and `mctx` are the contexts of the call and of the method. A
custom discoverer does what the `Discoverer` contract allows, and may also return a
nil address or, in one run, a `Version` that does not fit. Failures are kept as one
record for each group the code reports together.

The code looks at a context in two places, the loop over the methods
(`publicip.go:207`) and `attemptBudget` (`timeout.go:18`), and goes on in a step of
its own: `StartMethod`, `Invoke`, `RoundGranted` and `RoundStarts` are apart, and the
context may end between any two of them. A round that was granted its budget starts
whatever has happened since, and dials. `over` and `overtime` are history: when the
context of the call ended, and how many rounds or custom discoverers were at work
then or started later. `until` is the latest end `Race` allows the round under way.

### Call

The contract of one call for whoever makes it, in seven actions: `Start` applies
the client's cap, `Unsupported`, `Find` and `Fail` end the call, `Expire` and
`Cancel` end its context, `Wait` lets time pass. It says three things that no
single function of the code does. The answer is of the family that was asked for.
An error is called a timeout when and only when the call's own context says, as the
call returns, that its deadline ended it; a call whose rounds are refused in the
instant before that timer fires is not called one. After the end of its context,
by deadline or by cancellation, a call goes on only while an attempt waits on a
socket, and for at most one budget of an attempt (`late`: five seconds, or
`WithAttemptTimeout` when that is more, when STUN is among its methods, and nothing
otherwise). `over` is when the context ended. `Discovery`
implements it (`DiscoveryIsCall`), liveness included; a client that asks a
discoverer of the caller's (`open`) is allowed what that discoverer may do.

### Command

`NothingToDo` and `Run` are `run` with its checks of the flags, `Ask` the start of
the next call, in `report` or in the two loops of `reportAll`, `ReportOne` the end
of `report`. After a call `reportAll` goes one of three ways, `TakeAddress`,
`Skip` and `BudgetGone`; `FamilyEnds` is the check of the context behind the inner
loop and `ReportAll` what is written at the end. The call itself is done by the
actions of `Call`: the command knows of it what any caller may know, and since
`Discovery` implements `Call` what is shown here holds over the client itself.
`k` counts calls through both loops. `heard` is a history variable: what each call
that found an address returned. Durations are integers of `Width` bits, so that
the product of `main.go:113` wraps as it does in the program. Flags are
what they parse to; of the output the model keeps which addresses and which
explanations it has, and whether writing the addresses worked (`written`): a JSON
document that cannot be written makes the command fail, bare lines do not
(`main.go:222-226`).

### Construction and HTTP

Options are records applied one by one to `config`. A list in `config` is a
reference into `array`, which also has the arrays of the caller; `held` are those
of which the caller has a slice, and he may write to them whenever `New` does not
run. An option keeps the slice it was made with until `New` applies it, and the
client takes a copy then. `Value` is the client that results, in the form
`Discovery` assumes (`IsClient` of `Client`).

`HTTP` goes on from there: `NewHTTPDiscoverer` is `Build` of `Construction` with
the clients and transports of both families. `transport[t]` are the families a
transport dials, `clients[f]` the transport that a client uses; `"theirs"` is the
transport the clients were cloned from, the caller's or `http.DefaultTransport`,
which the rest of the program uses at the same time (`OthersUse`). An attempt takes
an idle connection or waits for a dial; a dial whose attempt has gone ends in the
pool; one of HTTP/2 (`ForceAttemptHTTP2`, `http.go:61`) may have several users and
loses only a stream with each; a redirect puts the attempt back to the start;
`Answered` is the rest of `tryProtocol`, from the body to the checks of the address.
A body is its length and the address it is as a whole; a part of it may be any
address.

### BindingResponse

A turn of the attribute loop reads a type, a length and an address family that
may be anything, and the model records each slice expression as
`<<low, high, length>>`. `seen` is a history variable: the address attributes
passed so far, from which `Answer` says, without a loop, what the result must be.

## What is checked

| Run | Instance | Shows |
|---|---|---|
| `round_stun` | 2 STUN targets, budget 2, parent without a deadline or with 1 or 2 | types, no send on a closed channel, no blocked sender, each failure reported once, no answer discarded, `Round` implements `Race`, every goroutine ends |
| `round_query` | 3 DNS or HTTP targets, budget 2 | the tighter contract of attempts that obey their context, and that losers wait for nothing once the round is over |
| `fair_share` | 3 participants, 1 to 10 units of time, ceilings 0, 1, 2 | nobody refused, nobody under an equal share or over a fair one |
| `discovery` | 7 clients, 4 entry points, 3 versions, 5 deadlines of the caller | the family promise, IPv6 first, an exhaustive fallback, a turn for everyone, truthful timeouts, the last method owns the rest, at most one round or custom discoverer at work once the call is over, `Discovery` implements `Call`, every call returns |
| `command` | `--all` and single calls in 64 command lines, of which some are refused, two addresses per family, a budget that ends anywhere | each address once and with its first method, each call explained, true messages about the budget, an exit status that only a JSON document that was not written keeps from being about the addresses, an end by one attempt after the budget |
| `http` | 6 lists of options, two attempts at a time, two connections, bodies around the limit | later options win, a client is fixed once it is built, the family is forced, nothing that was borrowed changes, an answer is all of the body, no connection is left behind |
| `binding_response` | datagrams up to 60 bytes, attribute lengths around each check and 65535 | slices in bounds, progress, the right address |

Runs that find the code disagreeing with its documentation:

| Run | Documentation | Code |
|---|---|---|
| `round_stun_losers` | losers are cancelled, a probe that holds its socket is a leak (`rounds.go:93-95`) | `Read` ignores the context (`stun.go:213`) |
| `round_order` | failures in the order they were tried (`errors.go:95`) | in the order they ended (`rounds.go:127`) |
| `discovery_cap` | `WithTimeout` caps the total time (`options.go:68-69`) | a STUN round lasts up to its budget for dialling and again for the answer (`stun.go:204`) |
| `zero_option` | the zero value of an option leaves the default alone (`README.md:101-102`) | an empty list of servers or endpoints takes the defaults away (`options.go:104-118`) |
| `discovery_version` | `Version` is derived from the address, for custom discoverers too (`publicip.go:41-44`) | `invoke` hands it on (`publicip.go:186`) |

Disagreements without a run of their own:

- `options.go:121` says of `WithHTTPClient` that "the address family is still
  forced per attempt". With a `RoundTripper` that is not an `http.Transport` it is
  not (`http.go:50-54`, as the comment there and `seam_test.go:167` say), nor with a
  transport that has a `DialTLSContext`, which the clone keeps. `FamilyForced`
  excepts both; what is left for them, the check of the answer, is part of
  `AnswerIsWholeBody`.
- `main.go:113` multiplies the seconds of `-t` in 64 bits: above some nine
  thousand million the product wraps, and the budget may be over at once.
- `timeout.go:36-37` says that the share of an attempt is always positive. With
  fewer nanoseconds left than attempts it is 0, the check at `timeout.go:42` takes
  that for a missing deadline, and five seconds are granted; the context still cuts
  the attempt off. The properties of `FairShare` assume a unit of time for each.
- `errors.go:47-48` says that an error wraps `ErrTimeout` "when the budget ran out".
  The flag is what the context says (`errors.go:116`), and when the last rounds are
  refused because the deadline has passed (`timeout.go:30`) before its timer has
  fired, the failures say "deadline exceeded" and the call does not
  (`timeout.go:77-79` knows of this instant). `DiscoveryIsCall` and `Call` follow
  the code.
- `README.md:210-211`: "the exit status is `1` when no address could be discovered
  and `0` otherwise". With `--json` it is 1 also when the document cannot be written
  (`main.go:136`, `main.go:222-224`), whatever was discovered; `FailsEmptyHanded`
  makes this exception and no other.
- When the budget of `--all` ends right after a call that found an address,
  `main.go:208` leaves the other family out and no line says so, whereas a failed
  call in the same place is explained by the budget.

### Bounds

- Two STUN and three query targets: a winner, a loser that is still under way and
  one that has failed are the roles an attempt can have towards the others; the
  proofs cover any number.
- Budget 2 and parents that end before, at and after it: the round's context, the
  parent's and the socket's deadlines come in each order.
- The clock has no bound of its own in `Round` and `Discovery`; it stops when
  nothing waits. `Horizon` bounds only how long a custom discoverer without a
  deadline is watched.
- Time is in whole units and shares are divided as integers. `QueriesNeverStarve`
  asks for a unit per round; below that the truncation of `timeout.go:38`
  sets in, which in the program means a few nanoseconds.
- The clients of `MCDiscovery` have up to three methods: a repeated one, one
  without a discoverer, one without targets, custom ones before and after, caps
  larger and smaller than the ceilings.
- `Command`: a second of two units and a duration of four bits, so that one of the
  timeouts (5) wraps; budgets of one and two seconds, which end in the first calls,
  between the families or not at all, against attempts that overrun by two units.
  Two hosts in each family are what it takes to be the same address or another.
- `HTTP`: two attempts are one and any other; two connections are one for each, or
  one in use beside a dial that nobody waits for. The limit is 2 with bodies of 1 to
  4 bytes: within, at, a byte above, and more than is read. `Written` is the one
  thing the caller writes, different from what his slices hold. The lists of options that are about
  slices have no endpoints and those about requests no slices: a request reads no
  slice but that of the endpoints, which is copied like the others.
- Lengths in `BindingResponse.cfg` are those around 4, 8 and 20 bytes, with and
  without padding; the proofs cover all.

### Fairness

`Round`: weak fairness of each goroutine's own steps, the closer, the collector,
due timers and time. Go's scheduler runs every runnable goroutine and its timers
fire. Nothing is assumed of the network or of the caller: silence is a behaviour.
`Discovery`: the same for the program and its timers, that a round ends (what
`RoundIsRace` checks of `Round`), and that a custom discoverer returns once its
context is over (the `Discoverer` contract, `publicip.go:76`). Without a deadline
or a cancellation it may run for ever, and `EveryCallReturns` says so.
`Call`: that a call starts and that it comes back, the latter only with an end in
sight when a discoverer of the caller's is asked; `Discovery` meets it under its
own fairness. `Command`, `Construction` and `HTTP` are about safety and assume
none.

## What is proved

Each proof module has one inductive invariant (`IInv`, unless another is named
below), a lemma for `Init`, a lemma for a step with one case or lemma per action,
and the theorems that follow from it by temporal logic.

- `RoundProofs`, for any number of targets, either kind, any family, budget and
  parent deadlines (`RoundAssumption`): the types, `NoSendOnClosed`,
  `SendsNeverBlock`, `EveryLossReported`, `NoAnswerDiscarded`, and
  `Spec => RaceContract`. `NoSendOnClosed` is inductive as it stands, since the
  channel is closed only by a step that sees every goroutine done (the counter of
  the `WaitGroup` is taken for what it counts); the others are not. The invariant ties the
  channel and the failures to the phases: what is in the channel comes from
  targets that have sent, each at most once; a target that has sent is in the
  channel or reported unless the round was won; the channel is closed only when
  all are done. From that follow the room in the channel and the complete report.
  For the contract it also bounds the clock by the deadlines of the attempts that
  wait. `LosersAreReleased` adds, for attempts that obey their context, that a
  round which has returned has ended its context (`ContextOver`).
- `FairShareProofs`, for any number of participants, totals and ceilings:
  `NoneStarved`, `NobodyShortchanged`, `GrantIsFairWhenEnough`. The invariant says
  that what is left is at least an equal share for each participant that has not
  had its turn; the lemmas are about integer division.
- `BindingResponseProofs`, for any lengths: `SlicesInBounds`, `FindsTheAnswer`,
  `LoopShrinks`. A lemma shows that appending one attribute changes `Answer` as
  the loop changes `ip`.
- `DiscoveryProofs`, for any clients, deadlines and discoverers: `FamilyPromise`,
  `TimedOutIsTrue`, `OneLastAttempt`. The invariant says who ended the context of the
  call (the caller, or its deadline once that had passed), that the end of the call
  has reached the method that runs, and that a named method has the call's own
  context. The first makes the flag true. For `OneLastAttempt` there is a second
  invariant, `OvertimeOK`: before the end, and while something that was allowed
  before the end has not started, nothing is counted, and nothing is allowed after
  it. Lemmas say what `WithTimeout` and `callContext` leave of the context they
  derive from: neither can un-end it, nor make it time out when it had not.
- `FallbackProofs` goes on from there to what the two loops of a call do, in two
  layers that follow the code's own division.
  - `PInv` knows no clock: the types, `PrefersIPv6` and `FallbackIsExhaustive`.
    Neither of the two is inductive: what the failures hold of a method has to be
    known before the method is passed. The invariant says that `methodsLeft` is the
    number of runnable entries not yet reached, that of the families of the method
    under way each has been tried or is pending, unless a round was refused or
    there was nothing to ask, and that each runnable entry the loop has passed is
    exhausted.
  - `FInv` adds the clock: `LastOwnsRemainder` and `QueriesNeverStarve`. A context
    of a method ends no later than the call and only for a reason; as long as the
    hypotheses of `QueriesNeverStarve` hold, two units of time are left for each
    method that has not started, and one for each round of the method that runs
    (`Ahead`). `ShareOfTwo` is the arithmetic: a share out of two units for each of
    `L` has two, and leaves two for each of the others.
  - `DiscoveryImplementsCall`, `Spec => Contract!Safety`: each step is a step of
    `Call` or changes nothing a caller sees. It needs the invariant where the
    contract is tight: time passes after the end of a call only while a socket
    holds a round, and no later than `Late` after that end (`UntilOK`). What a round
    was granted is bounded when it is granted, and between that and its start only a
    cancellation can come (`GrantOK`): steps take no time, and a deadline that is due
    refuses the grant.
- `CommandProofs`, for any command lines, hosts, second and width of a `Duration`:
  the types, `FirstReportersWin`, `NothingPassedOver`, `BudgetMessageIsTrue`,
  `FailsEmptyHanded` and `CommandIsBounded`. All but the last speak of the end of
  `reportAll`, which no single step decides; the invariant says what is true after
  each call. What was looked at (`Taken`: all that was heard, but for an address
  that has just come back) is credited once and to the call that came first
  (`Credited`). Each call before the one under way was heard of or is explained
  (`Accounted`). An explanation by the budget is the last one, is about the last
  call, and is followed by no other call (`BudgetOK`, `LoopOK`). `heard` is in the
  order of the calls (`HeardOK`), from which follows the order of the output. The
  time is bounded because every call has the one context (`ContextOK`). The
  deadline is whatever the product of `main.go:113` wraps to: `Duration` is shown
  to be an integer, and no more is needed. The proof uses of a call only the actions
  of `Call`, whose safety `Discovery` implements (`DiscoveryImplementsCall`).
- `ConstructionProofs`, for any options in any number and order, any slices and any
  writes of the caller: `ConstructionOK`, with `IsClient(Value)`, so that what New
  builds is a client the theorems of `Discovery` are about, `FixedAtConstruction`,
  and `LaterWins`. The invariant is about who holds what: the client refers to
  its own arrays only, and the caller has a slice of none of them. For `LaterWins`
  there is a second one, `InOrder`: nothing has touched the defaults when New
  starts, and from then on each option that is applied is the last of those that
  say something. It rests on the first, since what an option says is in an array of
  the caller's that nobody writes to while New runs. That the options are a
  sequence, as the variadic parameter of `New` makes them, is part of
  `ConstructionAssumption`.
- `HTTPProofs`, for any options, number of attempts and connections, bodies and
  limit: the types, `FamilyForced`, `TheirsUntouched`, `AnswerIsWholeBody`,
  `NothingLeftBehind`, and that every step of `HTTP` is one of `Construction` or
  leaves it alone (`HTTPSpec => Spec`), so that `FixedAtConstruction` holds while
  attempts are under way. The invariant says of every connection who uses it and
  from where (`ConnOK`), of every attempt which connection it has (`AttemptOK`),
  that these agree, that a connection of HTTP/1 and a dial have one user, and that
  an attempt waits for one dial (`OneDial`). None of the properties is inductive
  without it: a late dial of one attempt is the idle connection of another. One
  lemma, `LettingGo`, covers every way of leaving a connection.

Assumptions: the `ASSUME`s of the modules, all evaluated by TLC in the passing
runs, and nothing else.

Every invariant and action property that a passing run checks is proved; what is
proved of `Construction` holds in the run `http` because of `HTTPIsConstruction`.

Only model-checked: liveness, because fairness is out of reach of TLAPS here. That
is `EveryGoroutineEnds` and `EveryCallReturns`, and of the refinements `RoundIsRace`
and `DiscoveryIsCall` the part that says something happens; their safety parts are
proved (`RoundImplementsRace`, `DiscoveryImplementsCall`).

## Not modelled

- The bytes of the STUN request, the XOR of an address, the text formats of
  addresses: an address is kept only by the answer `To4` gives.
- The resolver, the HTTP stack, sockets: external, seen through what an attempt
  can notice.
- The logger, and the options and hooks that only tests set.
- How flags are spelled, and all wording of messages, logs and output.
- The release notes script and the example, which are no part of the running
  system; `version.go`, a constant.
- A whole call running beside another on one client: a call shares nothing that
  changes with another but the connections, and these `HTTP` has attempts of any
  call on.

## Plan

1. Done: `Round` with `Race`, `FairShare`, `Discovery`, `BindingResponse`, and
   their proofs; `Call` with `Discovery` as its implementation, `Command` over it,
   `Construction` and `HTTP` with their proofs.
2. Done: proofs of the fallback and of its timing, of `Call` as implemented by
   `Discovery`, of the command, and of the order of the options; the check of a
   context and what follows it as steps of their own, with the contracts of a round
   and of a call counted from the end of their context.
3. Next: shorter proofs where several steps repeat an argument, and lemmas about
   `Timeout` shared by `FairShareProofs` and `FallbackProofs`.
