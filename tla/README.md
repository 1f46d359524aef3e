# BLÅHAJ: a TLA+ model of the process supervisor and its proxy

BLÅHAJ runs a set of programs, restarts them when they die or turn unhealthy, stops
them on a signal, and serves as a reverse proxy in front of them.  These modules model
the supervision: its actors, futures, channels and children, the order in which the
arbiter polls them and the process around them; and the proxy, which keeps no state but
chains.  Paths below are relative to `src/src/`.

## The system

| Component | State | Operations | Talks to |
|---|---|---|---|
| `RetryGuard` (supervisor/retry.rs) | deque of instants | `mark` (push, evict, compare) | owned by `RepeatedActFut` |
| `RepeatedActFut` (supervisor/futs.rs) | slot `Empty`/`Polling`/`Waiting`, the stop receiver between two rounds, the guard | `poll` | sends `Run` to its own actor, sleeps |
| `CaretakerActor` (supervisor/caretaker.rs) | `status`, `stop_tx`, `stopped_tx`, mailbox | `Run`, `Wait`, `Terminate`, `Daemon`, `SetHealthState`, `GetStatus`, `broadcast_stopped` | child, `HealthActor`, logger, itself |
| `WaitAbortFut` (supervisor/futs.rs) | child, stop and unhealthy receivers | `poll` | child |
| `ensure_stop`, `terminate` (caretaker.rs, terminate_ext.rs) | none | SIGTERM, grace period, SIGKILL | child |
| `HealthActor` (supervisor/health.rs) | `stop_tx`, `unhealthy_count`, requests in flight | `started`, one step per interval, per answer, `StopSignal` | caretaker, `WaitAbortFut`, the program over HTTP |
| `Supervisor` (supervisor/mod.rs) | addresses of the caretakers | `Join`, `TerminateAll`, `GetStatusAll` | all caretakers |
| `SignalHandler` (ctrlc_handler.rs) | the signal stream | `TerminateAll` on every signal | supervisor |
| `main` (main.rs) | none | start-up order, Join, stop of the server | all |
| endpoints (endpoints.rs) | none | `status`, `health` | supervisor |
| proxy (proxy/) | map from path to upstream | `get`, `forward`, the `Forwarded` header | upstreams |
| logger, log format, config, errors | `MAX_TARGET_WIDTH` | logging, parsing | sinks |

Everything but the child processes, the timers and the server's worker threads runs on
one thread, the arbiter of `main`.  What is hard here is not data races but the order of
polls and messages: a stop signal that arrives between two runs, a health report of a
child that is already gone, a grace period that ends when the child does, two signals in
a row, a daemon that resolves while a `Wait` is under way, futures that fail with
`expect` if a channel's other end has gone.  Every such place is listed at its line in
`PROJECT.json` under "hazards", with the properties that would catch it.

What makes each component correct: the retry guard forgets exactly what is older than
the window and the daemon gives up exactly at the limit; the caretaker never loses a
child, never misreports its status, answers `Wait` and `Terminate` when the child is
gone and not before, and does so in the end; a `HealthActor` affects only the run it was
made for and signals once; of the `expect`s on these paths only two can fail, for reasons
one can name.  The process answers for its programs as they are, ends when it is told to
or when there is nothing left to do, and leaves a child behind only for a reason one can
name as well.  The proxy finds the program with the longest path, sends the request to
its port and asks it for the right path; it keeps the list of the `Forwarded` header, and
of a response the status and the headers that are not those of one connection.

## Modules

| Module | Models | Composes |
|---|---|---|
| `RetryGuard` | `evict`, `mark` and its answer, as operators on the deque | |
| `RetryLoop` | `RepeatedActFut` with its clock: run ends, sleeps, giving up | extends `RetryGuard` |
| `Caretaker` | one `CaretakerActor` with its daemon, run, health and child | extends `RetryGuard` |
| `Startup` | the tasks `main` spawns, on the arbiter's run queues | |
| `SupervisedProgram` | what a caretaker promises, abstractly | implemented by `Caretaker`, used by `Supervisor` |
| `Supervisor` | `main`, the supervisor actor, the signal handler, the endpoints and the server, around any number of caretakers | instantiates `SupervisedProgram` per program |
| `ProxyRouting` | `ProxyConfig::new`, `ancestors`, `get`, as operators on paths | |
| `ForwardedHeader` | `from_info` and `Display`, as operators on headers | |
| `Proxy` | `forward`, over a chain of proxies, there and back | extends both |
| `MCProxy` | the small instances of `Proxy` | |
| `RetryGuardProofs`, `RetryLoopProofs`, `CaretakerProofs`, `CaretakerRefinementProofs`, `StartupProofs`, `SupervisorProofs`, `SupervisorRefinementProofs`, `ProxyProofs` | the proofs | |

### RetryLoop

`now` is `Instant::now()`, `deadline` the end of the registered sleep, `retries` the
deque, and `marks` a history of all calls of `mark()` that the properties compare the
deque with.  Runs of the program end whenever they like.  `fut` has no `Empty` here: the
slot is refilled in the next poll without a delay, and what happens between those two
polls is in `Caretaker`.

### Caretaker

A step is one handler call or one poll of one future.  `mailbox` is the FIFO mailbox; an
actor context drains it before it polls the futures of the actor, which is the guard
`mailbox = <<>>` of the `Poll` actions.  The Daemon future is `fut`, with its resolved
state `Ready`; the Run future is `run`, whose states `Terminate` and `Kill` are the two
halves of `ensure_stop`.  `stop_tx`, `stop_rx` and `stopped_tx` are the ends of the two
channels of the actor; the unhealthy channel is the `stop_tx` of the `HealthActor` and
the `WaitAbort` state of the run.  `health` holds two `HealthActor`s: the one of the
current run and the one of the run before, which may still be there with requests in
flight.  `HandleRun` spawns a child or fails to, by choice; the child exits with success
or an error at any time and may ignore SIGTERM for ever; a check succeeds or fails by
choice, and requests in flight are answered in any order.  `retries` holds instants
relative to the present, so that `Tick` keeps the state space finite.

An `expect` that would fail is the action `Panic`, or `HandleRunPanics`, after which the
model stops.  The latter is the one in `uri_for_check`: nothing validates the path of a
health check, and `Handler<Run>` builds the URI from it after it has spawned the child.
`check_legal`, chosen in `Init`, says whether the path of the configuration will do.

`fut = "Start"` is before the actor's first poll.  In that poll started(), the Daemon message
and the first `FutureSlot::Empty` follow one another: they are one `PollEmpty`.

SIGKILL is assumed to arrive: `ensure_stop` drops the error of `kill()` (caretaker.rs:169),
and if there were one the code would take a living child for gone.  `ChildOwned`,
`WaitMeansGone` and `UnhealthyIsStopped` hold under this assumption.

`Exhausted` uses exact products.  `Duration * u32` of health.rs:85 would panic on an
overflow that takes an interval of centuries or 2^32 failures in a row.

Two guards are facts about the scheduling of the arbiter, which is not in this
repository, and are marked so in the module: `Started` (the supervisor sends nothing before
the caretaker's first poll: `SupervisorLast` of `Startup`) and `StopSignalsHandled` (a
`StopSignal` wakes its `HealthActor` before the daemon registers its sleep, so that actor
is polled before the next round starts).  That Join comes before the first result is not
assumed, because it need not (`startup_request`): the broadcast without a subscriber is
one of the panics.

### Startup

main spawns the caretakers, the supervisor and the task that sends `Join` without an
await in between, so they stand in the run queue in that order before any is polled.
`local` and `remote` are the two queues of the arbiter; the next task may be the head of
either, and children, timers and health checks wake caretakers through `remote` at any
time.  A caretaker is reduced to the stage of its round, `New` before its first poll.  That
poll handles `Daemon` and sends `Run`, its second handles `Run`, and only its third can see
a `RunResult`.
`EarlyRequests` lets the server's threads ask for a status before Join is forwarded.

### SupervisedProgram

Five variables: the status that `GetStatus` answers, whether there is a child, whether
the daemon is done, how far a stop has got (`No`, `Asked`, `Signalled`, `Consumed`), and
who waits and has been answered.  It allows no restart after a stop was consumed, no
verdict while there is a child, no answer to a wait before the daemon is done, and no
end of a child that has the stop signal other than by being stopped.  `Caretaker`
implements it: `AbstractStop` is read off the two ends of the stop channel and the
Terminates on their way, `AbstractWaits` off the waiters (`ImplementsProgram`).

### Supervisor

Every caretaker is reduced to a record of that state, with the FIFO `inbox` through
which it is reached and whether anybody has subscribed to its end; `P(p)` maps it to
`SupervisedProgram`, and `Conforms` says that nothing the process does with it leaves the
abstract protocol.  The two modules meet there: `Caretaker` shows that the actor keeps
the promise, `Supervisor` shows what the process makes of it.  A caretaker that fails the
`expect` of `broadcast_stopped` is `Panicked`: its mailbox is closed, what is sent to it
is lost, and whoever awaits an answer gets an error.  Check paths are taken for legal here:
`Caretaker` has the panic of an illegal one.

`HandleJoin`, `HandleTerminateAll` and `HandleGetStatusAll` are one step each, because the
handler sends all its messages in one call; the answers come one by one (`HandleGetStatus`
of each caretaker) and `try_join_all` is `Joined` and `Complete`: all are there, or one
never will be.  `SignalArrives` and `HandleSignal` are the signal stream and its handler,
`ServerStops` is the server's own handler of the same signals, which main.rs:75 leaves
switched on.  `JoinEnds` stops the server, `Return` is main's return, after which nothing
of the process moves: children that are alive then are left behind.  `seen` is a history
of how each program has looked since the request, that `HealthCurrent` compares the
answer with.

### ProxyRouting, ForwardedHeader, Proxy

A path is a sequence of slashes and names; two names next to each other are one segment,
so that `/foobar` and `/foo/bar` differ and a missing slash shows.  `ancestors`, `longest`
and `get` follow the code; `ProxyConfig` is the set of maps a `HashMap` may end up with when
two programs have the same key.  The properties compare them with `Segments`, every other
part of a path in which slashes and names take turns, and so speak of paths without an
empty segment (`Comparable`: the request's and all the configured ones).

A `Forwarded` header is the sequence of its parts between semicolons, each given by its
`for=` elements, and an element by its name and the blanks around it: re-reading one's own
output leaves a blank in front of every element but the first, one more at each hop.

`Proxy` takes one request through up to `MaxHops` BLÅHAJs with configurations of their own
and brings the response back.  Requests share nothing that changes, so one is enough.  At
every hop the request may be for an endpoint (`ToEndpoint`: a GET, other methods are
forwarded), be not found, fail (`Fail`, also after the upstream has answered), or be
forwarded to the port of a program, `upstream`.  Behind it is the next BLÅHAJ, or an
application (`Serve`), which is a hop without programs.  `source` and `at` are a history:
the response as it was made, and how many BLÅHAJs it had to pass then.

## Runs

| Run | Question | Bounds |
|---|---|---|
| `retry_burst` | Does the drain by count keep exactly the recent ends, and is the limit exact? | window 3, count 3, delay 1, 9 instants: up to four ends fall into a window, so ends are evicted, kept at exactly the age of the window, and the limit is both hit and missed |
| `retry_slow` | Can a limit be reached whose sleeps do not fit into the window? | window 3, count 3, delay 2, 17 instants: several windows in a row |
| `caretaker_safety` | What can panic and why, is a child, a request or a round lost, is an answer or the status wrong, does a late report count, can a stop go back? | count 2 (one restart), grace after two failed checks, two Terminates and a Join, two requests in flight per actor, two messages in the mailbox before a new request: a restart with the old actor's requests pending, both signals at once, a Terminate at any point, a late Join and an illegal check path all happen |
| `caretaker_plain` | Without a health check the one report, Healthy, may come when the child is already gone: does the status stay honest and the verdict final? | count 3 (two restarts), two Terminates |
| `caretaker_live` | Unless the actor panics, is Terminate answered and every death followed up; does an unhealthy child go away? | one Terminate, one request in flight |
| `startup` | Have the caretakers started before the supervisor, is there a subscriber before the first result? | three programs |
| `supervisor` | Why can main leave a child behind, is a signal or an answer lost on its way, is an answer about health stale, does a signal end main? | two programs, one with a health check; one signal and one request, each at any time, so that they meet every state of the programs, of Join and of each other |
| `proxy` | Is a request sent to the program with the longest path, does the header survive, is the response the one that was made, less what `forward` takes out? | two proxies: what one writes is read by the next; no program or every one or two of ten (five spellings of a path, with and without `strip_path`, a port each), eight paths and that of an endpoint, which two hops can meet, GET and POST, five `Forwarded` headers; each response header absent or there twice |
| `late_spawn` | Against a doc comment: a child is spawned after the stop signal | `SleepSpec`: the signal is sent while the future sleeps, and Join waits by then; expected violation |
| `terminate_hangs` | Against two doc comments: Terminate is never answered | expected violation |
| `startup_request` | Against an `expect`: a request overtakes Join | expected violation |
| `missing_slash` | Against a comment: the upstream gets a path with two slashes | the programs of tests/simple.yaml; expected violation |

The bounds `MaxProbes` and `MaxMailbox` only limit when a *new* health request may be
sent; everything else may always put messages into the mailbox.  `MaxTime` ends the
clock.  `MaxSignals` counts signals; those that come before the stream is read are one
item anyway.  One request is made in all, because every `GetStatusAll` has channels of its
own, and it comes after Join was sent, because earlier ones are in `Startup`.  Names of
headers and paths are few, because the code only compares them.  The system may stop (a
resolved daemon with all messages handled, a process that has returned, a response that
has arrived), so deadlock is checked only in `Startup`.

### Properties

- `WindowExact`, `GiveUpExact`, `GiveUpNeedsRoom`: the deque and the limit against the
  whole history.  The last one says what the repository's tests/simple.yaml runs into:
  with a window of 5s, a delay of 5s and count 2 the limit is reached only if a run takes
  no time at all, and with a longer delay never.
- `PanicExplained`: only two `expect`s can fail, the URI of a check whose path is illegal, and
  the broadcast of a daemon that resolves before Join was forwarded; the stop signal, the
  unhealthy signal and the round always find the other end of their channels.
- `ChildOwned`, `StatusHonest` (both of an actor that has not panicked), `WaitMeansGone`,
  `AtMostOneLateSpawn`: state invariants of the caretaker; `VerdictFinal`, `ReportsFresh`:
  what no step may do.
- `RequestKept`: a Wait or Terminate is in the mailbox exactly once until it is answered or
  subscribed, also while one is turned into the other.  `RoundKept`: a Daemon future that
  waits has a round to wait for, in one place.  `StopAdvances`: once the stop signal is sent,
  every step of the futures brings the daemon nearer to its end, of which it is ten steps
  away at most; only a spawn that fails throws it back.
- `TerminateUnlessUnspawnable`, `DeathFollowedUp` (both unless the actor panics),
  `UnhealthyIsStopped`: liveness.
- `JoinBeforeResult`, `SupervisorLast`: the order at start-up.
- `ImplementsProgram`, `Conforms`: the refinement, and its use within the protocol.
- `ExitExplained`: a child is left behind only by the server's own stop or by a panic.
  `HealthCurrent`: "healthy" is only answered if every program was so since the request,
  and nobody is blamed who was healthy all the time.  `SignalEndsMain`, `DoneEndsMain`:
  main ends, by way of Join alone.
- `SignalKept`: a signal is in the stream, with the supervisor, or with every program that
  is up.  `AnswersOwed`: whoever waits for an answer will be given one, by a message on its
  way or a daemon that is up.
- `RoutedToLongest`: the request goes to the port of a program that serves the path and has
  the longest path of its own, and asks for its prefix and what is left of the path.
  `NotFoundJust`: nobody else would have served it.  Both are for `Comparable` paths.
- `ForKept`, `ResponseTrue`: invariants of the whole chain.  `ResponseTrue` demands that past
  the first BLÅHAJ on its way back a response has no header of a single connection, and of
  several Set-Cookies the last.

### Fairness

`FairSpec` assumes that a woken task is polled (the run queue is FIFO) and that a poll
drains the mailbox before it polls the futures.  Futures get strong fairness because
another actor may put a message into the mailbox between two polls, which disables the
`Poll` action of the model but delays nothing in the code.  Sleeps and timeouts end, a
child that has got SIGKILL dies, and `Join` is sent.  Nothing is assumed of a child
before SIGKILL, of health checks, or that a signal comes.

`FairSpec` of `Supervisor` assumes that the arbiter does not idle (weak fairness of all its
steps together: which one is taken is open) and that a program with the stop signal gets
on, which is what `Caretaker` shows of programs that can be spawned
(`TerminateUnlessUnspawnable`).  Nothing is assumed of the server's own handling of
signals, so main's end does not rest on it.  `Proxy` states safety only.

## What the checks found

- A Terminate that is handled while the daemon sleeps between two runs is followed by one
  more child, spawned only to be stopped.  `late_spawn` shows it after a first spawn that
  has failed: Join waits, the future sleeps, the Terminate is handled, the sleep ends, and
  the next spawn succeeds.  A Terminate while an unhealthy child is being stopped does the
  same.  It is never more than one child: `AtMostOneLateSpawn`.
- A health check whose path makes no legal URI panics in `Handler<Run>`, when its program has
  already been spawned (`HandleRunPanics`): the child runs on and nobody waits for it.
- The future of a failed spawn and the sleep after it never look at the stop signal.  With the
  default `retry.count` a program that cannot be spawned is tried for ever and neither
  Terminate nor Join is answered (`terminate_hangs`).  Otherwise Terminate is always
  answered: `TerminateUnlessUnspawnable`.
- `broadcast_stopped` relies on the order of tasks.  That order holds by itself
  (`JoinComesFirst`), but a status request from a server thread in the instant between
  the first poll of the supervisor and that of the Join task puts the supervisor into
  the other queue; a program that gives up at once then fails the `expect`
  (`startup_request`, `PanicExplained`).
- The server handles SIGINT and SIGTERM on its own account and may stop before the
  children have: main then returns and leaves them behind (first disjunct of
  `ExitExplained`; a violation of the property without it is found at once).  Likewise a
  caretaker that panics answers Join by an error, and the programs beside it are left
  behind (second disjunct).
- Without `strip-path`, the upstream is asked for `//some_path`, and `//some_pathx` for
  `/some_path/x` (`missing_slash`).  Only a path written `foo/` is put together right
  (`Joins` in `RoutedToLongest`), and a trailing slash of the request is lost with it.
- A program at `/` serves `/` and nothing below it: the ancestors end at the first segment
  (`NotFoundJust`).  A request with two slashes in front is not found at all.
- Of several values of one response header, Set-Cookie above all, only the last reaches
  the client (`ResponseTrue` says so).  Elements of a second part of the `Forwarded`
  header, as in `for=a;host=h, for=b`, are dropped; the forms the comment of `from_info`
  lists are kept.

## Proofs

All theorems hold for every value of the constants allowed by the named assumptions
(`RetryAssumption`, `RetryLoopAssumption`, `CaretakerAssumption`, `StartupAssumption`,
`SupervisorAssumption`, `PortAssumption`, `ProxyAssumption`: the numbers are naturals,
`HasHealthCheck` and `EarlyRequests` Booleans, `Join` is not a Terminate, checked programs are
programs, ports are in 1..65535, and configurations, paths and headers are what they are
called).

- **Retry guard and loop.**  `OlderIsPrefix` and `MarkSuffix` show that on a sorted deque
  the elements counted by `evict` are a prefix.  The inductive invariant of `RetryLoop`
  says that the deque is the suffix of the history within the window, which is sorted
  because `now` is.  From it follow `WindowIsExact`, `GivesUpExactly` (a cardinality
  argument) and, with the spacing of consecutive marks by the delay,
  `GivingUpNeedsRoom`.
- **Caretaker.**  The properties are not inductive.  `IInv` adds to them: `ChannelInv` (who holds
  which end of the stop channel in which phase), `PhaseInv` (which combinations of the
  two futures and the result occur), `LateInv` (after a late spawn the next result is
  Terminated), `ActorInv` (a `HealthActor` that runs without a pending stop belongs to the
  current run and holds its sender) and `MailInv` (what can be in the mailbox: one `Run`
  at most and only while the daemon polls, every `Wait` of a waiter once, reports of an
  earlier actor only in front of that `Run`).  The step is one lemma per group of actions
  (`InvHandlers`, `InvPollDaemon`, `InvPollRun`, `InvHealth`), resting on lemmas about
  appending to and taking from the mailbox (`MailSent`, `MailReceived`, `MailRequeued`).
  All of it is said of an actor that has not panicked (`Calm`), which is enough because
  nothing is modelled after a panic; `StepCases` splits a step accordingly.  For
  `PanicsAreExplained`, `PanicReasons` goes through the actions that can panic: `IInv` refutes
  the other sites, `RunAwaited` (a run that reports is awaited by the daemon) those of the
  `HealthActor`, and a broadcast without a subscriber leaves only a Join that is idle,
  because the mailbox is empty then.
- **Caretaker, nothing lost.**  `ReceiverInv` follows the receiver of the stop signal: it is gone
  exactly when a stop was consumed or the daemon is done, and lent to a round while one is
  on.  `RequestsAreKept` is a matter of positions in the mailbox: `RequestSent` and
  `RequestReceived` say that sending a request makes it occur once, and taking the head
  makes the head's occur never and leaves the others.  `RoundsAreKept` needs besides that
  the `Run` of a round that has been asked for and has not begun is at the head of the
  mailbox (`RoundInv`), which was empty when the round was asked for.  `StopOnlyAdvances` is
  the part of `TerminateUnlessUnspawnable` that needs no fairness: a signalled daemon has a
  number of steps left that only goes down, so it ends if the arbiter only goes on.
- **Startup.**  `JoinComesFirst`: until Join is forwarded, a caretaker that has sent `Run`
  stands behind the Join task in the local queue, and one whose result is ready stands
  behind the supervisor (`Ordered`); so neither gets a third poll.  `Taken` and `Woken`
  say what taking the head and appending do to the order of a queue.  `SupervisorComesLast`
  needs no such condition: a caretaker that is `New` stands in the local queue in front of
  the supervisor, which cannot get into the other queue by then (`FrontInv`).
- **Refinement.**  `CaretakerImplementsProgram` adds to the invariant of the caretaker and
  `ReceiverInv` that every Wait and Terminate on its way has a sender (`SenderInv`); then
  every action is one abstract step or none, again by groups; a panic is a stutter or, with
  the child spawned, the abstract spawn (`PanicMapped`).
- **Supervisor.**  `ExitIsExplained` and `HealthIsCurrent` rest on one invariant: whoever is
  done has no child and whoever has panicked has an empty inbox (`GoneInv`), the Waits of
  Join know the truth about the daemons (`JoinInv`), the server was stopped for a reason
  (`StopInv`), and an answer stands for something seen since the request (`AnswerInv`).
  `SupervisorConforms` adds that Join is on its way at most once and only while no program
  has been asked (`JoinSentInv`), that its Wait comes after that (`JoinWaitInv`), and that a
  child belongs to a run (`ChildInv`): without the first, a second Join would take an
  answered wait back.
- **Supervisor, nothing lost.**  `SignalsAreKept` needs that a Terminate in the inbox of a
  program has left its mark in the program's `stop` (`MarkInv`), because the one that is
  taken out must be the one that signals.  `AnswersAreOwed` needs that the inbox holds at
  most one Wait and one GetStatus (`LoneInv`) and that Join is on its way at most once
  (`JoinSentInv`).  `Forwarded`, `Handled`, `Taken` and `MailboxGrows` say what each kind of
  step does to a mailbox, for both.  These are the parts of `SignalEndsMain` and
  `DoneEndsMain` that need no fairness.
- **Proxy.**  `ForwardedIsKept`: the names in the header are those of the client followed by
  the peers; `FmtRead` shows that what is written is read back as the same names, whatever
  the blanks, and `LeastExists` gives the first part that has a `for=`.  `ResponseIsTrue`:
  a response that has passed a hop (`hops < at`) has been filtered, and taking out headers
  and keeping last values twice is the same as once.  `TypeCorrect` needs
  that `longest` finds a key of the map (`GreatestExists`, `MatchedType`).
- **Routing.**  `RoutedToTheLongest` and `NotFoundIsJust` relate two descriptions of a path:
  the parts the code trims and compares, and the segments of the properties.  In a tidy
  path the segments are every other part (`Halves`, `Parity`, `SegmentsAt`), trimming
  takes one slash from either end (`TrimTidy`), and so a prefix of segments is a prefix of
  parts up to a slash (`PrefixAt`).  From that `ServedByAncestor`: the key of a program is
  an ancestor of the path exactly if the program serves it, so the longest key found is
  that of the longest prefix.  `FoundRelay` goes from the entry under that key back to a
  program, whose port is the upstream; `Stripped` and `NotStripped` compute what `get` asks
  it for.
- **When the note is true.**  `TrimmedIfWrittenSo` is the other side of the finding
  `missing_slash`: no upstream is asked for a path with two slashes in front as long as no
  program has both a `path` that begins with a slash and `strip_path` off, which is how
  tests/simple.yaml differs.  Its hypothesis is about the configurations alone.  No
  assumption is made about the paths requested.

Only model-checked: the liveness properties `TerminateUnlessUnspawnable`, `DeathFollowedUp`,
`UnhealthyIsStopped`, `SignalEndsMain` and `DoneEndsMain`, because fairness and ENABLED are
beyond the prover (what they rest on without it is proved: `StopOnlyAdvances`,
`RoundsAreKept`, `SignalsAreKept`, `AnswersAreOwed`), and, of course, the four violations.

## Not modelled

- The logger is a sink that keeps nothing.  Of the log format, the width of a column is
  loaded and stored by several threads and may be set back for a line; it is layout, and
  the next line sets it again.
- Deserialisation of the configuration, the expansion of variables in it and the splitting
  of command lines are done by libraries.  The fields that matter are constants and records
  of the modules above.
- Error texts; Via, X-Forwarded-Host and X-Forwarded-Proto, which are appended or copied
  without a choice; bodies, which pass whole; values of headers that are not text, which
  the code treats as absent.
- Time in the health checks: `Caretaker` orders the answers in every way, and counts
  failures, but gives no bound in seconds on when an unresponsive program is stopped.  A
  request has no timeout of its own in the code other than the HTTP client's.
- Several requests at once in `Supervisor`, and a request there before Join is sent; the
  first adds nothing (each has channels of its own), the second is in `Startup`.
- An error of `kill()` (see Caretaker), and in `Supervisor` a health check with an illegal path.
- A composition of several complete caretakers: it is what the refinement stands for, and
  its state space is out of reach.
