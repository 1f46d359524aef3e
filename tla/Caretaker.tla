------------------------------ MODULE Caretaker ------------------------------
(***************************************************************************)
(* One CaretakerActor (src/supervisor/caretaker.rs) with everything it     *)
(* drives: the Daemon future (RepeatedActFut, futs.rs), the Run future     *)
(* (WaitAbortFut, then ensure_stop), the child process, and the            *)
(* HealthActor (health.rs) that every run of the child gets.  Around it    *)
(* stand the senders of Wait and Terminate (supervisor/mod.rs).            *)
(*                                                                         *)
(* A step is one handler call or one poll of one future.  All actors run   *)
(* on one thread, so such a step is atomic; child processes and timers are *)
(* not on that thread and move at any time.  An actor context polls its    *)
(* spawned futures only after it has drained its mailbox: the guard        *)
(* mailbox = <<>> of the Poll actions.                                     *)
(***************************************************************************)
EXTENDS RetryGuard

CONSTANTS
    HasHealthCheck, \* program.http.health_check is configured
    Interval,       \* HealthConfig.interval
    GracePeriod,    \* HealthConfig.grace_period
    Terminators,    \* the Terminate messages that may be sent, one each
    Join,           \* the Wait that the supervisor's Join sends
    MaxProbes,      \* bound: health requests in flight of one actor
    MaxMailbox      \* bound: no new health request while so many messages wait

Waiters == Terminators \cup {Join}

ASSUME CaretakerAssumption ==
    /\ HasHealthCheck \in BOOLEAN
    /\ Interval \in Nat
    /\ GracePeriod \in Nat
    /\ Join \notin Terminators
    /\ MaxProbes \in Nat
    /\ MaxMailbox \in Nat

VARIABLES
    mailbox,    \* the caretaker's mailbox
    status,     \* CaretakerActor.status; Running(h) is written h
    stop_tx,    \* "Some", "Sent" (taken by Terminate) or "None" (dropped)
    stopped_tx, \* stopped_tx is Some
    waiter,     \* for each Wait: "idle", "sent", "subscribed" or "done"
    fut,        \* Daemon: "Start", then RepeatedActFut.fut, "Ready" when resolved
    stop_rx,    \* who owns the receiver: RepeatedActFut.state, a run, nobody
    retries,    \* RetryGuard.retries, as distances from the present instant
    run,        \* Run: "None", "SpawnFailed", "WaitAbort", "Terminate", "Kill"
    abort,      \* why the child is being stopped: "No", "Stop" or "Unhealthy"
    result,     \* the RunResult on its way back to the Daemon future
    child,      \* "None", "Alive", "ExitOk", "ExitErr" (not yet reaped), "Reaped"
    gen,        \* which of the two slots of `health' the current run uses
    health,     \* the HealthActor of the current run and that of the run before
    check_legal, \* configuration: health_check.path makes a legal URI
    panicked,   \* the expect()s and unwrap()s that have failed
    lateSpawns  \* history: children spawned after a Terminate was handled

actorVars == <<status, stop_tx, stopped_tx, waiter>>
daemonVars == <<fut, stop_rx, retries>>
runVars == <<run, abort, result, child>>
healthVars == <<gen, health>>
restVars == <<check_legal, panicked, lateSpawns>>
vars == <<mailbox, actorVars, daemonVars, runVars, healthVars, restVars>>
-----------------------------------------------------------------------------
HealthState == {"Healthy", "Unhealthy", "Unknown"}
Lifecycle == {"Starting", "Terminating", "Terminated", "Failed"} \cup HealthState
RunResult == {"NormalExit", "Terminated", "Unhealthy", "Error"}
Gens == {0, 1}

Message ==
    [type : {"Run"}]
      \cup [type : {"Wait", "Terminate"}, from : Waiters]
      \cup [type : {"SetHealthState"}, health : {"Healthy", "Unhealthy"}, gen : Gens]

\* The expect()s and unwrap()s that have a way to fail.
PanicSite ==
    {"send stop signal", "no state available", "send stopped_tx signal",
     "can't be consumed twice", "notify WaitAbortFut", "health check uri must be legal"}

RunMsg == [type |-> "Run"]
WaitMsg(w) == [type |-> "Wait", from |-> w]
TerminateMsg(w) == [type |-> "Terminate", from |-> w]
SetHealthStateMsg(h, g) == [type |-> "SetHealthState", health |-> h, gen |-> g]

(***************************************************************************)
(* A HealthActor: `stop' is a StopSignal in its mailbox, `stop_tx' its     *)
(* half of the channel to WaitAbortFut, `probes' its requests in flight.   *)
(* A stopped actor is dropped, and its stop_tx with it.                    *)
(***************************************************************************)
HealthActor ==
    [state : {"Starting", "Running", "Stopped"}, stop : BOOLEAN, stop_tx : BOOLEAN,
     unhealthy_count : Nat, probes : 0..MaxProbes]

NewHealthActor ==
    [state |-> "Starting", stop |-> FALSE, stop_tx |-> TRUE,
     unhealthy_count |-> 0, probes |-> 0]

StoppedHealthActor ==
    [state |-> "Stopped", stop |-> FALSE, stop_tx |-> FALSE,
     unhealthy_count |-> 0, probes |-> 0]

\* Mutant: the limit has to be exceeded, not reached.
Exhausted_strict(count) == Interval * count > GracePeriod

\* Failed checks have used up the health check's grace period.
Exhausted(count) == Interval * count >= GracePeriod

\* What is left for the count of an actor that goes on.
Tolerated(count) == count = 0 \/ Interval * count < GracePeriod

TypeOK ==
    /\ mailbox \in Seq(Message)
    /\ status \in Lifecycle
    /\ stop_tx \in {"Some", "Sent", "None"}
    /\ stopped_tx \in BOOLEAN
    /\ waiter \in [Waiters -> {"idle", "sent", "subscribed", "done"}]
    /\ fut \in {"Start", "Empty", "Polling", "Waiting", "Ready"}
    /\ stop_rx \in {"state", "run", "dropped"}
    /\ retries \in Seq(Int)
    /\ run \in {"None", "SpawnFailed", "WaitAbort", "Terminate", "Kill"}
    /\ abort \in {"No", "Stop", "Unhealthy"}
    /\ result \in RunResult \cup {"None"}
    /\ child \in {"None", "Alive", "ExitOk", "ExitErr", "Reaped"}
    /\ gen \in Gens
    /\ health \in [Gens -> HealthActor]
    /\ \A g \in Gens : Tolerated(health[g].unhealthy_count)
    /\ check_legal \in BOOLEAN
    /\ panicked \subseteq PanicSite
    /\ lateSpawns \in Nat

Init ==
    /\ mailbox = <<>>
    /\ status = "Starting"
    /\ stop_tx = "Some"
    /\ stopped_tx = TRUE
    /\ waiter = [w \in Waiters |-> "idle"]
    /\ fut = "Start"
    /\ stop_rx = "state"
    /\ retries = <<>>
    /\ run = "None"
    /\ abort = "No"
    /\ result = "None"
    /\ child = "None"
    /\ gen = 0
    /\ health = [g \in Gens |-> StoppedHealthActor]
    /\ check_legal \in BOOLEAN
    /\ panicked = {}
    /\ lateSpawns = 0

\* An expect() or unwrap() fails.  Nothing that happens after it is modelled.
Panic(site) ==
    /\ panicked' = panicked \cup {site}
    /\ UNCHANGED <<mailbox, actorVars, daemonVars, runVars, healthVars,
                   check_legal, lateSpawns>>
-----------------------------------------------------------------------------
(***************************************************************************)
(* The supervisor: Join sends one Wait, TerminateAll (on every termination *)
(* signal) a Terminate.                                                    *)
(*                                                                         *)
(* Scheduling fact (external).  The supervisor's first poll comes after    *)
(* those of the caretakers it has started: see module Startup, where it is *)
(* derived from the order of the tasks.                                    *)
(***************************************************************************)
Started == fut # "Start"

SendJoin ==
    /\ Started /\ waiter[Join] = "idle"
    /\ waiter' = [waiter EXCEPT ![Join] = "sent"]
    /\ mailbox' = Append(mailbox, WaitMsg(Join))
    /\ UNCHANGED <<status, stop_tx, stopped_tx, daemonVars, runVars, healthVars, restVars>>

SendTerminate(t) ==
    /\ Started /\ waiter[t] = "idle"
    /\ waiter' = [waiter EXCEPT ![t] = "sent"]
    /\ mailbox' = Append(mailbox, TerminateMsg(t))
    /\ UNCHANGED <<status, stop_tx, stopped_tx, daemonVars, runVars, healthVars, restVars>>
-----------------------------------------------------------------------------
(* Handlers: the message at the head of the mailbox.                       *)

Receive(type) == mailbox # <<>> /\ Head(mailbox).type = type

(***************************************************************************)
(* Handler<Run>, the part before its future: spawn the child and start its *)
(* HealthActor, or remember the failure.                                   *)
(***************************************************************************)
SpawnCounted == lateSpawns' = IF stop_tx = "Sent" THEN lateSpawns + 1 ELSE lateSpawns

UriLegal == HasHealthCheck => check_legal

HandleRun ==
    /\ Receive("Run")
    /\ mailbox' = Tail(mailbox)
    /\ \/ /\ UriLegal
          /\ status' = IF HasHealthCheck THEN "Unknown" ELSE "Starting"
          /\ run' = "WaitAbort"
          /\ child' = "Alive"
          /\ gen' = 1 - gen
          /\ health' = [health EXCEPT ![1 - gen] = NewHealthActor]
          /\ SpawnCounted
       \/ /\ status' = "Starting"
          /\ run' = "SpawnFailed"
          /\ child' = "None"
          /\ UNCHANGED <<healthVars, lateSpawns>>
    /\ UNCHANGED <<stop_tx, stopped_tx, waiter, daemonVars, abort, result, check_legal,
                   panicked>>

(***************************************************************************)
(* Handler<Run> panics between the two: the child is there, the URI of its *)
(* check is not, and nothing holds on to the child.                        *)
(***************************************************************************)
HandleRunPanics ==
    /\ Receive("Run") /\ ~UriLegal
    /\ status' = "Unknown"
    /\ child' = "Alive"
    /\ SpawnCounted
    /\ panicked' = panicked \cup {"health check uri must be legal"}
    /\ UNCHANGED <<mailbox, stop_tx, stopped_tx, waiter, daemonVars, run, abort, result,
                   healthVars, check_legal>>

\* Mutant: the status decides, though "Terminated" is also the state between two runs.
HandleWait_status ==
    /\ Receive("Wait")
    /\ mailbox' = Tail(mailbox)
    /\ waiter' = [waiter EXCEPT ![Head(mailbox).from] =
                     IF status \in {"Terminated", "Failed"} THEN "done" ELSE "subscribed"]
    /\ UNCHANGED <<status, stop_tx, stopped_tx, daemonVars, runVars, healthVars, restVars>>

\* Handler<Wait>: subscribe while there is a sender, answer at once otherwise.
HandleWait ==
    /\ Receive("Wait")
    /\ mailbox' = Tail(mailbox)
    /\ waiter' = [waiter EXCEPT ![Head(mailbox).from] =
                     IF stopped_tx THEN "subscribed" ELSE "done"]
    /\ UNCHANGED <<status, stop_tx, stopped_tx, daemonVars, runVars, healthVars, restVars>>

\* Mutant: a Terminate after the first only signals, and is not made to wait.
HandleTerminate_first ==
    /\ Receive("Terminate")
    /\ stop_tx' = IF stop_tx = "Some" THEN "Sent" ELSE stop_tx
    /\ mailbox' = IF stop_tx = "Some"
                    THEN Append(Tail(mailbox), WaitMsg(Head(mailbox).from))
                    ELSE Tail(mailbox)
    /\ UNCHANGED <<status, stopped_tx, waiter, daemonVars, runVars, healthVars, restVars>>

(***************************************************************************)
(* Handler<Terminate>: signal through stop_tx if nobody has done so, then  *)
(* wait like a Wait: the message goes to the end of the own mailbox.       *)
(***************************************************************************)
HandleTerminate ==
    /\ Receive("Terminate")
    /\ IF stop_tx = "Some" /\ stop_rx = "dropped"
         THEN Panic("send stop signal")
         ELSE /\ stop_tx' = IF stop_tx = "Some" THEN "Sent" ELSE stop_tx
              /\ mailbox' = Append(Tail(mailbox), WaitMsg(Head(mailbox).from))
              /\ UNCHANGED <<status, stopped_tx, waiter, daemonVars, runVars,
                             healthVars, restVars>>

\* Mutant: a report is believed whatever the status.
HandleSetHealthState_always ==
    /\ Receive("SetHealthState")
    /\ mailbox' = Tail(mailbox)
    /\ status' = Head(mailbox).health
    /\ UNCHANGED <<stop_tx, stopped_tx, waiter, daemonVars, runVars, healthVars, restVars>>

\* Handler<SetHealthState>: only a starting or running program has a health.
HandleSetHealthState ==
    /\ Receive("SetHealthState")
    /\ mailbox' = Tail(mailbox)
    /\ status' = IF status \in HealthState \cup {"Starting"}
                   THEN Head(mailbox).health ELSE status
    /\ UNCHANGED <<stop_tx, stopped_tx, waiter, daemonVars, runVars, healthVars, restVars>>

HandleMessage ==
    HandleRun \/ HandleRunPanics \/ HandleWait \/ HandleTerminate \/ HandleSetHealthState
-----------------------------------------------------------------------------
(* The Daemon future.                                                      *)

(***************************************************************************)
(* FutureSlot::Empty: take the state, send Run to the own mailbox.  The    *)
(* first time it is one poll with started(), which queues the Daemon       *)
(* message, and with its handler, which installs the RepeatedActFut.       *)
(***************************************************************************)
PollEmpty ==
    /\ mailbox = <<>> /\ fut \in {"Start", "Empty"}
    /\ IF stop_rx # "state"
         THEN Panic("no state available")
         ELSE /\ fut' = "Polling"
              /\ stop_rx' = "run"
              /\ mailbox' = <<RunMsg>>
              /\ UNCHANGED <<actorVars, retries, runVars, healthVars, restVars>>

\* Mutant: broadcast_stopped() forgets to drop the stop sender.
broadcast_stopped_keep ==
    /\ stopped_tx' = FALSE
    /\ waiter' = [w \in Waiters |-> IF waiter[w] = "subscribed" THEN "done" ELSE waiter[w]]
    /\ UNCHANGED stop_tx

(***************************************************************************)
(* broadcast_stopped(): send() fails without a receiver, unwrap() without  *)
(* a sender; CanBroadcast says neither happens.                            *)
(***************************************************************************)
CanBroadcast == stopped_tx /\ \E w \in Waiters : waiter[w] = "subscribed"

broadcast_stopped ==
    /\ stopped_tx' = FALSE
    /\ waiter' = [w \in Waiters |-> IF waiter[w] = "subscribed" THEN "done" ELSE waiter[w]]
    /\ stop_tx' = IF stop_tx = "Some" THEN "None" ELSE stop_tx

\* Mutant: a stopped run is taken for one that has ended by itself.
BringsBack_always(res) == res \in RunResult

\* one_round_fut: every result but Terminated brings the stop receiver back.
BringsBack(res) == res # "Terminated"

\* The map of the Daemon handler: the future has resolved to `stopped'.
Resolve(stopped) ==
    /\ status' = IF stopped THEN status ELSE "Failed"
    /\ broadcast_stopped

(***************************************************************************)
(* FutureSlot::Polling with a RunResult: stop for good after Terminated,   *)
(* otherwise ask the RetryGuard and sleep or give up.  When the future     *)
(* resolves, the map of the Daemon handler follows in the same poll.       *)
(***************************************************************************)
PollResult ==
    /\ mailbox = <<>> /\ fut = "Polling" /\ result # "None"
    /\ LET died == BringsBack(result)
           marked == IF died THEN mark(retries, 0) ELSE retries
           again == died /\ allowed(marked)
       IN  IF ~again /\ ~CanBroadcast
             THEN Panic("send stopped_tx signal")
             ELSE /\ result' = "None"
                  /\ retries' = marked
                  /\ fut' = IF again THEN "Waiting" ELSE "Ready"
                  /\ stop_rx' = IF again THEN "state" ELSE "dropped"
                  /\ IF again THEN UNCHANGED actorVars ELSE Resolve(~died)
                  /\ UNCHANGED <<mailbox, run, abort, child, healthVars, restVars>>

(***************************************************************************)
(* Scheduling fact (external).  A StopSignal wakes its HealthActor before  *)
(* the Daemon future registers its sleep, so the FIFO run queue polls that *)
(* actor before the caretaker sees the end of the sleep.                   *)
(***************************************************************************)
StopSignalsHandled == \A g \in Gens : ~health[g].stop

\* FutureSlot::Waiting: the sleep is over.  It is not cut short by stop_tx.
PollSleep ==
    /\ mailbox = <<>> /\ fut = "Waiting"
    /\ StopSignalsHandled
    /\ fut' = "Empty"
    /\ UNCHANGED <<mailbox, actorVars, stop_rx, retries, runVars, healthVars, restVars>>

PollDaemon == PollEmpty \/ PollResult \/ PollSleep
-----------------------------------------------------------------------------
(* The Run future.                                                         *)

Exited == {"ExitOk", "ExitErr"}

\* The receivers are ready on a signal and when the sender is gone.
StopReady == stop_tx # "Some"
UnhealthyReady == ~health[gen].stop_tx

\* Mutant: the HealthActor is left running.
health_stop_skip == UNCHANGED health

\* health_addr.stop(): a StopSignal, lost on an actor that is already gone.
health_stop ==
    health' = [health EXCEPT ![gen].stop = health[gen].state # "Stopped"]

\* The future of a child that could not be spawned.
PollSpawnFailed ==
    /\ mailbox = <<>> /\ run = "SpawnFailed"
    /\ run' = "None"
    /\ result' = "Error"
    /\ status' = "Terminated"
    /\ UNCHANGED <<mailbox, stop_tx, stopped_tx, waiter, daemonVars, abort, child,
                   healthVars, restVars>>

(***************************************************************************)
(* WaitAbortFut: the stop signal wins over the unhealthy signal, and both  *)
(* over the exit of the child.  The two signals lead into ensure_stop,     *)
(* whose first poll sends SIGTERM; an exit resolves the Run future.        *)
(***************************************************************************)
PollStopSignal ==
    /\ mailbox = <<>> /\ run = "WaitAbort" /\ StopReady
    /\ run' = "Terminate"
    /\ abort' = "Stop"
    /\ stop_rx' = "dropped"
    /\ status' = "Terminating"
    /\ health_stop
    /\ UNCHANGED <<mailbox, stop_tx, stopped_tx, waiter, fut, retries, result, child,
                   gen, restVars>>

PollUnhealthySignal ==
    /\ mailbox = <<>> /\ run = "WaitAbort" /\ ~StopReady /\ UnhealthyReady
    /\ run' = "Terminate"
    /\ abort' = "Unhealthy"
    /\ status' = "Terminating"
    /\ health_stop
    /\ UNCHANGED <<mailbox, stop_tx, stopped_tx, waiter, daemonVars, result, child,
                   gen, restVars>>

\* Mutant: only a successful exit resolves the future.
PollExit_success ==
    /\ mailbox = <<>> /\ run = "WaitAbort" /\ ~StopReady /\ ~UnhealthyReady
    /\ child = "ExitOk"
    /\ run' = "None"
    /\ result' = "NormalExit"
    /\ child' = "Reaped"
    /\ status' = "Terminated"
    /\ health_stop
    /\ UNCHANGED <<mailbox, stop_tx, stopped_tx, waiter, daemonVars, abort, gen, restVars>>

PollExit ==
    /\ mailbox = <<>> /\ run = "WaitAbort" /\ ~StopReady /\ ~UnhealthyReady
    /\ child \in Exited
    /\ run' = "None"
    /\ result' = IF child = "ExitOk" THEN "NormalExit" ELSE "Error"
    /\ child' = "Reaped"
    /\ status' = "Terminated"
    /\ health_stop
    /\ UNCHANGED <<mailbox, stop_tx, stopped_tx, waiter, daemonVars, abort, gen, restVars>>

\* Mutant: the future resolves when the grace period is over, without a kill.
PollGraceOver_resolve ==
    /\ mailbox = <<>> /\ run = "Terminate" /\ child = "Alive"
    /\ run' = "None"
    /\ abort' = "No"
    /\ result' = IF abort = "Stop" THEN "Terminated" ELSE "Unhealthy"
    /\ status' = "Terminated"
    /\ UNCHANGED <<mailbox, stop_tx, stopped_tx, waiter, daemonVars, child, healthVars,
                   restVars>>

\* Mutant: the kill on timeout is missing and the wait goes on.
PollGraceOver_wait ==
    /\ mailbox = <<>> /\ run = "Terminate" /\ child = "Alive"
    /\ UNCHANGED vars

(***************************************************************************)
(* ensure_stop: the grace period is over and the child is still there:     *)
(* SIGKILL.  Assumed: it can be sent.  The code drops the error of kill(), *)
(* after which it would take a child that is still alive for gone.         *)
(***************************************************************************)
PollGraceOver ==
    /\ mailbox = <<>> /\ run = "Terminate" /\ child = "Alive"
    /\ run' = "Kill"
    /\ UNCHANGED <<mailbox, actorVars, daemonVars, abort, result, child, healthVars, restVars>>

\* Mutant: a stopped child always counts as unhealthy.
PollStopped_unhealthy ==
    /\ mailbox = <<>> /\ run \in {"Terminate", "Kill"} /\ child \in Exited
    /\ run' = "None"
    /\ abort' = "No"
    /\ result' = "Unhealthy"
    /\ child' = "Reaped"
    /\ status' = "Terminated"
    /\ UNCHANGED <<mailbox, stop_tx, stopped_tx, waiter, daemonVars, healthVars, restVars>>

\* ensure_stop is over: the child is dead and reaped.
PollStopped ==
    /\ mailbox = <<>> /\ run \in {"Terminate", "Kill"} /\ child \in Exited
    /\ run' = "None"
    /\ abort' = "No"
    /\ result' = IF abort = "Stop" THEN "Terminated" ELSE "Unhealthy"
    /\ child' = "Reaped"
    /\ status' = "Terminated"
    /\ UNCHANGED <<mailbox, stop_tx, stopped_tx, waiter, daemonVars, healthVars, restVars>>

PollRun ==
    \/ PollSpawnFailed \/ PollStopSignal \/ PollUnhealthySignal \/ PollExit
    \/ PollGraceOver \/ PollStopped
-----------------------------------------------------------------------------
(* The HealthActor of slot g.  Like every actor it drains its mailbox (the *)
(* StopSignal) before it polls its interval and its requests; started()    *)
(* comes before both.                                                      *)

HealthStarted(g) ==
    /\ health[g].state = "Starting"
    /\ health' = [health EXCEPT ![g].state = "Running"]
    /\ mailbox' = IF HasHealthCheck THEN mailbox
                  ELSE Append(mailbox, SetHealthStateMsg("Healthy", g))
    /\ UNCHANGED <<actorVars, daemonVars, runVars, gen, restVars>>

HealthStopSignal(g) ==
    /\ health[g].state = "Running" /\ health[g].stop
    /\ health' = [health EXCEPT ![g] = StoppedHealthActor]
    /\ UNCHANGED <<mailbox, actorVars, daemonVars, runVars, gen, restVars>>

HealthPolls(g) == health[g].state = "Running" /\ ~health[g].stop

\* The interval is over: another request, whether or not the last one is answered.
HealthInterval(g) ==
    /\ HealthPolls(g) /\ HasHealthCheck
    /\ health[g].probes < MaxProbes /\ Len(mailbox) < MaxMailbox
    /\ health' = [health EXCEPT ![g].probes = @ + 1]
    /\ UNCHANGED <<mailbox, actorVars, daemonVars, runVars, gen, restVars>>

HealthOk(g) ==
    /\ HealthPolls(g) /\ health[g].probes > 0
    /\ mailbox' = Append(mailbox, SetHealthStateMsg("Healthy", g))
    /\ health' = [health EXCEPT ![g].probes = @ - 1, ![g].unhealthy_count = 0]
    /\ UNCHANGED <<actorVars, daemonVars, runVars, gen, restVars>>

(***************************************************************************)
(* A failed check.  The one that uses up the grace period takes stop_tx,   *)
(* signals WaitAbortFut, which must still hold its receiver, and stops the *)
(* actor: requests in flight are never polled again.                       *)
(***************************************************************************)
HealthFail(g) ==
    LET count == health[g].unhealthy_count + 1
    IN  /\ HealthPolls(g) /\ health[g].probes > 0
        /\ IF ~Exhausted(count)
             THEN /\ health' = [health EXCEPT ![g].probes = @ - 1,
                                              ![g].unhealthy_count = count]
                  /\ mailbox' = Append(mailbox, SetHealthStateMsg("Unhealthy", g))
                  /\ UNCHANGED <<actorVars, daemonVars, runVars, gen, restVars>>
             ELSE IF ~health[g].stop_tx
             THEN Panic("can't be consumed twice")
             ELSE IF ~(run = "WaitAbort" /\ gen = g)
             THEN Panic("notify WaitAbortFut")
             ELSE /\ health' = [health EXCEPT ![g] = StoppedHealthActor]
                  /\ mailbox' = Append(mailbox, SetHealthStateMsg("Unhealthy", g))
                  /\ UNCHANGED <<actorVars, daemonVars, runVars, gen, restVars>>
-----------------------------------------------------------------------------
(* The child process and the clock (external).                             *)

\* The child ends: by itself, or because of a signal.
ChildExits ==
    /\ child = "Alive"
    /\ child' \in Exited
    /\ UNCHANGED <<mailbox, actorVars, daemonVars, run, abort, result, healthVars, restVars>>

\* A child that has got SIGKILL cannot go on: the step fairness is stated for.
ChildKilled == run = "Kill" /\ ChildExits

\* Time passes.  An instant older than the window is as good as any other such.
Tick ==
    /\ fut # "Ready"
    /\ \E i \in DOMAIN retries : retries[i] >= -ToleranceInterval
    /\ retries' = [i \in DOMAIN retries |->
                     IF retries[i] >= -ToleranceInterval THEN retries[i] - 1 ELSE retries[i]]
    /\ UNCHANGED <<mailbox, actorVars, fut, stop_rx, runVars, healthVars, restVars>>
-----------------------------------------------------------------------------
Next ==
    /\ panicked = {}
    /\ \/ SendJoin
       \/ \E t \in Terminators : SendTerminate(t)
       \/ HandleMessage
       \/ PollDaemon
       \/ PollRun
       \/ \E g \in Gens : \/ HealthStarted(g) \/ HealthStopSignal(g) \/ HealthInterval(g)
                          \/ HealthOk(g) \/ HealthFail(g)
       \/ ChildExits
       \/ Tick

Spec == Init /\ [][Next]_vars

(***************************************************************************)
(* Fairness.  Every woken task is polled (FIFO run queue) and a poll       *)
(* drains the mailbox before it polls the futures, so a future that is     *)
(* ready again and again is polled: SF, because other actors may refill    *)
(* the mailbox.  Sleeps and timeouts end, a killed child dies, Join comes. *)
(* Nothing else is assumed of the child, the checks or the signals.        *)
(***************************************************************************)
Fairness ==
    /\ WF_vars(SendJoin)
    /\ WF_vars(HandleMessage)
    /\ SF_vars(PollDaemon)
    /\ SF_vars(PollRun)
    /\ \A g \in Gens : WF_vars(HealthStarted(g)) /\ WF_vars(HealthStopSignal(g))
    /\ WF_vars(ChildKilled)

FairSpec == Spec /\ Fairness
-----------------------------------------------------------------------------
(***************************************************************************)
(* Property: of the expect()s and unwrap()s on the actors' paths only two  *)
(* can fail, each for its reason: the URI of a health check because of an  *)
(* illegal path in the configuration, the broadcast because the daemon has *)
(* resolved before Join was forwarded (run startup_request shows how).  No *)
(* stop signal goes into a dropped receiver, no unhealthy signal is sent   *)
(* twice or to a resolved WaitAbortFut, no round lacks its receiver.       *)
(***************************************************************************)
PanicExplained ==
    panicked \subseteq
        (IF UriLegal THEN {} ELSE {"health check uri must be legal"})
          \cup (IF waiter[Join] = "idle" THEN {"send stopped_tx signal"} ELSE {})

(***************************************************************************)
(* Property: a child that runs or waits to be reaped is owned by a Run     *)
(* future, and a Run future past its spawn owns one: no child is forgotten *)
(* by a timeout, a lost signal or the start of the next round.  Only a     *)
(* Handler<Run> that panics leaves the child it has spawned to itself.     *)
(***************************************************************************)
HasChild == child \in {"Alive"} \cup Exited

ChildOwned == panicked = {} => (HasChild <=> run \in {"WaitAbort", "Terminate", "Kill"})

(***************************************************************************)
(* Property: what GetStatus answers matches the futures: Running(_) while  *)
(* the child is waited for, Terminating while it is being stopped,         *)
(* Terminated and Failed only without a child, Failed only for good.  An   *)
(* actor that has panicked answers no GetStatus.                           *)
(***************************************************************************)
StatusHonest ==
    panicked = {} =>
        /\ status \in HealthState => run = "WaitAbort"
        /\ status = "Terminating" <=> run \in {"Terminate", "Kill"}
        /\ status \in {"Terminated", "Failed"} => run = "None" /\ child \in {"None", "Reaped"}
        /\ status = "Failed" => fut = "Ready"
        /\ fut = "Ready" => status \in {"Terminated", "Failed"}

(***************************************************************************)
(* Property: Wait and Terminate are answered only when the daemon is done  *)
(* and the child is gone, and nobody stays subscribed after that.          *)
(***************************************************************************)
WaitMeansGone ==
    \A w \in Waiters :
        /\ waiter[w] = "done" => fut = "Ready" /\ child \in {"None", "Reaped"}
        /\ waiter[w] = "subscribed" => fut # "Ready"

(***************************************************************************)
(* Property: the verdict is final.  Once the daemon has resolved, no late  *)
(* health report, Wait or Terminate changes the status or starts a child.  *)
(***************************************************************************)
VerdictFinal ==
    [][fut = "Ready" => UNCHANGED <<fut, status, child, run>>]_vars

(***************************************************************************)
(* Property: a health report changes the status only if it comes from the  *)
(* HealthActor of the current run: a report of an earlier child is never   *)
(* taken for the new one.                                                  *)
(***************************************************************************)
ReportsFresh ==
    [][status' # status /\ status' \in {"Healthy", "Unhealthy"}
          => Head(mailbox).gen = gen]_vars

(***************************************************************************)
(* Property: a Terminate costs at most one more child: the one that is     *)
(* spawned when it arrives between two runs, only to be stopped.           *)
(***************************************************************************)
AtMostOneLateSpawn == lateSpawns <= 1

(***************************************************************************)
(* Property: no request is lost and none is answered twice.  A Wait or     *)
(* Terminate that is not yet subscribed or answered is in the mailbox,     *)
(* once, also while Terminate is turned into a Wait and sent again.        *)
(***************************************************************************)
RequestsOf(w) == {i \in DOMAIN mailbox : mailbox[i] \in {WaitMsg(w), TerminateMsg(w)}}

RequestKept ==
    \A w \in Waiters :
        IF waiter[w] = "sent" THEN \E i \in DOMAIN mailbox : RequestsOf(w) = {i}
        ELSE RequestsOf(w) = {}

(***************************************************************************)
(* Property: the Daemon future never waits for nothing.  Its round is in   *)
(* one place, a Run message, a Run future or a result, and the receiver of *)
(* the stop signal is with the round, back in the state, or used up by the *)
(* stop that ends the daemon.                                              *)
(***************************************************************************)
RoundKept ==
    LET asked == \E i \in DOMAIN mailbox : mailbox[i] = RunMsg
        stopped == \/ fut = "Ready" \/ result = "Terminated"
                   \/ run \in {"Terminate", "Kill"} /\ abort = "Stop"
    IN  /\ fut = "Polling" <=> asked \/ run # "None" \/ result # "None"
        /\ ~(asked /\ run # "None") /\ ~(asked /\ result # "None")
        /\ ~(run # "None" /\ result # "None")
        /\ stop_rx = CASE stopped -> "dropped"
                       [] ~stopped /\ fut = "Polling" -> "run"
                       [] OTHER -> "state"

(***************************************************************************)
(* Property: a signalled daemon only moves towards its end: every step of  *)
(* its futures brings it nearer, at most ten of them are left, and only a  *)
(* spawn that fails throws it back.  An exit or an unhealthy signal that   *)
(* comes at the same time as the stop never starts another round.          *)
(***************************************************************************)
StepsToEnd ==
    CASE fut = "Ready" -> 0
      [] result = "Terminated" -> 1
      [] run = "Kill" /\ abort = "Stop" -> 2
      [] run = "Terminate" /\ abort = "Stop" -> 3
      [] run = "WaitAbort" -> 4
      [] fut = "Polling" /\ run = "None" /\ result = "None" -> 5
      [] fut \in {"Start", "Empty"} -> 6
      [] fut = "Waiting" -> 7
      [] result \in RunResult \ {"Terminated"} -> 8
      [] run = "SpawnFailed" \/ (run = "Kill" /\ abort = "Unhealthy") -> 9
      [] run = "Terminate" /\ abort = "Unhealthy" -> 10

StopAdvances ==
    [][stop_tx = "Sent" /\ ~(run # "SpawnFailed" /\ run' = "SpawnFailed")
          => UNCHANGED <<fut, run, result>> \/ StepsToEnd' < StepsToEnd]_vars

(***************************************************************************)
(* Property (of the doc comment of Daemon, "Keep the program running until *)
(* retry limits reached or terminate signal received"): no child is        *)
(* spawned once the signal is there.  SleepSpec has the behaviours in      *)
(* which the signal is sent while the future sleeps between two runs, and  *)
(* Join waits by then, as it does after an ordinary start.                 *)
(***************************************************************************)
NoSpawnAfterStop ==
    [][stop_tx = "Sent" => ~(child # "Alive" /\ child' = "Alive")]_vars

StopInSleep ==
    stop_tx = "Some" /\ stop_tx' = "Sent" => fut = "Waiting" /\ waiter[Join] = "subscribed"

SleepSpec == Init /\ [][Next /\ StopInSleep]_vars

(***************************************************************************)
(* Property (of the same doc comment, and of that of Terminate, "Send      *)
(* terminate signal to child, and wait until it exits"): every Terminate   *)
(* is answered, whatever the child does, unless the actor panics.          *)
(***************************************************************************)
TerminateCompletes ==
    \A t \in Terminators : waiter[t] = "sent" ~> waiter[t] = "done" \/ panicked # {}

(***************************************************************************)
(* Property: what does hold of it.  Every Terminate is answered, also by a *)
(* program that ignores SIGTERM, crashes or is restarting, unless the      *)
(* program can not be spawned again and again: the future of a failed      *)
(* spawn does not look at the stop signal.                                 *)
(***************************************************************************)
TerminateUnlessUnspawnable ==
    <>[](run # "SpawnFailed") => TerminateCompletes

(***************************************************************************)
(* Property: the death of a child is followed by a new attempt to run it   *)
(* or by the end of the daemon, unless the actor panics.                   *)
(***************************************************************************)
DeathFollowedUp ==
    child \in Exited ~> child \in {"Alive", "None"} \/ fut = "Ready" \/ panicked # {}

(***************************************************************************)
(* Property: a child whose checks have used up the grace period is gone in *)
(* the end, even if it ignores SIGTERM.                                    *)
(***************************************************************************)
UnhealthyIsStopped ==
    (run = "WaitAbort" /\ UnhealthyReady) ~> run = "None"
-----------------------------------------------------------------------------
(***************************************************************************)
(* The refinement mapping: how far a stop has got is a question of who     *)
(* holds the two ends of its channel.                                      *)
(***************************************************************************)
AbstractStop ==
    CASE stop_tx = "Sent" /\ stop_rx = "dropped" -> "Consumed"
      [] stop_tx = "Sent" /\ stop_rx # "dropped" -> "Signalled"
      [] OTHER -> IF \E t \in Terminators : waiter[t] # "idle" THEN "Asked" ELSE "No"

AbstractWaits ==
    [w \in Waiters |-> IF waiter[w] = "subscribed" THEN "sent" ELSE waiter[w]]

Program == INSTANCE SupervisedProgram WITH
    child <- HasChild,
    done <- fut = "Ready",
    stop <- AbstractStop,
    waits <- AbstractWaits

(***************************************************************************)
(* Property: seen from outside, a caretaker with its futures, retries and  *)
(* health checks is a SupervisedProgram: the status moves only along its   *)
(* life cycle, a consumed stop is never followed by a child, a signalled   *)
(* child is stopped and does not just end, Waits are answered at the end.  *)
(***************************************************************************)
ImplementsProgram == Program!Spec
=============================================================================
