--------------------------- MODULE CaretakerProofs ---------------------------
(***************************************************************************)
(* Proofs about Caretaker, for every set of Terminate senders, every retry *)
(* and health check configuration, and with or without a health check.     *)
(***************************************************************************)
EXTENDS Caretaker, RetryGuardProofs

LEMMA HealthActorTypes ==
    /\ NewHealthActor \in HealthActor
    /\ StoppedHealthActor \in HealthActor
  BY CaretakerAssumption DEF NewHealthActor, StoppedHealthActor, HealthActor

LEMMA MessageTypes ==
    /\ RunMsg \in Message
    /\ \A w \in Waiters : WaitMsg(w) \in Message /\ TerminateMsg(w) \in Message
    /\ \A h \in {"Healthy", "Unhealthy"}, g \in Gens : SetHealthStateMsg(h, g) \in Message
    /\ \A m \in Message :
         /\ m.type \in {"Wait", "Terminate"} => m.from \in Waiters
         /\ m.type = "SetHealthState" => m.health \in {"Healthy", "Unhealthy"} /\ m.gen \in Gens
  BY DEF Message, RunMsg, WaitMsg, TerminateMsg, SetHealthStateMsg

(***************************************************************************)
(* The updates of a HealthActor.                                           *)
(***************************************************************************)
LEMMA HealthUpdates ==
    ASSUME NEW h \in HealthActor
    PROVE  /\ h.unhealthy_count \in Nat /\ h.probes \in 0..MaxProbes
           /\ \A b \in BOOLEAN :
                /\ [h EXCEPT !.stop = b] \in HealthActor
                /\ [h EXCEPT !.stop = b].unhealthy_count = h.unhealthy_count
           /\ [h EXCEPT !.state = "Running"] \in HealthActor
           /\ [h EXCEPT !.state = "Running"].unhealthy_count = h.unhealthy_count
           /\ \A n \in 0..MaxProbes :
                /\ [h EXCEPT !.probes = n] \in HealthActor
                /\ [h EXCEPT !.probes = n].unhealthy_count = h.unhealthy_count
  BY DEF HealthActor

(***************************************************************************)
(* A handler takes a message of Message out of a mailbox of such.          *)
(***************************************************************************)
LEMMA Received ==
    ASSUME mailbox \in Seq(Message), mailbox # <<>>
    PROVE  /\ Head(mailbox) \in Message
           /\ Tail(mailbox) \in Seq(Message)
           /\ \A m \in Message : Append(Tail(mailbox), m) \in Seq(Message)
  OBVIOUS

LEMMA Sent ==
    ASSUME mailbox \in Seq(Message), NEW m \in Message
    PROVE  Append(mailbox, m) \in Seq(Message) /\ <<m>> \in Seq(Message)
  OBVIOUS

(***************************************************************************)
(* Replacing one HealthActor by another that may go on.                    *)
(***************************************************************************)
LEMMA HealthReplaced ==
    ASSUME TypeOK, NEW g \in Gens, NEW h \in HealthActor, Tolerated(h.unhealthy_count)
    PROVE  LET new == [health EXCEPT ![g] = h]
           IN  /\ new \in [Gens -> HealthActor]
               /\ \A k \in Gens : Tolerated(new[k].unhealthy_count)
  BY DEF TypeOK

LEMMA FreshTolerated ==
    Tolerated(0) /\ Tolerated(NewHealthActor.unhealthy_count)
      /\ Tolerated(StoppedHealthActor.unhealthy_count)
  BY DEF Tolerated, NewHealthActor, StoppedHealthActor

LEMMA PanicTypes ==
    ASSUME TypeOK, NEW site \in PanicSite, Panic(site)
    PROVE  TypeOK'
  BY DEF Panic, TypeOK, actorVars, daemonVars, runVars, healthVars

LEMMA TypeHandlers ==
    ASSUME TypeOK, HandleMessage
    PROVE  TypeOK'
<1> USE DEF actorVars, daemonVars, runVars, healthVars, restVars, Receive
<1>1. CASE HandleRun
  <2>1. /\ mailbox' \in Seq(Message) /\ status' \in Lifecycle
        /\ run' \in {"None", "SpawnFailed", "WaitAbort", "Terminate", "Kill"}
        /\ child' \in {"None", "Alive", "ExitOk", "ExitErr", "Reaped"} /\ lateSpawns' \in Nat
    BY <1>1, Received DEF HandleRun, SpawnCounted, TypeOK, Lifecycle, HealthState
  <2>2. 1 - gen \in Gens
    BY DEF TypeOK, Gens
  <2>3. /\ gen' \in Gens /\ health' \in [Gens -> HealthActor]
        /\ \A k \in Gens : Tolerated(health'[k].unhealthy_count)
    <3>1. CASE UNCHANGED healthVars
      BY <3>1 DEF TypeOK
    <3>2. CASE gen' = 1 - gen /\ health' = [health EXCEPT ![1 - gen] = NewHealthActor]
      BY <3>2, <2>2, HealthActorTypes, FreshTolerated, HealthReplaced
    <3> QED
      BY <1>1, <3>1, <3>2 DEF HandleRun
  <2> QED
    BY <1>1, <2>1, <2>3 DEF HandleRun, TypeOK
<1>2. CASE HandleWait
  BY <1>2, Received, MessageTypes DEF HandleWait, TypeOK
<1>3. CASE HandleTerminate
  <2>1. CASE ~(stop_tx = "Some" /\ stop_rx = "dropped")
    <3>1. mailbox' \in Seq(Message)
      <4>1. Head(mailbox).from \in Waiters /\ mailbox # <<>> /\ mailbox \in Seq(Message)
        BY <1>3, Received, MessageTypes DEF HandleTerminate, TypeOK
      <4>2. mailbox' = Append(Tail(mailbox), WaitMsg(Head(mailbox).from))
        BY <1>3, <2>1 DEF HandleTerminate
      <4>3. WaitMsg(Head(mailbox).from) \in Message
        BY <4>1, MessageTypes
      <4> QED
        BY <4>1, <4>2, <4>3, Received
    <3> QED
      <4>1. stop_tx' \in {"Some", "Sent", "None"}
        BY <1>3, <2>1 DEF HandleTerminate, TypeOK
      <4>2. UNCHANGED <<status, stopped_tx, waiter, daemonVars, runVars, healthVars,
                        restVars>>
        BY <1>3, <2>1 DEF HandleTerminate
      <4> QED
        BY <3>1, <4>1, <4>2 DEF TypeOK
  <2>2. CASE Panic("send stop signal")
    BY <2>2, PanicTypes DEF PanicSite
  <2> QED
    BY <1>3, <2>1, <2>2 DEF HandleTerminate
<1>4. CASE HandleSetHealthState
  BY <1>4, Received, MessageTypes DEF HandleSetHealthState, TypeOK, Lifecycle, HealthState
<1>5. CASE HandleRunPanics
  <2>1. lateSpawns' \in Nat
    <3>1. SpawnCounted
      BY <1>5 DEF HandleRunPanics
    <3> QED
      BY <3>1 DEF SpawnCounted, TypeOK
  <2>2. panicked' \subseteq PanicSite
    BY <1>5 DEF HandleRunPanics, PanicSite, TypeOK
  <2>3. status' \in Lifecycle /\ child' = "Alive"
    BY <1>5 DEF HandleRunPanics, Lifecycle, HealthState
  <2> QED
    <3>1. UNCHANGED <<mailbox, stop_tx, stopped_tx, waiter, daemonVars, run, abort, result,
                      healthVars, check_legal>>
      BY <1>5 DEF HandleRunPanics
    <3> QED
      BY <2>1, <2>2, <2>3, <3>1 DEF TypeOK
<1> QED
  BY <1>1, <1>2, <1>3, <1>4, <1>5 DEF HandleMessage

LEMMA TypePollDaemon ==
    ASSUME TypeOK, PollDaemon
    PROVE  TypeOK'
<1> USE DEF actorVars, daemonVars, runVars, healthVars, restVars
<1>1. CASE PollSleep
  BY <1>1 DEF PollSleep, TypeOK
<1>2. CASE PollEmpty
  <2>1. <<RunMsg>> \in Seq(Message)
    BY MessageTypes
  <2>2. CASE Panic("no state available")
    BY <2>2, PanicTypes DEF PanicSite
  <2> QED
    BY <1>2, <2>1, <2>2 DEF PollEmpty, TypeOK
<1>3. CASE PollResult
  <2>1. mark(retries, 0) \in Seq(Int)
    BY MarkSuffix DEF TypeOK
  <2>2. CASE Panic("send stopped_tx signal")
    BY <2>2, PanicTypes DEF PanicSite
  <2>3. CASE ~Panic("send stopped_tx signal")
    <3>1. retries' \in Seq(Int)
      BY <1>3, <2>1, <2>3 DEF PollResult, BringsBack, TypeOK
    <3>2. /\ stop_tx' \in {"Some", "Sent", "None"} /\ stopped_tx' \in BOOLEAN
          /\ waiter' \in [Waiters -> {"idle", "sent", "subscribed", "done"}]
      BY <1>3, <2>3 DEF PollResult, Resolve, broadcast_stopped, TypeOK
    <3>3. /\ fut' \in {"Start", "Empty", "Polling", "Waiting", "Ready"}
          /\ stop_rx' \in {"state", "run", "dropped"}
          /\ status' \in Lifecycle /\ result' \in RunResult \cup {"None"}
      BY <1>3, <2>3 DEF PollResult, Resolve, Lifecycle, TypeOK
    <3> QED
      BY <1>3, <2>3, <3>1, <3>2, <3>3 DEF PollResult, TypeOK
  <2> QED
    BY <2>2, <2>3
<1> QED
  BY <1>1, <1>2, <1>3 DEF PollDaemon

LEMMA TypePollRun ==
    ASSUME TypeOK, PollRun
    PROVE  TypeOK'
<1> USE DEF actorVars, daemonVars, healthVars, restVars
<1>1. CASE PollSpawnFailed \/ PollGraceOver \/ PollStopped
  BY <1>1 DEF PollSpawnFailed, PollGraceOver, PollStopped, TypeOK, Lifecycle, RunResult
<1>2. ASSUME health_stop
      PROVE  /\ health' \in [Gens -> HealthActor]
             /\ \A k \in Gens : Tolerated(health'[k].unhealthy_count)
  <2> DEFINE h == [health[gen] EXCEPT !.stop = health[gen].state # "Stopped"]
  <2>1. gen \in Gens /\ health[gen] \in HealthActor /\ Tolerated(health[gen].unhealthy_count)
    BY DEF TypeOK
  <2>2. h \in HealthActor /\ h.unhealthy_count = health[gen].unhealthy_count
    BY <2>1, HealthUpdates
  <2>3. health' = [health EXCEPT ![gen] = h]
    BY <1>2, <2>1 DEF health_stop, TypeOK
  <2> HIDE DEF h
  <2> QED
    BY <2>1, <2>2, <2>3, HealthReplaced
<1>3. CASE PollStopSignal
  BY <1>2, <1>3 DEF PollStopSignal, TypeOK, Lifecycle
<1>4. CASE PollUnhealthySignal
  BY <1>2, <1>4 DEF PollUnhealthySignal, TypeOK, Lifecycle
<1>5. CASE PollExit
  BY <1>2, <1>5 DEF PollExit, TypeOK, Lifecycle, RunResult
<1> QED
  BY <1>1, <1>3, <1>4, <1>5 DEF PollRun

LEMMA TypeHealth ==
    ASSUME TypeOK, NEW g \in Gens,
           HealthStarted(g) \/ HealthStopSignal(g) \/ HealthInterval(g) \/ HealthOk(g)
             \/ HealthFail(g)
    PROVE  TypeOK'
<1> USE DEF actorVars, daemonVars, runVars, restVars, HealthPolls
<1>0. health[g] \in HealthActor /\ Tolerated(health[g].unhealthy_count)
  BY DEF TypeOK
<1>1. CASE HealthStarted(g)
  <2>1. mailbox' \in Seq(Message)
    BY <1>1, MessageTypes, Sent DEF HealthStarted, TypeOK
  <2>2. health' = [health EXCEPT ![g] = [health[g] EXCEPT !.state = "Running"]]
    BY <1>1 DEF HealthStarted, TypeOK
  <2>3. TypeOK' <=> /\ health' \in [Gens -> HealthActor]
                    /\ \A k \in Gens : Tolerated(health'[k].unhealthy_count)
    BY <1>1, <2>1 DEF HealthStarted, TypeOK
  <2> QED
    BY <1>0, <2>2, <2>3, HealthUpdates, HealthReplaced
<1>2. CASE HealthStopSignal(g)
  <2>1. TypeOK' <=> /\ health' \in [Gens -> HealthActor]
                    /\ \A k \in Gens : Tolerated(health'[k].unhealthy_count)
    BY <1>2 DEF HealthStopSignal, TypeOK
  <2> QED
    BY <1>2, <2>1, HealthActorTypes, FreshTolerated, HealthReplaced DEF HealthStopSignal
<1>3. CASE HealthInterval(g)
  <2>1. health' = [health EXCEPT ![g] = [health[g] EXCEPT !.probes = health[g].probes + 1]]
    BY <1>3 DEF HealthInterval, TypeOK
  <2>2. health[g].probes + 1 \in 0..MaxProbes
    <3>1. health[g].probes < MaxProbes
      BY <1>3 DEF HealthInterval
    <3>2. health[g].probes \in 0..MaxProbes
      BY <1>0, HealthUpdates
    <3> QED
      BY <3>1, <3>2, CaretakerAssumption
  <2>3. TypeOK' <=> /\ health' \in [Gens -> HealthActor]
                    /\ \A k \in Gens : Tolerated(health'[k].unhealthy_count)
    BY <1>3 DEF HealthInterval, TypeOK
  <2> QED
    BY <1>0, <2>1, <2>2, <2>3, HealthUpdates, HealthReplaced
<1>4. CASE HealthOk(g)
  <2>1. health' = [health EXCEPT ![g] =
                     [health[g] EXCEPT !.probes = health[g].probes - 1, !.unhealthy_count = 0]]
    BY <1>4 DEF HealthOk, TypeOK
  <2>2. health[g].probes - 1 \in 0..MaxProbes
    <3>1. health[g].probes > 0
      BY <1>4 DEF HealthOk
    <3>2. health[g].probes \in 0..MaxProbes
      BY <1>0, HealthUpdates
    <3> QED
      BY <3>1, <3>2, CaretakerAssumption
  <2>3. mailbox' \in Seq(Message)
    BY <1>4, MessageTypes, Sent DEF HealthOk, TypeOK
  <2>4. TypeOK' <=> /\ health' \in [Gens -> HealthActor]
                    /\ \A k \in Gens : Tolerated(health'[k].unhealthy_count)
    BY <1>4, <2>3 DEF HealthOk, TypeOK
  <2> DEFINE h == [health[g] EXCEPT !.probes = health[g].probes - 1, !.unhealthy_count = 0]
  <2>5. h \in HealthActor /\ h.unhealthy_count = 0
    BY <1>0, <2>2 DEF HealthActor
  <2>6. health' = [health EXCEPT ![g] = h]
    BY <2>1
  <2> HIDE DEF h
  <2> QED
    BY <2>4, <2>5, <2>6, HealthReplaced, FreshTolerated
<1>5. CASE HealthFail(g)
  <2> DEFINE count == health[g].unhealthy_count + 1
  <2>1. CASE /\ mailbox' = Append(mailbox, SetHealthStateMsg("Unhealthy", g))
             /\ UNCHANGED <<actorVars, daemonVars, runVars, gen, restVars>>
             /\ \/ /\ ~Exhausted(count)
                   /\ health' = [health EXCEPT ![g].probes = @ - 1,
                                               ![g].unhealthy_count = count]
                \/ health' = [health EXCEPT ![g] = StoppedHealthActor]
    <3>1. mailbox' \in Seq(Message)
      BY <2>1, MessageTypes, Sent DEF TypeOK
    <3>2. TypeOK' <=> /\ health' \in [Gens -> HealthActor]
                      /\ \A k \in Gens : Tolerated(health'[k].unhealthy_count)
      BY <2>1, <3>1 DEF TypeOK
    <3>3. CASE /\ ~Exhausted(count)
               /\ health' = [health EXCEPT ![g].probes = @ - 1, ![g].unhealthy_count = count]
      <4>1. health' = [health EXCEPT ![g] = [health[g] EXCEPT
                         !.probes = health[g].probes - 1, !.unhealthy_count = count]]
        BY <3>3 DEF TypeOK
      <4>2. health[g].probes - 1 \in 0..MaxProbes /\ count \in Nat
        <5>1. health[g].probes > 0
          BY <1>5 DEF HealthFail
        <5>2. health[g].probes \in 0..MaxProbes /\ health[g].unhealthy_count \in Nat
          BY <1>0, HealthUpdates
        <5> QED
          BY <5>1, <5>2, CaretakerAssumption
      <4>3. Tolerated(count)
        BY <3>3, <4>2, CaretakerAssumption DEF Exhausted, Tolerated
      <4> HIDE DEF count
      <4> DEFINE h == [health[g] EXCEPT !.probes = health[g].probes - 1,
                                        !.unhealthy_count = count]
      <4>4. h \in HealthActor /\ h.unhealthy_count = count
        BY <1>0, <4>2 DEF HealthActor
      <4>5. health' = [health EXCEPT ![g] = h]
        BY <4>1
      <4> HIDE DEF h
      <4> QED
        BY <3>2, <4>3, <4>4, <4>5, HealthReplaced
    <3>4. CASE health' = [health EXCEPT ![g] = StoppedHealthActor]
      BY <3>2, <3>4, HealthActorTypes, FreshTolerated, HealthReplaced
    <3> QED
      BY <2>1, <3>3, <3>4
  <2>2. CASE Panic("can't be consumed twice") \/ Panic("notify WaitAbortFut")
    BY <2>2, PanicTypes DEF PanicSite
  <2> QED
    BY <1>5, <2>1, <2>2 DEF HealthFail
<1> QED
  BY <1>1, <1>2, <1>3, <1>4, <1>5

LEMMA TypeStep ==
    ASSUME TypeOK, [Next]_vars
    PROVE  TypeOK'
<1> USE DEF actorVars, daemonVars, runVars, healthVars, restVars
<1>1. CASE SendJoin
  BY <1>1, MessageTypes, Sent DEF SendJoin, TypeOK, Waiters
<1>2. ASSUME NEW t \in Terminators, SendTerminate(t)
      PROVE  TypeOK'
  BY <1>2, MessageTypes, Sent DEF SendTerminate, TypeOK, Waiters
<1>3. CASE ChildExits
  BY <1>3 DEF ChildExits, Exited, TypeOK
<1>4. CASE Tick
  <2>1. retries' \in Seq(Int)
    <3>1. retries' \in [1..Len(retries) -> Int] /\ Len(retries) \in Nat
      BY <1>4, RetryAssumption DEF Tick, TypeOK
    <3> QED
      BY <3>1, SeqDef
  <2> QED
    BY <1>4, <2>1 DEF Tick, TypeOK
<1>5. CASE UNCHANGED vars
  BY <1>5 DEF vars, TypeOK
<1> QED
  BY <1>1, <1>2, <1>3, <1>4, <1>5, TypeHandlers, TypePollDaemon, TypePollRun, TypeHealth
     DEF Next

(***************************************************************************)
(* Theorem: every variable keeps its type; in particular a HealthActor     *)
(* that goes on has not used up the grace period of its checks.            *)
(***************************************************************************)
THEOREM TypeCorrect == Spec => []TypeOK
<1>1. Init => TypeOK
  BY HealthActorTypes, FreshTolerated DEF Init, TypeOK, Lifecycle, Waiters, Gens
<1> QED
  BY <1>1, TypeStep, PTL DEF Spec
-----------------------------------------------------------------------------
(***************************************************************************)
(* The inductive invariant.  The properties speak about one moment each;   *)
(* what ties the moments together is where the stop receiver is, in which  *)
(* phase of a round the futures are, and what can still be in the mailbox. *)
(***************************************************************************)

\* A round has been asked for, but its child is not there yet.
AwaitingRun == fut = "Polling" /\ run = "None" /\ result = "None"

\* No HealthActor lives, and none of their reports is on its way.
Quiet == fut \in {"Start", "Empty"} \/ AwaitingRun \/ run = "SpawnFailed"

\* Only a receiver that is still needed is kept, and only Ready ends the broadcast.
ChannelInv ==
    /\ stop_rx = "dropped" => stop_tx # "Some"
    /\ fut \in {"Start", "Empty", "Waiting"} => stop_rx = "state"
    /\ stopped_tx <=> fut # "Ready"

\* The Run future, its result and the Daemon future take turns.
PhaseInv ==
    /\ run # "None" => fut = "Polling" /\ result = "None"
    /\ result # "None" => fut = "Polling" /\ status = "Terminated"
    /\ status = "Starting" => Quiet \/ run = "WaitAbort"

\* After a late spawn the round can only end in "Terminated", and no other follows.
LateInv ==
    \/ lateSpawns = 0
    \/ /\ lateSpawns = 1 /\ stop_tx = "Sent"
       /\ \/ run = "WaitAbort"
          \/ run \in {"Terminate", "Kill"} /\ abort = "Stop"
          \/ result = "Terminated"
          \/ fut = "Ready"

\* One HealthActor at a time; one without a StopSignal has its WaitAbortFut.
ActorInv ==
    \A g \in Gens : health[g].state # "Stopped" =>
        /\ g = gen /\ health[g].stop_tx /\ ~Quiet
        /\ health[g].stop \/ run = "WaitAbort"

\* Run is alone at the head, reports are of the current run, the Wait of Join is not lost.
MailInv ==
    /\ \A i \in 1..Len(mailbox) :
          /\ mailbox[i].type = "Run" => i = 1 /\ AwaitingRun
          /\ mailbox[i].type = "SetHealthState" => mailbox[i].gen = gen /\ ~Quiet
    /\ waiter[Join] = "sent" => \E i \in 1..Len(mailbox) : mailbox[i] = WaitMsg(Join)

IInv ==
    /\ ChannelInv /\ PhaseInv /\ LateInv /\ ActorInv /\ MailInv
    /\ panicked = {} /\ ChildOwned /\ StatusHonest /\ WaitMeansGone

\* What an actor that panics leaves behind is of no further use to anybody.
Calm == panicked = {} => IInv

(***************************************************************************)
(* What keeps MailInv when a message comes, goes, or does both.            *)
(***************************************************************************)
LEMMA MailSent ==
    ASSUME TypeOK, MailInv, NEW m \in Message, mailbox' = Append(mailbox, m),
           m.type # "Run", m.type = "SetHealthState" => m.gen = gen /\ ~Quiet',
           gen' = gen, AwaitingRun => AwaitingRun', Quiet' => Quiet,
           waiter'[Join] = "sent" => waiter[Join] = "sent" \/ m = WaitMsg(Join)
    PROVE  MailInv'
<1> DEFINE n == Len(mailbox)
<1>1. /\ n \in Nat /\ Len(mailbox') = n + 1 /\ mailbox'[n + 1] = m
      /\ \A i \in 1..n : mailbox'[i] = mailbox[i]
  BY DEF TypeOK
<1> HIDE DEF n
<1>2. ASSUME NEW i \in 1..(n + 1)
      PROVE  /\ mailbox'[i].type = "Run" => i = 1 /\ AwaitingRun'
             /\ mailbox'[i].type = "SetHealthState" => mailbox'[i].gen = gen /\ ~Quiet'
  <2>1. CASE i = n + 1
    BY <2>1, <1>1
  <2>2. CASE i \in 1..n
    BY <2>2, <1>1 DEF MailInv, n
  <2> QED
    BY <2>1, <2>2, <1>1
<1>3. ASSUME waiter'[Join] = "sent"
      PROVE  \E i \in 1..(n + 1) : mailbox'[i] = WaitMsg(Join)
  <2>1. CASE m = WaitMsg(Join)
    BY <2>1, <1>1
  <2>2. CASE waiter[Join] = "sent"
    <3>1. PICK i \in 1..n : mailbox[i] = WaitMsg(Join)
      BY <2>2 DEF MailInv, n
    <3> QED
      BY <3>1, <1>1
  <2> QED
    BY <1>3, <2>1, <2>2
<1>4. WaitMsg(Join)' = WaitMsg(Join)
  BY DEF WaitMsg
<1> QED
  BY <1>1, <1>2, <1>3, <1>4 DEF MailInv

LEMMA MailReceived ==
    ASSUME TypeOK, MailInv, mailbox # <<>>, mailbox' = Tail(mailbox),
           Quiet \/ (gen' = gen /\ (Quiet' => Quiet)),
           waiter'[Join] = "sent" => waiter[Join] = "sent" /\ Head(mailbox) # WaitMsg(Join)
    PROVE  MailInv'
<1> DEFINE n == Len(mailbox)
<1>1. /\ n \in Nat \ {0} /\ Len(mailbox') = n - 1 /\ mailbox[1] = Head(mailbox)
      /\ \A i \in 1..(n - 1) : mailbox'[i] = mailbox[i + 1]
  BY DEF TypeOK
<1> HIDE DEF n
<1>2. ASSUME NEW i \in 1..(n - 1)
      PROVE  /\ mailbox'[i].type # "Run"
             /\ mailbox'[i].type = "SetHealthState" => mailbox'[i].gen = gen' /\ ~Quiet'
  <2>1. i + 1 \in 1..n /\ i + 1 # 1 /\ mailbox'[i] = mailbox[i + 1]
    BY <1>1
  <2> QED
    BY <2>1 DEF MailInv, n
<1>3. ASSUME waiter'[Join] = "sent"
      PROVE  \E i \in 1..(n - 1) : mailbox'[i] = WaitMsg(Join)
  <2>1. PICK j \in 1..n : mailbox[j] = WaitMsg(Join)
    BY <1>3 DEF MailInv, n
  <2>2. j # 1
    BY <1>1, <1>3, <2>1
  <2>3. j - 1 \in 1..(n - 1) /\ (j - 1) + 1 = j
    BY <1>1, <2>1, <2>2
  <2> QED
    BY <1>1, <2>1, <2>3
<1>4. WaitMsg(Join)' = WaitMsg(Join)
  BY DEF WaitMsg
<1> QED
  BY <1>1, <1>2, <1>3, <1>4 DEF MailInv

LEMMA MailRequeued ==
    ASSUME TypeOK, MailInv, mailbox # <<>>, NEW w, mailbox' = Append(Tail(mailbox), WaitMsg(w)),
           Head(mailbox).type = "Terminate",
           UNCHANGED <<fut, run, result, gen, waiter>>
    PROVE  MailInv'
<1> DEFINE n == Len(mailbox)
<1>1. /\ n \in Nat \ {0} /\ Len(mailbox') = n /\ mailbox'[n] = WaitMsg(w)
      /\ mailbox[1] = Head(mailbox)
      /\ \A i \in 1..(n - 1) : mailbox'[i] = mailbox[i + 1]
  BY DEF TypeOK
<1> HIDE DEF n
<1>2. (Quiet' <=> Quiet) /\ (AwaitingRun' <=> AwaitingRun) /\ WaitMsg(Join)' = WaitMsg(Join)
  BY DEF Quiet, AwaitingRun, WaitMsg
<1>3. ASSUME NEW i \in 1..n
      PROVE  /\ mailbox'[i].type # "Run"
             /\ mailbox'[i].type = "SetHealthState" => mailbox'[i].gen = gen' /\ ~Quiet'
  <2>1. CASE i = n
    BY <2>1, <1>1 DEF WaitMsg
  <2>2. CASE i \in 1..(n - 1)
    <3>1. i + 1 \in 1..n /\ i + 1 # 1 /\ mailbox'[i] = mailbox[i + 1]
      BY <2>2, <1>1
    <3> QED
      BY <3>1, <1>2 DEF MailInv, n
  <2> QED
    BY <2>1, <2>2, <1>1
<1>4. ASSUME waiter'[Join] = "sent"
      PROVE  \E i \in 1..n : mailbox'[i] = WaitMsg(Join)
  <2>1. PICK j \in 1..n : mailbox[j] = WaitMsg(Join)
    BY <1>4 DEF MailInv, n
  <2>2. j # 1
    BY <1>1, <2>1 DEF WaitMsg
  <2>3. j - 1 \in 1..(n - 1) /\ j - 1 \in 1..n /\ (j - 1) + 1 = j
    BY <1>1, <2>1, <2>2
  <2> QED
    BY <1>1, <2>1, <2>3
<1> QED
  BY <1>1, <1>2, <1>3, <1>4 DEF MailInv

\* With an empty mailbox there is no Wait of Join either.
LEMMA MailEmpty ==
    ASSUME TypeOK, MailInv, mailbox = <<>>, UNCHANGED mailbox,
           waiter'[Join] = "sent" => waiter[Join] = "sent"
    PROVE  MailInv'
  BY DEF MailInv

-----------------------------------------------------------------------------
(* Every action keeps the invariant.                                       *)

LEMMA InvHandlers ==
    ASSUME TypeOK, IInv, HandleMessage, panicked' = {}
    PROVE  IInv'
<1> USE DEF Receive, daemonVars, runVars, healthVars, restVars, AwaitingRun, Quiet
<1>0. mailbox # <<>> /\ Head(mailbox) = mailbox[1] /\ 1 \in 1..Len(mailbox)
  <2>1. mailbox # <<>> /\ mailbox \in Seq(Message)
    BY DEF HandleMessage, HandleRun, HandleRunPanics, HandleWait, HandleTerminate,
       HandleSetHealthState, TypeOK
  <2> QED
    BY <2>1
<1>1. CASE HandleRun
  <2>1. AwaitingRun
    BY <1>0, <1>1 DEF HandleRun, IInv, MailInv
  <2>2. MailInv'
    <3>1. Head(mailbox) # WaitMsg(Join) /\ mailbox' = Tail(mailbox) /\ waiter' = waiter
      BY <1>1 DEF HandleRun, WaitMsg
    <3> QED
      BY <1>0, <2>1, <3>1, MailReceived DEF IInv
  <2>3. (ChannelInv /\ PhaseInv /\ LateInv)'
    BY <1>1, <2>1 DEF HandleRun, SpawnCounted, IInv, ChannelInv, PhaseInv, LateInv, HealthState
  <2>4. ActorInv'
    <3>1. \A g \in Gens : health[g].state = "Stopped"
      BY <2>1 DEF IInv, ActorInv
    <3> QED
      BY <1>1, <2>1, <3>1 DEF HandleRun, ActorInv, Gens, NewHealthActor, TypeOK
  <2>5. (ChildOwned /\ StatusHonest /\ WaitMeansGone)'
    BY <1>1, <2>1 DEF HandleRun, IInv, ChildOwned, HasChild, StatusHonest, WaitMeansGone,
       HealthState, Exited
  <2> QED
    BY <2>2, <2>3, <2>4, <2>5 DEF IInv
<1>2. CASE HandleWait
  <2>1. Head(mailbox).from \in Waiters
    BY <1>0, <1>2, Received, MessageTypes DEF HandleWait, TypeOK
  <2>2. MailInv'
    <3>1. waiter'[Join] = "sent" => waiter[Join] = "sent" /\ Head(mailbox) # WaitMsg(Join)
      BY <1>2, <2>1 DEF HandleWait, TypeOK, WaitMsg, Waiters
    <3> QED
      BY <1>0, <1>2, <3>1, MailReceived DEF IInv, HandleWait
  <2>3. (ChannelInv /\ PhaseInv /\ LateInv /\ ActorInv /\ ChildOwned /\ StatusHonest)'
    BY <1>2 DEF HandleWait, IInv, ChannelInv, PhaseInv, LateInv, ActorInv, ChildOwned, HasChild,
       StatusHonest
  <2>4. WaitMeansGone'
    BY <1>2, <2>1 DEF HandleWait, IInv, WaitMeansGone, ChannelInv, PhaseInv, ChildOwned, HasChild,
       Exited, TypeOK
  <2> QED
    BY <2>2, <2>3, <2>4 DEF IInv
<1>3. CASE HandleTerminate
  <2>1. ~(stop_tx = "Some" /\ stop_rx = "dropped")
    BY DEF IInv, ChannelInv
  <2>2. /\ mailbox' = Append(Tail(mailbox), WaitMsg(Head(mailbox).from))
        /\ stop_tx' = IF stop_tx = "Some" THEN "Sent" ELSE stop_tx
        /\ UNCHANGED <<status, stopped_tx, waiter, daemonVars, runVars, healthVars, restVars>>
    BY <1>3, <2>1 DEF HandleTerminate
  <2>3. MailInv'
    BY <1>0, <1>3, <2>2, MailRequeued DEF IInv, HandleTerminate
  <2> QED
    BY <2>2, <2>3 DEF IInv, ChannelInv, PhaseInv, LateInv, ActorInv, ChildOwned, HasChild,
       StatusHonest, WaitMeansGone
<1>4. CASE HandleSetHealthState
  <2>1. ~Quiet
    BY <1>0, <1>4 DEF HandleSetHealthState, IInv, MailInv
  <2>2. MailInv'
    BY <1>0, <1>4, MailReceived DEF IInv, HandleSetHealthState, WaitMsg
  <2>3. (ChannelInv /\ LateInv /\ ActorInv /\ ChildOwned /\ WaitMeansGone)'
    BY <1>4 DEF HandleSetHealthState, IInv, ChannelInv, LateInv, ActorInv, ChildOwned, HasChild,
       WaitMeansGone
  <2>4. Head(mailbox).health \in {"Healthy", "Unhealthy"}
    BY <1>0, <1>4, Received, MessageTypes DEF HandleSetHealthState, TypeOK
  <2>5. (PhaseInv /\ StatusHonest)'
    BY <1>4, <2>1, <2>4 DEF HandleSetHealthState, IInv, PhaseInv, StatusHonest, HealthState
  <2> QED
    BY <2>2, <2>3, <2>5 DEF IInv
<1>5. ~HandleRunPanics
  BY DEF HandleRunPanics
<1> QED
  BY <1>1, <1>2, <1>3, <1>4, <1>5 DEF HandleMessage

LEMMA InvPollDaemon ==
    ASSUME TypeOK, IInv, PollDaemon, panicked' = {}
    PROVE  IInv'
<1> USE DEF actorVars, runVars, healthVars, restVars, AwaitingRun, Quiet
<1>1. CASE PollEmpty
  <2>1. /\ mailbox = <<>> /\ fut \in {"Start", "Empty"} /\ fut' = "Polling" /\ stop_rx' = "run"
        /\ mailbox' = <<RunMsg>>
        /\ UNCHANGED <<actorVars, retries, runVars, healthVars, restVars>>
    BY <1>1 DEF PollEmpty, Panic, IInv, ChannelInv
  <2>2. run = "None" /\ result = "None"
    BY <2>1 DEF IInv, PhaseInv
  <2>3. MailInv'
    <3>1. Len(mailbox') = 1 /\ mailbox'[1] = RunMsg /\ RunMsg.type = "Run"
      BY <2>1 DEF RunMsg
    <3>2. waiter'[Join] # "sent"
      BY <2>1 DEF IInv, MailInv
    <3> QED
      BY <2>1, <2>2, <3>1, <3>2 DEF MailInv
  <2>4. (ChannelInv /\ PhaseInv /\ LateInv /\ ActorInv)'
    BY <2>1, <2>2 DEF IInv, ChannelInv, PhaseInv, LateInv, ActorInv
  <2>5. (ChildOwned /\ StatusHonest /\ WaitMeansGone)'
    BY <2>1, <2>2 DEF IInv, ChildOwned, HasChild, StatusHonest, WaitMeansGone
  <2> QED
    BY <2>3, <2>4, <2>5 DEF IInv
<1>2. CASE PollResult
  <2> DEFINE died == result # "Terminated"
             marked == IF died THEN mark(retries, 0) ELSE retries
             again == died /\ allowed(marked)
  <2>1. /\ mailbox = <<>> /\ fut = "Polling" /\ run = "None" /\ result # "None"
        /\ status = "Terminated" /\ ~(child \in {"Alive"} \cup Exited)
    BY <1>2 DEF PollResult, IInv, PhaseInv, ChildOwned, HasChild
  <2>2. ~Panic("send stopped_tx signal")
    BY DEF Panic
  <2>3. /\ result' = "None"
        /\ fut' = IF again THEN "Waiting" ELSE "Ready"
        /\ stop_rx' = IF again THEN "state" ELSE "dropped"
        /\ status' = IF again \/ ~died THEN status ELSE "Failed"
        /\ IF again THEN UNCHANGED <<stop_tx, stopped_tx, waiter>> ELSE broadcast_stopped
        /\ UNCHANGED <<mailbox, run, abort, child, healthVars, restVars>>
    BY <1>2, <2>2 DEF PollResult, BringsBack, Resolve
  <2>4. again => died
    OBVIOUS
  <2> HIDE DEF again
  <2>5. MailInv'
    <3>1. waiter'[Join] = "sent" => waiter[Join] = "sent"
      BY <2>3 DEF broadcast_stopped, Waiters, TypeOK
    <3> QED
      BY <2>1, <2>3, <3>1, MailEmpty DEF IInv
  <2>6. (ChannelInv /\ PhaseInv /\ LateInv /\ ActorInv)'
    BY <2>4, <2>1, <2>3 DEF broadcast_stopped, IInv, ChannelInv, PhaseInv, LateInv, ActorInv
  <2>7. (ChildOwned /\ StatusHonest)'
    BY <2>1, <2>3 DEF IInv, ChildOwned, HasChild, StatusHonest, Exited, HealthState
  <2>8. WaitMeansGone'
    <3>1. child \in {"None", "Reaped"}
      BY <2>1 DEF TypeOK, Exited
    <3> QED
      BY <2>1, <2>3, <3>1 DEF broadcast_stopped, IInv, WaitMeansGone, TypeOK
  <2> QED
    BY <2>5, <2>6, <2>7, <2>8 DEF IInv
<1>3. CASE PollSleep
  <2>1. MailInv'
    BY <1>3, MailEmpty DEF PollSleep, IInv
  <2>2. \A g \in Gens : health[g].state = "Stopped"
    BY <1>3 DEF PollSleep, StopSignalsHandled, IInv, ActorInv, PhaseInv
  <2> QED
    BY <1>3, <2>1, <2>2 DEF PollSleep, IInv, ChannelInv, PhaseInv, LateInv, ActorInv,
       ChildOwned, HasChild, StatusHonest, WaitMeansGone
<1> QED
  BY <1>1, <1>2, <1>3 DEF PollDaemon

LEMMA InvPollRun ==
    ASSUME TypeOK, IInv, PollRun, panicked' = {}
    PROVE  IInv'
<1> USE DEF actorVars, daemonVars, healthVars, restVars, AwaitingRun, Quiet
<1>1. MailInv'
  BY MailEmpty DEF PollRun, PollSpawnFailed, PollStopSignal, PollUnhealthySignal, PollExit,
     PollGraceOver, PollStopped, IInv
<1>2. ASSUME health_stop, run = "WaitAbort", ~Quiet'
      PROVE  ActorInv'
  <2>1. gen \in Gens /\ health \in [Gens -> HealthActor]
    BY DEF TypeOK
  <2>2. /\ \A g \in Gens : /\ health'[g].state = health[g].state
                          /\ health'[g].stop_tx = health[g].stop_tx
        /\ health'[gen].stop = (health[gen].state # "Stopped")
    BY <1>2, <2>1 DEF health_stop, HealthActor
  <2>3. gen' = gen
    BY DEF PollRun, PollSpawnFailed, PollStopSignal, PollUnhealthySignal, PollExit,
       PollGraceOver, PollStopped
  <2> QED
    BY <1>2, <2>1, <2>2, <2>3 DEF IInv, ActorInv
<1>3. CASE PollSpawnFailed
  <2>1. ActorInv'
    BY <1>3 DEF PollSpawnFailed, IInv, ActorInv
  <2>2. (ChannelInv /\ PhaseInv /\ LateInv)'
    BY <1>3 DEF PollSpawnFailed, IInv, ChannelInv, PhaseInv, LateInv
  <2>3. child \in {"None", "Reaped"}
    BY <1>3 DEF PollSpawnFailed, IInv, ChildOwned, HasChild, Exited, TypeOK
  <2>4. (ChildOwned /\ StatusHonest /\ WaitMeansGone)'
    BY <1>3, <2>3 DEF PollSpawnFailed, IInv, PhaseInv, ChildOwned, HasChild, StatusHonest,
       WaitMeansGone, HealthState, Exited
  <2> QED
    BY <1>1, <2>1, <2>2, <2>4 DEF IInv
<1>4. CASE PollStopSignal
  <2>1. ActorInv'
    BY <1>2, <1>4 DEF PollStopSignal, IInv, PhaseInv
  <2> QED
    BY <1>1, <1>4, <2>1 DEF PollStopSignal, StopReady, IInv, ChannelInv, PhaseInv, LateInv,
       ChildOwned, HasChild, StatusHonest, WaitMeansGone, HealthState, Exited
<1>5. CASE PollUnhealthySignal
  <2>1. ActorInv'
    BY <1>2, <1>5 DEF PollUnhealthySignal, IInv, PhaseInv
  <2> QED
    BY <1>1, <1>5, <2>1 DEF PollUnhealthySignal, StopReady, IInv, ChannelInv, PhaseInv, LateInv,
       ChildOwned, HasChild, StatusHonest, WaitMeansGone, HealthState, Exited
<1>6. CASE PollExit
  <2>1. ActorInv'
    BY <1>2, <1>6 DEF PollExit, IInv, PhaseInv
  <2> QED
    BY <1>1, <1>6, <2>1 DEF PollExit, StopReady, IInv, ChannelInv, PhaseInv, LateInv,
       ChildOwned, HasChild, StatusHonest, WaitMeansGone, HealthState, Exited
<1>7. CASE PollGraceOver
  BY <1>1, <1>7 DEF PollGraceOver, IInv, ChannelInv, PhaseInv, LateInv, ActorInv,
     ChildOwned, HasChild, StatusHonest, WaitMeansGone, HealthState, Exited
<1>8. CASE PollStopped
  <2>1. run' = "None" /\ result' \in {"Terminated", "Unhealthy"} /\ status' = "Terminated"
    BY <1>8 DEF PollStopped
  <2>2. ActorInv'
    BY <1>8, <2>1 DEF PollStopped, IInv, ActorInv, PhaseInv
  <2> QED
    BY <1>1, <1>8, <2>1, <2>2 DEF PollStopped, IInv, ChannelInv, PhaseInv, LateInv,
       ChildOwned, HasChild, StatusHonest, WaitMeansGone, HealthState, Exited
<1> QED
  BY <1>3, <1>4, <1>5, <1>6, <1>7, <1>8 DEF PollRun

LEMMA InvHealth ==
    ASSUME TypeOK, IInv, NEW g \in Gens,
           HealthStarted(g) \/ HealthStopSignal(g) \/ HealthInterval(g) \/ HealthOk(g)
             \/ HealthFail(g), panicked' = {}
    PROVE  IInv'
<1> USE DEF actorVars, daemonVars, runVars, restVars, HealthPolls
<1>1. health[g].state # "Stopped" /\ health \in [Gens -> HealthActor] /\ gen \in Gens
  BY DEF HealthStarted, HealthStopSignal, HealthInterval, HealthOk, HealthFail, TypeOK
<1>2. g = gen /\ health[g].stop_tx /\ ~Quiet /\ (health[g].stop \/ run = "WaitAbort")
  BY <1>1 DEF IInv, ActorInv
<1>3. /\ UNCHANGED <<actorVars, daemonVars, runVars, gen, restVars>>
      /\ mailbox' = mailbox \/ \E h \in {"Healthy", "Unhealthy"} :
                                 mailbox' = Append(mailbox, SetHealthStateMsg(h, g))
  BY <1>2 DEF HealthStarted, HealthStopSignal, HealthInterval, HealthOk, HealthFail
<1>4. ASSUME NEW k \in Gens, health'[k].state # "Stopped"
      PROVE  /\ health[k].state # "Stopped"
             /\ health'[k].stop_tx = health[k].stop_tx /\ health'[k].stop = health[k].stop
  <2>0. health[g] \in HealthActor
    BY <1>1
  <2>1. CASE HealthStarted(g)
    BY <2>1, <2>0, <1>1, <1>4 DEF HealthStarted, HealthActor
  <2>2. CASE HealthStopSignal(g)
    BY <2>2, <1>1, <1>4 DEF HealthStopSignal, StoppedHealthActor
  <2>3. CASE HealthInterval(g)
    BY <2>3, <2>0, <1>1, <1>4 DEF HealthInterval, HealthActor
  <2>4. CASE HealthOk(g)
    BY <2>4, <2>0, <1>1, <1>4 DEF HealthOk, HealthActor
  <2>5. CASE HealthFail(g)
    <3>1. CASE health' = [health EXCEPT ![g] = StoppedHealthActor]
      BY <3>1, <1>1, <1>4 DEF StoppedHealthActor
    <3>2. CASE \E c : health' = [health EXCEPT ![g].probes = @ - 1, ![g].unhealthy_count = c]
      BY <3>2, <2>0, <1>1, <1>4 DEF HealthActor
    <3> QED
      BY <2>5, <3>1, <3>2, <1>2 DEF HealthFail
  <2> QED
    BY <2>1, <2>2, <2>3, <2>4, <2>5
<1>5. (AwaitingRun' <=> AwaitingRun) /\ (Quiet' <=> Quiet)
  BY <1>3 DEF AwaitingRun, Quiet
<1>6. ActorInv'
  BY <1>3, <1>4, <1>5 DEF IInv, ActorInv
<1>7. MailInv'
  <2>1. CASE mailbox' = mailbox
    BY <1>3, <1>5, <2>1 DEF IInv, MailInv, WaitMsg
  <2>2. ASSUME NEW h \in {"Healthy", "Unhealthy"},
               mailbox' = Append(mailbox, SetHealthStateMsg(h, g))
        PROVE  MailInv'
    <3>1. SetHealthStateMsg(h, g) \in Message
      BY MessageTypes
    <3>2. /\ SetHealthStateMsg(h, g).type = "SetHealthState"
          /\ SetHealthStateMsg(h, g).gen = gen
      BY <1>2 DEF SetHealthStateMsg
    <3> QED
      BY <1>2, <1>3, <1>5, <2>2, <3>1, <3>2, MailSent DEF IInv
  <2> QED
    BY <1>3, <2>1, <2>2
<1> QED
  BY <1>3, <1>5, <1>6, <1>7 DEF IInv, ChannelInv, PhaseInv, LateInv, ChildOwned, HasChild,
     StatusHonest, WaitMeansGone

LEMMA InvStep ==
    ASSUME TypeOK, IInv, Next, panicked' = {}
    PROVE  IInv'
<1> USE DEF actorVars, daemonVars, runVars, healthVars, restVars
<1>1. ASSUME NEW w \in Waiters, NEW m \in {WaitMsg(w), TerminateMsg(w)}, waiter[w] = "idle",
             waiter' = [waiter EXCEPT ![w] = "sent"], mailbox' = Append(mailbox, m),
             w = Join => m = WaitMsg(w),
             UNCHANGED <<status, stop_tx, stopped_tx, daemonVars, runVars, healthVars, restVars>>
      PROVE  IInv'
  <2>1. m \in Message /\ m.type \in {"Wait", "Terminate"}
    <3>1. WaitMsg(w) \in Message /\ TerminateMsg(w) \in Message
      BY MessageTypes
    <3>2. WaitMsg(w).type = "Wait" /\ TerminateMsg(w).type = "Terminate"
      BY DEF WaitMsg, TerminateMsg
    <3>3. m = WaitMsg(w) \/ m = TerminateMsg(w)
      BY <1>1
    <3> QED
      BY <3>1, <3>2, <3>3
  <2>2. (AwaitingRun' <=> AwaitingRun) /\ (Quiet' <=> Quiet)
    BY <1>1 DEF AwaitingRun, Quiet
  <2>3. waiter'[Join] = "sent" => waiter[Join] = "sent" \/ m = WaitMsg(Join)
    BY <1>1 DEF TypeOK, Waiters
  <2>4. MailInv'
    BY <1>1, <2>1, <2>2, <2>3, MailSent DEF IInv
  <2>5. WaitMeansGone'
    BY <1>1 DEF IInv, WaitMeansGone, TypeOK
  <2> QED
    BY <1>1, <2>2, <2>4, <2>5 DEF IInv, ChannelInv, PhaseInv, LateInv, ActorInv,
       ChildOwned, HasChild, StatusHonest
<1>2. CASE SendJoin
  BY <1>1, <1>2 DEF SendJoin, Waiters
<1>3. ASSUME NEW t \in Terminators, SendTerminate(t)
      PROVE  IInv'
  BY <1>1, <1>3, CaretakerAssumption DEF SendTerminate, Waiters
<1>4. CASE ChildExits
  BY <1>4 DEF ChildExits, Exited, IInv, ChannelInv, PhaseInv, LateInv, ActorInv, MailInv,
     AwaitingRun, Quiet, WaitMsg, ChildOwned, HasChild, StatusHonest, WaitMeansGone
<1>5. CASE Tick
  BY <1>5 DEF Tick, IInv, ChannelInv, PhaseInv, LateInv, ActorInv, MailInv, AwaitingRun, Quiet,
     WaitMsg, ChildOwned, HasChild, StatusHonest, WaitMeansGone
<1> QED
  BY <1>2, <1>3, <1>4, <1>5, InvHandlers, InvPollDaemon, InvPollRun, InvHealth DEF Next

-----------------------------------------------------------------------------
(* What a panic changes, and which panics there are.                       *)

keptVars == <<mailbox, stop_tx, stopped_tx, waiter, daemonVars, run, abort, result, healthVars>>

LEMMA PanicForm ==
    ASSUME Next, panicked' # {}
    PROVE  (\E site \in PanicSite : Panic(site)) \/ HandleRunPanics
<1> USE DEF restVars, PanicSite
<1>0. panicked = {}
  BY DEF Next
<1>1. CASE HandleMessage
  BY <1>0, <1>1 DEF HandleMessage, HandleRun, HandleWait, HandleTerminate, HandleSetHealthState
<1>2. CASE PollDaemon
  BY <1>0, <1>2 DEF PollDaemon, PollEmpty, PollResult, PollSleep
<1>3. CASE PollRun
  BY <1>0, <1>3 DEF PollRun, PollSpawnFailed, PollStopSignal, PollUnhealthySignal, PollExit,
     PollGraceOver, PollStopped
<1>4. CASE \E g \in Gens : HealthStarted(g) \/ HealthStopSignal(g) \/ HealthInterval(g)
                            \/ HealthOk(g) \/ HealthFail(g)
  BY <1>0, <1>4 DEF HealthStarted, HealthStopSignal, HealthInterval, HealthOk, HealthFail
<1>5. CASE SendJoin \/ (\E t \in Terminators : SendTerminate(t)) \/ ChildExits \/ Tick
  BY <1>0, <1>5 DEF SendJoin, SendTerminate, ChildExits, Tick
<1> QED
  BY <1>1, <1>2, <1>3, <1>4, <1>5 DEF Next

LEMMA RunAwaited ==
    ASSUME TypeOK, IInv, HandleRun \/ HandleRunPanics
    PROVE  AwaitingRun
<1>1. mailbox # <<>> /\ mailbox \in Seq(Message) /\ Head(mailbox).type = "Run"
  BY DEF HandleRun, HandleRunPanics, Receive, TypeOK
<1>2. Head(mailbox) = mailbox[1] /\ 1 \in 1..Len(mailbox)
  BY <1>1
<1> QED
  BY <1>1, <1>2 DEF IInv, MailInv

\* A step either goes on without a panic or leaves alone what the invariants are about.
LEMMA StepCases ==
    ASSUME TypeOK, Calm, [Next]_vars
    PROVE  \/ IInv /\ Next /\ panicked' = {} /\ IInv'
           \/ /\ UNCHANGED keptVars
              /\ \/ UNCHANGED <<status, child, lateSpawns>>
                 \/ IInv /\ AwaitingRun /\ HandleRunPanics
<1> USE DEF actorVars, daemonVars, runVars, healthVars
<1>1. CASE UNCHANGED vars
  BY <1>1 DEF vars, keptVars, restVars
<1>2. CASE Next /\ panicked' = {}
  BY <1>2, InvStep DEF Next, Calm
<1>3. CASE Next /\ panicked' # {}
  <2>1. IInv
    BY <1>3 DEF Next, Calm
  <2>2. CASE \E site \in PanicSite : Panic(site)
    BY <2>2 DEF Panic, keptVars
  <2>3. CASE HandleRunPanics
    BY <2>1, <2>3, RunAwaited DEF HandleRunPanics, keptVars
  <2> QED
    BY <1>3, <2>2, <2>3, PanicForm
<1> QED
  BY <1>1, <1>2, <1>3

LEMMA CalmStep ==
    ASSUME TypeOK, Calm, [Next]_vars
    PROVE  Calm'
<1>1. CASE UNCHANGED vars
  BY <1>1 DEF vars, actorVars, daemonVars, runVars, healthVars, restVars, Calm, IInv, ChannelInv,
     PhaseInv, LateInv, ActorInv, MailInv, AwaitingRun, Quiet, WaitMsg, ChildOwned, HasChild,
     StatusHonest, WaitMeansGone
<1>2. CASE Next /\ panicked' = {}
  BY <1>2, InvStep DEF Next, Calm
<1>3. CASE Next /\ panicked' # {}
  BY <1>3 DEF Calm
<1> QED
  BY <1>1, <1>2, <1>3

LEMMA Invariant == Spec => [](TypeOK /\ Calm)
<1>1. Init => IInv
  BY DEF Init, IInv, ChannelInv, PhaseInv, LateInv, ActorInv, MailInv, AwaitingRun, Quiet,
     StoppedHealthActor, ChildOwned, HasChild, StatusHonest, WaitMeansGone, HealthState, Exited,
     Waiters, Gens
<1>2. Init => Calm
  BY <1>1 DEF Calm
<1> QED
  BY <1>2, TypeCorrect, CalmStep, PTL DEF Spec
-----------------------------------------------------------------------------
(***************************************************************************)
(* Which panics there are: no other expect() than the two of               *)
(* PanicExplained can fail in a state the invariant allows.                *)
(***************************************************************************)
LEMMA PanicReasons ==
    ASSUME TypeOK, IInv, Next, panicked' # {}
    PROVE  PanicExplained'
<1> USE DEF actorVars, daemonVars, runVars, healthVars, restVars
<1>0. panicked = {} /\ ~(stop_tx = "Some" /\ stop_rx = "dropped")
  BY DEF IInv, ChannelInv
<1>1. ASSUME Panic("send stopped_tx signal"), waiter[Join] = "idle"
      PROVE  PanicExplained'
  BY <1>0, <1>1 DEF Panic, PanicExplained
<1>2. CASE HandleMessage
  <2>1. CASE HandleRunPanics
    BY <1>0, <2>1 DEF HandleRunPanics, PanicExplained, UriLegal
  <2>2. CASE HandleRun \/ HandleWait \/ HandleTerminate \/ HandleSetHealthState
    BY <1>0, <2>2 DEF HandleRun, HandleWait, HandleTerminate, HandleSetHealthState
  <2> QED
    BY <1>2, <2>1, <2>2 DEF HandleMessage
<1>3. CASE PollDaemon
  <2>1. CASE PollEmpty \/ PollSleep
    BY <1>0, <2>1 DEF PollEmpty, PollSleep, IInv, ChannelInv
  <2>2. CASE PollResult
    <3>0. mailbox = <<>> /\ fut = "Polling"
      BY <2>2 DEF PollResult
    <3>1. ~CanBroadcast /\ Panic("send stopped_tx signal")
      BY <1>0, <2>2 DEF PollResult
    <3>2. \A w \in Waiters : waiter[w] # "subscribed" /\ waiter[w] # "done"
      BY <3>0, <3>1 DEF CanBroadcast, IInv, ChannelInv, WaitMeansGone
    <3>3. waiter[Join] # "sent"
      BY <3>0 DEF IInv, MailInv
    <3>4. waiter[Join] = "idle"
      BY <3>2, <3>3 DEF TypeOK, Waiters
    <3> QED
      BY <1>1, <3>1, <3>4
  <2> QED
    BY <1>3, <2>1, <2>2 DEF PollDaemon
<1>4. ~PollRun
  BY <1>0 DEF PollRun, PollSpawnFailed, PollStopSignal, PollUnhealthySignal, PollExit,
     PollGraceOver, PollStopped
<1>5. ASSUME NEW g \in Gens, HealthStarted(g) \/ HealthStopSignal(g) \/ HealthInterval(g)
                              \/ HealthOk(g) \/ HealthFail(g)
      PROVE  FALSE
  <2>1. health[g].state # "Stopped"
    BY <1>5 DEF HealthStarted, HealthStopSignal, HealthInterval, HealthOk, HealthFail, HealthPolls
  <2>2. g = gen /\ health[g].stop_tx /\ (health[g].stop \/ run = "WaitAbort")
    BY <2>1 DEF IInv, ActorInv
  <2> QED
    BY <1>0, <1>5, <2>2 DEF HealthStarted, HealthStopSignal, HealthInterval, HealthOk, HealthFail,
       HealthPolls
<1>6. CASE SendJoin \/ (\E t \in Terminators : SendTerminate(t)) \/ ChildExits \/ Tick
  BY <1>0, <1>6 DEF SendJoin, SendTerminate, ChildExits, Tick
<1> QED
  BY <1>2, <1>3, <1>4, <1>5, <1>6 DEF Next

(***************************************************************************)
(* Theorem: of the expect()s and unwrap()s on the actors' paths only two   *)
(* can fail: that of the URI of a health check with an illegal path, and   *)
(* that of the broadcast when Join has not been forwarded.                 *)
(***************************************************************************)
THEOREM PanicsAreExplained == Spec => []PanicExplained
<1>1. Init => PanicExplained
  BY DEF Init, PanicExplained
<1>2. ASSUME TypeOK, Calm, PanicExplained, [Next]_vars
      PROVE  PanicExplained'
  <2>1. CASE UNCHANGED vars
    BY <1>2, <2>1 DEF vars, actorVars, restVars, PanicExplained, UriLegal
  <2>2. CASE Next /\ panicked' = {}
    BY <2>2 DEF PanicExplained
  <2>3. CASE Next /\ panicked' # {}
    BY <1>2, <2>3, PanicReasons DEF Next, Calm
  <2> QED
    BY <1>2, <2>1, <2>2, <2>3
<1> QED
  BY <1>1, <1>2, Invariant, PTL DEF Spec

(***************************************************************************)
(* Theorem: unless the actor has panicked, no child is without a Run       *)
(* future that waits for it.                                               *)
(***************************************************************************)
THEOREM ChildrenAreOwned == Spec => []ChildOwned
<1>1. Calm => ChildOwned
  BY DEF Calm, IInv, ChildOwned
<1> QED
  BY <1>1, Invariant, PTL

(***************************************************************************)
(* Theorem: the status that GetStatus answers is that of the futures,      *)
(* unless the actor has panicked.                                          *)
(***************************************************************************)
THEOREM StatusIsHonest == Spec => []StatusHonest
<1>1. Calm => StatusHonest
  BY DEF Calm, IInv, StatusHonest
<1> QED
  BY <1>1, Invariant, PTL

(***************************************************************************)
(* Theorem: whoever waited is answered after the child is gone for good,   *)
(* and nobody is left waiting then.                                        *)
(***************************************************************************)
THEOREM AnsweredWhenGone == Spec => []WaitMeansGone
<1> USE DEF daemonVars
<1>1. Init => WaitMeansGone
  BY DEF Init, WaitMeansGone
<1>2. ASSUME TypeOK, Calm, WaitMeansGone, [Next]_vars
      PROVE  WaitMeansGone'
  <2>1. CASE IInv'
    BY <2>1 DEF IInv
  <2>2. CASE UNCHANGED keptVars /\ UNCHANGED child
    BY <1>2, <2>2 DEF keptVars, WaitMeansGone
  <2>3. CASE UNCHANGED keptVars /\ AwaitingRun
    BY <1>2, <2>3 DEF keptVars, WaitMeansGone, AwaitingRun
  <2> QED
    BY <1>2, <2>1, <2>2, <2>3, StepCases
<1> QED
  BY <1>1, <1>2, Invariant, PTL DEF Spec

(***************************************************************************)
(* Theorem: however many Terminates come, at most one child is spawned     *)
(* after the first.                                                        *)
(***************************************************************************)
THEOREM LateSpawnBound == Spec => []AtMostOneLateSpawn
<1>1. Init => AtMostOneLateSpawn
  BY DEF Init, AtMostOneLateSpawn
<1>2. ASSUME TypeOK, Calm, AtMostOneLateSpawn, [Next]_vars
      PROVE  AtMostOneLateSpawn'
  <2>1. CASE IInv'
    BY <2>1 DEF IInv, LateInv, AtMostOneLateSpawn
  <2>2. CASE UNCHANGED lateSpawns
    BY <1>2, <2>2 DEF AtMostOneLateSpawn
  <2>3. CASE IInv /\ AwaitingRun /\ HandleRunPanics
    <3>1. lateSpawns = 0
      BY <2>3 DEF IInv, LateInv, AwaitingRun
    <3> QED
      <4>1. lateSpawns' \in {0, 1}
        <5>1. SpawnCounted
          BY <2>3 DEF HandleRunPanics
        <5> QED
          BY <3>1, <5>1 DEF SpawnCounted
      <4> QED
        BY <4>1 DEF AtMostOneLateSpawn
  <2> QED
    BY <1>2, <2>1, <2>2, <2>3, StepCases
<1> QED
  BY <1>1, <1>2, Invariant, PTL DEF Spec

(***************************************************************************)
(* Theorem: once the daemon has resolved, its verdict stands.              *)
(***************************************************************************)
THEOREM VerdictIsFinal == Spec => VerdictFinal
<1>1. ASSUME TypeOK, IInv, Next, fut = "Ready"
      PROVE  UNCHANGED <<fut, status, child, run>>
  <2> USE DEF actorVars, daemonVars, runVars, healthVars, restVars
  <2>1. /\ run = "None" /\ result = "None" /\ status \in {"Terminated", "Failed"}
        /\ child # "Alive" /\ \A g \in Gens : health[g].state # "Stopped" => health[g].stop
    BY <1>1 DEF IInv, PhaseInv, StatusHonest, ChildOwned, HasChild, ActorInv
  <2>2. ~HandleRun /\ ~HandleRunPanics
    BY <1>1, RunAwaited DEF AwaitingRun
  <2>3. CASE HandleMessage
    BY <1>1, <2>1, <2>2, <2>3 DEF HandleMessage, HandleWait, HandleTerminate,
       HandleSetHealthState, Panic, HealthState
  <2>4. CASE PollDaemon \/ PollRun
    BY <1>1, <2>1, <2>4 DEF PollDaemon, PollEmpty, PollResult, PollSleep, PollRun,
       PollSpawnFailed, PollStopSignal, PollUnhealthySignal, PollExit, PollGraceOver, PollStopped
  <2>5. CASE \E g \in Gens : HealthStarted(g) \/ HealthStopSignal(g) \/ HealthInterval(g)
                              \/ HealthOk(g) \/ HealthFail(g)
    BY <2>5 DEF HealthStarted, HealthStopSignal, HealthInterval, HealthOk, HealthFail, Panic
  <2>6. CASE SendJoin \/ (\E t \in Terminators : SendTerminate(t)) \/ ChildExits \/ Tick
    BY <2>1, <2>6 DEF SendJoin, SendTerminate, ChildExits, Tick
  <2> QED
    BY <1>1, <2>3, <2>4, <2>5, <2>6 DEF Next
<1>2. TypeOK /\ Calm /\ [Next]_vars => [fut = "Ready" => UNCHANGED <<fut, status, child, run>>]_vars
  BY <1>1 DEF Next, Calm
<1> QED
  BY <1>2, Invariant, PTL DEF Spec, VerdictFinal

(***************************************************************************)
(* Theorem: a report of the HealthActor of an earlier child never changes  *)
(* the status.                                                             *)
(***************************************************************************)
THEOREM ReportsAreFresh == Spec => ReportsFresh
<1> DEFINE Fresh == status' # status /\ status' \in {"Healthy", "Unhealthy"}
                      => Head(mailbox).gen = gen
<1>1. ASSUME TypeOK, IInv, Next
      PROVE  Fresh
  <2> USE DEF actorVars, daemonVars, runVars, healthVars, restVars
  <2>1. CASE HandleSetHealthState
    <3>1. /\ mailbox # <<>> /\ mailbox \in Seq(Message)
          /\ Head(mailbox).type = "SetHealthState"
      BY <1>1, <2>1 DEF HandleSetHealthState, Receive, TypeOK
    <3>2. Head(mailbox) = mailbox[1] /\ 1 \in 1..Len(mailbox)
      BY <3>1
    <3> QED
      BY <1>1, <3>1, <3>2 DEF IInv, MailInv
  <2>2. CASE HandleRun \/ HandleRunPanics \/ HandleWait \/ HandleTerminate
    BY <2>2 DEF HandleRun, HandleRunPanics, HandleWait, HandleTerminate, Panic
  <2>3. CASE PollDaemon \/ PollRun
    BY <2>3 DEF PollDaemon, PollEmpty, PollResult, Resolve, PollSleep, PollRun, Panic,
       PollSpawnFailed, PollStopSignal, PollUnhealthySignal, PollExit, PollGraceOver, PollStopped
  <2>4. CASE \E g \in Gens : HealthStarted(g) \/ HealthStopSignal(g) \/ HealthInterval(g)
                              \/ HealthOk(g) \/ HealthFail(g)
    BY <2>4 DEF HealthStarted, HealthStopSignal, HealthInterval, HealthOk, HealthFail, Panic
  <2>5. CASE SendJoin \/ (\E t \in Terminators : SendTerminate(t)) \/ ChildExits \/ Tick
    BY <2>5 DEF SendJoin, SendTerminate, ChildExits, Tick
  <2> QED
    BY <1>1, <2>1, <2>2, <2>3, <2>4, <2>5 DEF Next, HandleMessage
<1>2. TypeOK /\ Calm /\ [Next]_vars => [Fresh]_vars
  BY <1>1 DEF Next, Calm
<1> QED
  BY <1>2, Invariant, PTL DEF Spec, ReportsFresh
-----------------------------------------------------------------------------
(***************************************************************************)
(* Who holds the receiver of the stop signal: it is dropped exactly when a *)
(* stop was consumed or the daemon has resolved, and lent to a round while *)
(* one is on.  A child is being stopped for a reason.                      *)
(***************************************************************************)
ReceiverInv ==
    /\ stop_rx = "dropped" <=> \/ fut = "Ready" \/ result = "Terminated"
                               \/ run \in {"Terminate", "Kill"} /\ abort = "Stop"
    /\ stop_tx = "None" => fut = "Ready"
    /\ fut = "Polling" => stop_rx # "state"
    /\ run \in {"Terminate", "Kill"} => abort # "No"

LEMMA HeadIsFirst ==
    ASSUME TypeOK, mailbox # <<>>
    PROVE  /\ Head(mailbox) = mailbox[1] /\ 1 \in 1..Len(mailbox) /\ Head(mailbox) \in Message
           /\ Tail(mailbox) \in Seq(Message) /\ mailbox \in Seq(Message)
  BY DEF TypeOK

LEMMA ReceiverStep ==
    ASSUME TypeOK, IInv, ReceiverInv, Next, panicked' = {}
    PROVE  ReceiverInv'
<1> USE DEF actorVars, daemonVars, runVars, healthVars, restVars
<1>0. ~(\E site \in PanicSite : Panic(site)) /\ ~HandleRunPanics
  BY DEF Panic, HandleRunPanics
<1>1. CASE HandleMessage
  <2>1. CASE HandleRun
    <3>1. AwaitingRun
      BY <2>1, RunAwaited
    <3> QED
      BY <2>1, <3>1 DEF HandleRun, ReceiverInv, AwaitingRun
  <2>2. CASE HandleTerminate
    BY <2>2, <1>0 DEF HandleTerminate, ReceiverInv, PanicSite
  <2>3. CASE HandleWait \/ HandleSetHealthState
    BY <2>3 DEF HandleWait, HandleSetHealthState, ReceiverInv
  <2> QED
    BY <1>0, <1>1, <2>1, <2>2, <2>3 DEF HandleMessage
<1>2. CASE PollDaemon
  <2>1. CASE PollResult
    BY <2>1, <1>0 DEF PollResult, BringsBack, Resolve, broadcast_stopped, ReceiverInv, PanicSite,
       IInv, PhaseInv
  <2>2. CASE PollEmpty \/ PollSleep
    BY <2>2, <1>0 DEF PollEmpty, PollSleep, ReceiverInv, PanicSite, IInv, PhaseInv
  <2> QED
    BY <1>2, <2>1, <2>2 DEF PollDaemon
<1>3. CASE PollRun
  BY <1>3 DEF PollRun, PollSpawnFailed, PollStopSignal, PollUnhealthySignal, PollExit,
     PollGraceOver, PollStopped, ReceiverInv, IInv, PhaseInv, TypeOK
<1>4. CASE \E g \in Gens : HealthStarted(g) \/ HealthStopSignal(g) \/ HealthInterval(g)
                            \/ HealthOk(g) \/ HealthFail(g)
  BY <1>4, <1>0 DEF HealthStarted, HealthStopSignal, HealthInterval, HealthOk, HealthFail,
     ReceiverInv, PanicSite
<1>5. CASE SendJoin \/ (\E t \in Terminators : SendTerminate(t)) \/ ChildExits \/ Tick
  BY <1>5 DEF SendJoin, SendTerminate, ChildExits, Tick, ReceiverInv
<1> QED
  BY <1>1, <1>2, <1>3, <1>4, <1>5 DEF Next

LEMMA ReceiverInvariant == Spec => []ReceiverInv
<1>1. Init => ReceiverInv
  BY DEF Init, ReceiverInv
<1>2. ASSUME TypeOK, Calm, ReceiverInv, [Next]_vars
      PROVE  ReceiverInv'
  <2>1. CASE UNCHANGED keptVars
    BY <1>2, <2>1 DEF keptVars, daemonVars, ReceiverInv
  <2> QED
    BY <1>2, <2>1, StepCases, ReceiverStep
<1> QED
  BY <1>1, <1>2, Invariant, PTL DEF Spec

-----------------------------------------------------------------------------
(***************************************************************************)
(* The requests in a mailbox: m is a request of w, the box holds just one  *)
(* of w, or none.                                                          *)
(***************************************************************************)
RequestOf(m, w) == m \in {WaitMsg(w), TerminateMsg(w)}

Once(box, w) == \E i \in 1..Len(box) : \A j \in 1..Len(box) : RequestOf(box[j], w) <=> j = i

Never(box, w) == \A j \in 1..Len(box) : ~RequestOf(box[j], w)

LEMMA RequestsDiffer ==
    /\ \A v, w : RequestOf(WaitMsg(v), w) <=> v = w
    /\ \A v, w : RequestOf(TerminateMsg(v), w) <=> v = w
    /\ \A m, w : m.type \notin {"Wait", "Terminate"} => ~RequestOf(m, w)
    /\ \A m, w : RequestOf(m, w) => m.type \in {"Wait", "Terminate"} /\ m.from = w
    /\ \A m \in Message : m.type \in {"Wait", "Terminate"} => RequestOf(m, m.from)
  BY DEF RequestOf, WaitMsg, TerminateMsg, Message

LEMMA RequestSent ==
    ASSUME NEW box \in Seq(Message), NEW m \in Message, NEW w
    PROVE  /\ RequestOf(m, w) /\ Never(box, w) => Once(Append(box, m), w)
           /\ ~RequestOf(m, w) /\ Never(box, w) => Never(Append(box, m), w)
           /\ ~RequestOf(m, w) /\ Once(box, w) => Once(Append(box, m), w)
<1> DEFINE n == Len(box)
           new == Append(box, m)
<1>1. /\ n \in Nat /\ Len(new) = n + 1 /\ new[n + 1] = m
      /\ \A i \in 1..n : new[i] = box[i]
  OBVIOUS
<1> HIDE DEF n, new
<1>2. ASSUME RequestOf(m, w), Never(box, w)
      PROVE  Once(new, w)
  <2>1. \A j \in 1..Len(new) : RequestOf(new[j], w) <=> j = n + 1
    BY <1>1, <1>2 DEF Never, n
  <2>2. n + 1 \in 1..Len(new)
    BY <1>1
  <2> QED
    BY <2>1, <2>2, Zenon DEF Once
<1>3. ASSUME ~RequestOf(m, w), Never(box, w)
      PROVE  Never(new, w)
  BY <1>1, <1>3 DEF Never, n
<1>4. ASSUME ~RequestOf(m, w), Once(box, w)
      PROVE  Once(new, w)
  <2>1. PICK i \in 1..n : \A j \in 1..n : RequestOf(box[j], w) <=> j = i
    BY <1>4 DEF Once, n
  <2>2. \A j \in 1..Len(new) : RequestOf(new[j], w) <=> j = i
    BY <1>1, <1>4, <2>1
  <2>3. i \in 1..Len(new)
    BY <1>1, <2>1
  <2> QED
    BY <2>2, <2>3, Zenon DEF Once
<1> QED
  BY <1>2, <1>3, <1>4 DEF new

LEMMA RequestReceived ==
    ASSUME NEW box \in Seq(Message), box # <<>>, NEW w
    PROVE  /\ Never(box, w) => ~RequestOf(Head(box), w) /\ Never(Tail(box), w)
           /\ RequestOf(Head(box), w) /\ Once(box, w) => Never(Tail(box), w)
           /\ ~RequestOf(Head(box), w) /\ Once(box, w) => Once(Tail(box), w)
<1> DEFINE n == Len(box)
           rest == Tail(box)
<1>1. /\ n \in Nat \ {0} /\ Len(rest) = n - 1 /\ Head(box) = box[1]
      /\ \A i \in 1..(n - 1) : rest[i] = box[i + 1]
  OBVIOUS
<1>2. \A i \in 1..(n - 1) : i + 1 \in 1..n /\ i + 1 # 1
  BY <1>1
<1> HIDE DEF n, rest
<1>3. ASSUME Never(box, w)
      PROVE  ~RequestOf(Head(box), w) /\ Never(rest, w)
  BY <1>1, <1>2, <1>3 DEF Never, n
<1>4. ASSUME RequestOf(Head(box), w), Once(box, w)
      PROVE  Never(rest, w)
  <2>1. PICK i \in 1..n : \A j \in 1..n : RequestOf(box[j], w) <=> j = i
    BY <1>4 DEF Once, n
  <2>2. i = 1
    BY <1>1, <1>4, <2>1
  <2> QED
    BY <1>1, <1>2, <2>1, <2>2 DEF Never
<1>5. ASSUME ~RequestOf(Head(box), w), Once(box, w)
      PROVE  Once(rest, w)
  <2>1. PICK i \in 1..n : \A j \in 1..n : RequestOf(box[j], w) <=> j = i
    BY <1>5 DEF Once, n
  <2>2. i # 1
    BY <1>1, <1>5, <2>1
  <2>3. i - 1 \in 1..Len(rest) /\ \A j \in 1..(n - 1) : j + 1 = i <=> j = i - 1
    BY <1>1, <2>1, <2>2
  <2>4. \A j \in 1..Len(rest) : RequestOf(rest[j], w) <=> j = i - 1
    BY <1>1, <1>2, <2>1, <2>3
  <2> QED
    BY <2>3, <2>4, Zenon DEF Once
<1> QED
  BY <1>3, <1>4, <1>5 DEF rest

(***************************************************************************)
(* RequestKept, one sender at a time.                                      *)
(***************************************************************************)
Kept(w) == IF waiter[w] = "sent" THEN Once(mailbox, w) ELSE Never(mailbox, w)

LEMMA KeptIsRequestKept ==
    ASSUME TypeOK
    PROVE  RequestKept <=> \A w \in Waiters : Kept(w)
<1>1. mailbox \in Seq(Message) /\ DOMAIN mailbox = 1..Len(mailbox)
  BY DEF TypeOK
<1>2. ASSUME NEW w \in Waiters
      PROVE  /\ (\E i \in DOMAIN mailbox : RequestsOf(w) = {i}) <=> Once(mailbox, w)
             /\ RequestsOf(w) = {} <=> Never(mailbox, w)
  <2>1. \A i : i \in RequestsOf(w) <=> i \in 1..Len(mailbox) /\ RequestOf(mailbox[i], w)
    BY <1>1 DEF RequestsOf, RequestOf
  <2>2. RequestsOf(w) = {} <=> Never(mailbox, w)
    BY <2>1 DEF Never
  <2>3. ASSUME NEW i \in DOMAIN mailbox, RequestsOf(w) = {i}
        PROVE  Once(mailbox, w)
    <3>1. \A j \in 1..Len(mailbox) : RequestOf(mailbox[j], w) <=> j = i
      BY <2>1, <2>3
    <3>2. i \in 1..Len(mailbox)
      BY <1>1
    <3> QED
      BY <3>1, <3>2, Zenon DEF Once
  <2>4. ASSUME Once(mailbox, w)
        PROVE  \E i \in DOMAIN mailbox : RequestsOf(w) = {i}
    <3>1. PICK i \in 1..Len(mailbox) :
                 \A j \in 1..Len(mailbox) : RequestOf(mailbox[j], w) <=> j = i
      BY <2>4 DEF Once
    <3>2. RequestsOf(w) = {i}
      BY <2>1, <3>1
    <3> QED
      BY <1>1, <3>2
  <2> QED
    BY <2>2, <2>3, <2>4
<1> QED
  BY <1>2 DEF RequestKept, Kept

LEMMA KeptStep ==
    ASSUME TypeOK, IInv, Next, panicked' = {}, NEW w \in Waiters, Kept(w)
    PROVE  Kept(w)'
<1> USE DEF actorVars, daemonVars, runVars, healthVars, restVars
<1>0. ~(\E site \in PanicSite : Panic(site)) /\ ~HandleRunPanics
  BY DEF Panic, HandleRunPanics
<1>1. ASSUME UNCHANGED mailbox, waiter'[w] = "sent" <=> waiter[w] = "sent"
      PROVE  Kept(w)'
  BY <1>1 DEF Kept, Once, Never, RequestOf, WaitMsg, TerminateMsg
<1>2. Kept(w)' <=> IF waiter'[w] = "sent" THEN Once(mailbox', w) ELSE Never(mailbox', w)
  BY DEF Kept, Once, Never, RequestOf, WaitMsg, TerminateMsg
<1>3. ASSUME NEW v \in Waiters, NEW m \in Message, RequestOf(m, v),
             waiter[v] = "idle", waiter' = [waiter EXCEPT ![v] = "sent"],
             mailbox' = Append(mailbox, m)
      PROVE  Kept(w)'
  <2>1. mailbox \in Seq(Message) /\ (w # v => waiter'[w] = waiter[w]) /\ waiter'[v] = "sent"
    BY <1>3 DEF TypeOK
  <2>2. RequestOf(m, w) <=> w = v
    BY <1>3, RequestsDiffer
  <2> QED
    BY <1>2, <1>3, <2>1, <2>2, RequestSent DEF Kept
<1>4. CASE SendJoin
  <2>1. Join \in Waiters /\ WaitMsg(Join) \in Message /\ RequestOf(WaitMsg(Join), Join)
    BY MessageTypes, RequestsDiffer DEF Waiters
  <2> QED
    BY <1>3, <1>4, <2>1 DEF SendJoin
<1>5. ASSUME NEW t \in Terminators, SendTerminate(t)
      PROVE  Kept(w)'
  BY <1>3, <1>5, MessageTypes, RequestsDiffer DEF SendTerminate, Waiters
<1>6. CASE HandleMessage
  <2>1. mailbox # <<>> /\ mailbox \in Seq(Message)
    BY <1>0, <1>6 DEF HandleMessage, HandleRun, HandleWait, HandleTerminate,
       HandleSetHealthState, Receive, TypeOK
  <2>2. CASE HandleRun \/ HandleSetHealthState
    <3>1. ~RequestOf(Head(mailbox), w) /\ mailbox' = Tail(mailbox) /\ waiter' = waiter
      BY <2>2, RequestsDiffer DEF HandleRun, HandleSetHealthState, Receive
    <3> QED
      BY <1>2, <2>1, <3>1, RequestReceived DEF Kept
  <2>3. CASE HandleWait
    <3> DEFINE v == Head(mailbox).from
    <3>1. v \in Waiters /\ (RequestOf(Head(mailbox), w) <=> w = v)
      BY <2>1, <2>3, Received, MessageTypes, RequestsDiffer DEF HandleWait, Receive, TypeOK
    <3>2. /\ mailbox' = Tail(mailbox) /\ waiter'[v] \in {"subscribed", "done"}
          /\ w # v => waiter'[w] = waiter[w]
      BY <2>3, <3>1 DEF HandleWait, TypeOK
    <3> HIDE DEF v
    <3> QED
      BY <1>2, <2>1, <3>1, <3>2, RequestReceived DEF Kept
  <2>4. CASE HandleTerminate
    <3> DEFINE v == Head(mailbox).from
    <3>0. Head(mailbox) \in Message /\ Head(mailbox).type = "Terminate"
      BY <2>1, <2>4, Received DEF HandleTerminate, Receive
    <3>1. v \in Waiters /\ (RequestOf(Head(mailbox), w) <=> w = v)
      BY <3>0, MessageTypes, RequestsDiffer
    <3>2. mailbox' = Append(Tail(mailbox), WaitMsg(v)) /\ waiter' = waiter
      BY <2>4, <1>0 DEF HandleTerminate, PanicSite
    <3>3. /\ Tail(mailbox) \in Seq(Message) /\ WaitMsg(v) \in Message
          /\ RequestOf(WaitMsg(v), w) <=> w = v
      BY <2>1, <3>1, MessageTypes, RequestsDiffer
    <3> HIDE DEF v
    <3>4. CASE w = v
      <4>1. Once(mailbox, w) /\ waiter[w] = "sent"
        BY <2>1, <3>1, <3>4, RequestReceived DEF Kept
      <4>2. Never(Tail(mailbox), w)
        BY <2>1, <3>1, <3>4, <4>1, RequestReceived
      <4> QED
        BY <1>2, <3>2, <3>3, <3>4, <4>1, <4>2, RequestSent
    <3>5. CASE w # v
      <4>1. IF waiter[w] = "sent" THEN Once(Tail(mailbox), w) ELSE Never(Tail(mailbox), w)
        BY <2>1, <3>1, <3>5, RequestReceived DEF Kept
      <4> QED
        BY <1>2, <3>2, <3>3, <3>5, <4>1, RequestSent
    <3> QED
      BY <3>4, <3>5
  <2> QED
    BY <1>0, <1>6, <2>2, <2>3, <2>4 DEF HandleMessage
<1>7. CASE PollDaemon
  <2>1. CASE PollEmpty
    <3>1. mailbox = <<>> /\ mailbox' = <<RunMsg>> /\ waiter' = waiter
      BY <2>1, <1>0 DEF PollEmpty, PanicSite
    <3>2. Never(mailbox, w) /\ ~Once(mailbox, w)
      BY <3>1 DEF Never, Once
    <3>3. Never(mailbox', w)
      <4>1. Len(mailbox') = 1 /\ mailbox'[1] = RunMsg /\ ~RequestOf(RunMsg, w)
        BY <3>1, RequestsDiffer DEF RunMsg
      <4> QED
        BY <4>1 DEF Never
    <3> QED
      BY <1>2, <3>1, <3>2, <3>3 DEF Kept
  <2>2. CASE PollResult \/ PollSleep
    BY <1>1, <2>2, <1>0 DEF PollResult, PollSleep, Resolve, broadcast_stopped,
       PanicSite, TypeOK
  <2> QED
    BY <1>7, <2>1, <2>2 DEF PollDaemon
<1>8. CASE PollRun \/ ChildExits \/ Tick
  BY <1>1, <1>8 DEF PollRun, PollSpawnFailed, PollStopSignal, PollUnhealthySignal, PollExit,
     PollGraceOver, PollStopped, ChildExits, Tick
<1>9. ASSUME NEW g \in Gens, HealthStarted(g) \/ HealthStopSignal(g) \/ HealthInterval(g)
                              \/ HealthOk(g) \/ HealthFail(g)
      PROVE  Kept(w)'
  <2>1. /\ UNCHANGED waiter
        /\ \/ UNCHANGED mailbox
           \/ \E h \in {"Healthy", "Unhealthy"} :
                 mailbox' = Append(mailbox, SetHealthStateMsg(h, g))
    BY <1>9, <1>0 DEF HealthStarted, HealthStopSignal, HealthInterval, HealthOk, HealthFail,
       PanicSite
  <2>2. ASSUME NEW h \in {"Healthy", "Unhealthy"},
               mailbox' = Append(mailbox, SetHealthStateMsg(h, g))
        PROVE  Kept(w)'
    <3>1. /\ SetHealthStateMsg(h, g) \in Message
          /\ ~RequestOf(SetHealthStateMsg(h, g), w)
      BY MessageTypes, RequestsDiffer DEF SetHealthStateMsg
    <3>2. mailbox \in Seq(Message)
      BY DEF TypeOK
    <3> QED
      BY <1>2, <2>1, <2>2, <3>1, <3>2, RequestSent DEF Kept
  <2> QED
    BY <2>1, <2>2, <1>1
<1> QED
  BY <1>4, <1>5, <1>6, <1>7, <1>8, <1>9 DEF Next

(***************************************************************************)
(* Theorem: no Wait and no Terminate is lost or answered twice: as long as *)
(* it is neither subscribed nor answered, it is in the mailbox, once.      *)
(***************************************************************************)
THEOREM RequestsAreKept == Spec => []RequestKept
<1>1. Init => RequestKept
  BY DEF Init, RequestKept, RequestsOf
<1>2. ASSUME TypeOK, IInv, RequestKept, Next, panicked' = {}
      PROVE  RequestKept'
  <2>1. TypeOK'
    BY <1>2, TypeStep
  <2>2. \A w \in Waiters : Kept(w)
    BY <1>2, KeptIsRequestKept
  <2>3. \A w \in Waiters : Kept(w)'
    BY <1>2, <2>2, KeptStep
  <2>4. (RequestKept <=> \A w \in Waiters : Kept(w))'
    BY <2>1, KeptIsRequestKept, PTL
  <2> QED
    BY <2>3, <2>4
<1>3. ASSUME TypeOK, Calm, RequestKept, [Next]_vars
      PROVE  RequestKept'
  <2>1. CASE UNCHANGED keptVars
    BY <1>3, <2>1 DEF keptVars, RequestKept, RequestsOf, WaitMsg, TerminateMsg
  <2> QED
    BY <1>2, <1>3, <2>1, StepCases
<1> QED
  BY <1>1, <1>3, Invariant, PTL DEF Spec

(***************************************************************************)
(* A round that has been asked for has its Run message at the head of the  *)
(* mailbox.                                                                *)
(***************************************************************************)
RoundInv == AwaitingRun => mailbox # <<>> /\ mailbox[1] = RunMsg

LEMMA RoundStep ==
    ASSUME TypeOK, IInv, RoundInv, Next, panicked' = {}
    PROVE  RoundInv'
<1> USE DEF actorVars, daemonVars, runVars, healthVars, restVars
<1>0. ~(\E site \in PanicSite : Panic(site)) /\ ~HandleRunPanics
  BY DEF Panic, HandleRunPanics
<1>1. ASSUME AwaitingRun' => AwaitingRun, NEW m \in Message, mailbox' = Append(mailbox, m)
      PROVE  RoundInv'
  <2>1. mailbox \in Seq(Message) /\ RunMsg' = RunMsg
    BY DEF TypeOK, RunMsg
  <2>2. mailbox' # <<>> /\ (mailbox # <<>> => mailbox'[1] = mailbox[1])
    BY <1>1, <2>1
  <2> QED
    BY <1>1, <2>1, <2>2 DEF RoundInv
<1>2. ASSUME AwaitingRun' => AwaitingRun, UNCHANGED mailbox
      PROVE  RoundInv'
  BY <1>2 DEF RoundInv, RunMsg
<1>3. CASE HandleMessage
  <2>1. AwaitingRun => HandleRun
    <3>1. AwaitingRun => Head(mailbox) = RunMsg
      BY HeadIsFirst DEF RoundInv
    <3>2. HandleRun \/ Head(mailbox).type \in {"Wait", "Terminate", "SetHealthState"}
      BY <1>0, <1>3 DEF HandleMessage, HandleWait, HandleTerminate, HandleSetHealthState, Receive
    <3> QED
      BY <3>1, <3>2 DEF RunMsg
  <2>2. ~AwaitingRun'
    BY <1>0, <1>3, <2>1 DEF HandleMessage, HandleRun, HandleWait, HandleTerminate,
       HandleSetHealthState, AwaitingRun, Panic
  <2> QED
    BY <2>2 DEF RoundInv
<1>4. CASE PollDaemon
  <2>1. CASE PollEmpty
    <3>1. mailbox' = <<RunMsg>>
      BY <2>1, <1>0 DEF PollEmpty, PanicSite
    <3> QED
      BY <3>1 DEF RoundInv, RunMsg
  <2>2. CASE PollResult \/ PollSleep
    BY <2>2, <1>0 DEF PollResult, PollSleep, PanicSite, AwaitingRun, RoundInv
  <2> QED
    BY <1>4, <2>1, <2>2 DEF PollDaemon
<1>5. CASE PollRun
  BY <1>5 DEF PollRun, PollSpawnFailed, PollStopSignal, PollUnhealthySignal, PollExit,
     PollGraceOver, PollStopped, AwaitingRun, RoundInv
<1>6. ASSUME NEW g \in Gens, HealthStarted(g) \/ HealthStopSignal(g) \/ HealthInterval(g)
                              \/ HealthOk(g) \/ HealthFail(g)
      PROVE  RoundInv'
  <2>1. /\ UNCHANGED <<fut, run, result>>
        /\ \/ UNCHANGED mailbox
           \/ \E h \in {"Healthy", "Unhealthy"} :
                 mailbox' = Append(mailbox, SetHealthStateMsg(h, g))
    BY <1>6, <1>0 DEF HealthStarted, HealthStopSignal, HealthInterval, HealthOk, HealthFail,
       PanicSite
  <2>2. AwaitingRun' => AwaitingRun
    BY <2>1 DEF AwaitingRun
  <2> QED
    BY <1>1, <1>2, <2>1, <2>2, MessageTypes
<1>7. CASE SendJoin \/ (\E t \in Terminators : SendTerminate(t))
  <2>1. PICK m \in Message : mailbox' = Append(mailbox, m)
    BY <1>7, MessageTypes DEF SendJoin, SendTerminate, Waiters
  <2>2. AwaitingRun' => AwaitingRun
    BY <1>7 DEF SendJoin, SendTerminate, AwaitingRun
  <2> QED
    BY <1>1, <2>1, <2>2
<1>8. CASE ChildExits \/ Tick
  BY <1>2, <1>8 DEF ChildExits, Tick, AwaitingRun
<1> QED
  BY <1>3, <1>4, <1>5, <1>6, <1>7, <1>8 DEF Next

(***************************************************************************)
(* Theorem: while the Daemon future polls, its round is on its way, runs   *)
(* or has a result, in one place only, and the receiver of the stop signal *)
(* is where the round is.                                                  *)
(***************************************************************************)
THEOREM RoundsAreKept == Spec => []RoundKept
<1>1. Init => RoundInv /\ RoundKept
  BY DEF Init, RoundInv, RoundKept, AwaitingRun
<1>2. ASSUME TypeOK, IInv, ReceiverInv, RoundInv
      PROVE  RoundKept
  <2> DEFINE asked == \E i \in DOMAIN mailbox : mailbox[i] = RunMsg
             stopped == \/ fut = "Ready" \/ result = "Terminated"
                        \/ run \in {"Terminate", "Kill"} /\ abort = "Stop"
  <2>1. asked <=> AwaitingRun
    <3>1. mailbox \in Seq(Message) /\ DOMAIN mailbox = 1..Len(mailbox)
      BY <1>2 DEF TypeOK
    <3>2. asked => AwaitingRun
      BY <1>2, <3>1 DEF IInv, MailInv, RunMsg
    <3>3. AwaitingRun => asked
      BY <1>2, <3>1, HeadIsFirst DEF RoundInv
    <3> QED
      BY <3>2, <3>3
  <2>2. stop_rx = IF stopped THEN "dropped" ELSE IF fut = "Polling" THEN "run" ELSE "state"
    BY <1>2 DEF ReceiverInv, IInv, ChannelInv, PhaseInv, TypeOK
  <2> HIDE DEF asked
  <2>3. /\ fut = "Polling" <=> asked \/ run # "None" \/ result # "None"
        /\ ~(asked /\ run # "None") /\ ~(asked /\ result # "None")
        /\ ~(run # "None" /\ result # "None")
    BY <1>2, <2>1 DEF IInv, PhaseInv, AwaitingRun
  <2> QED
    BY <2>2, <2>3 DEF RoundKept, asked
<1>3. ASSUME TypeOK, TypeOK', Calm, ReceiverInv', RoundInv, RoundKept, [Next]_vars
      PROVE  RoundInv' /\ RoundKept'
  <2>1. CASE UNCHANGED keptVars
    BY <1>3, <2>1 DEF keptVars, daemonVars, RoundInv, RoundKept, AwaitingRun, RunMsg
  <2>2. CASE IInv /\ Next /\ panicked' = {} /\ IInv'
    <3>1. RoundInv'
      BY <1>3, <2>2, RoundStep
    <3>2. (TypeOK /\ IInv /\ ReceiverInv /\ RoundInv => RoundKept)'
      BY <1>2, PTL
    <3> QED
      BY <1>3, <2>2, <3>1, <3>2
  <2> QED
    BY <1>3, <2>1, <2>2, StepCases
<1> QED
  BY <1>1, <1>3, Invariant, ReceiverInvariant, PTL DEF Spec

(***************************************************************************)
(* Theorem: a daemon that has been told to stop is at most ten steps of    *)
(* its futures from its end, and each of them leads nearer, unless a spawn *)
(* fails: no exit, no unhealthy signal and no retry comes in between.      *)
(***************************************************************************)
THEOREM StopOnlyAdvances == Spec => StopAdvances
<1> DEFINE Advance ==
      stop_tx = "Sent" /\ ~(run # "SpawnFailed" /\ run' = "SpawnFailed")
        => UNCHANGED <<fut, run, result>> \/ StepsToEnd' < StepsToEnd
<1>1. ASSUME TypeOK, IInv, ReceiverInv, Next
      PROVE  Advance
  <2> USE DEF actorVars, daemonVars, runVars, healthVars, restVars
  <2>0. SUFFICES ASSUME stop_tx = "Sent", ~(run # "SpawnFailed" /\ run' = "SpawnFailed")
                 PROVE  UNCHANGED <<fut, run, result>> \/ StepsToEnd' < StepsToEnd
    OBVIOUS
  <2>1. CASE HandleRun
    <3>1. AwaitingRun
      BY <1>1, <2>1, RunAwaited
    <3>2. StepsToEnd = 5
      BY <3>1 DEF StepsToEnd, RunResult, AwaitingRun
    <3>3. fut' = "Polling" /\ result' = "None" /\ run' = "WaitAbort"
      BY <2>0, <2>1, <3>1 DEF HandleRun, AwaitingRun
    <3>4. StepsToEnd' = 4
      BY <3>3 DEF StepsToEnd, RunResult
    <3> QED
      BY <3>2, <3>4
  <2>2. CASE HandleRunPanics \/ HandleWait \/ HandleTerminate \/ HandleSetHealthState
    BY <2>2 DEF HandleRunPanics, HandleWait, HandleTerminate, HandleSetHealthState, Panic
  <2>3. CASE PollSleep
    <3>1. /\ fut = "Waiting" /\ run = "None" /\ result = "None"
          /\ fut' = "Empty" /\ run' = "None" /\ result' = "None"
      BY <1>1, <2>3 DEF PollSleep, IInv, PhaseInv
    <3> QED
      BY <3>1 DEF StepsToEnd, RunResult
  <2>4. CASE PollEmpty
    <3>1. CASE Panic("no state available")
      BY <3>1 DEF Panic
    <3>2. CASE ~Panic("no state available")
      <4>1. /\ fut \in {"Start", "Empty"} /\ run = "None" /\ result = "None"
            /\ fut' = "Polling" /\ run' = "None" /\ result' = "None"
        BY <1>1, <2>4, <3>2 DEF PollEmpty, IInv, PhaseInv
      <4> QED
        BY <4>1 DEF StepsToEnd, RunResult
    <3> QED
      BY <3>1, <3>2
  <2>5. CASE PollResult
    <3>1. CASE Panic("send stopped_tx signal")
      BY <3>1 DEF Panic
    <3>2. CASE ~Panic("send stopped_tx signal")
      <4>1. /\ fut = "Polling" /\ run = "None" /\ result \in RunResult
            /\ run' = "None" /\ result' = "None"
            /\ fut' = "Ready" \/ (fut' = "Waiting" /\ result # "Terminated")
        BY <1>1, <2>5, <3>2 DEF PollResult, BringsBack, IInv, PhaseInv, TypeOK
      <4>2. StepsToEnd = IF result = "Terminated" THEN 1 ELSE 8
        BY <4>1 DEF StepsToEnd, RunResult
      <4>3. StepsToEnd' = IF fut' = "Ready" THEN 0 ELSE 7
        BY <4>1 DEF StepsToEnd, RunResult
      <4> QED
        BY <4>1, <4>2, <4>3
    <3> QED
      BY <3>1, <3>2
  <2>6. CASE PollRun
    <3>0. fut = "Polling" /\ result = "None" /\ fut' = "Polling"
      BY <1>1, <2>6 DEF PollRun, PollSpawnFailed, PollStopSignal, PollUnhealthySignal, PollExit,
         PollGraceOver, PollStopped, IInv, PhaseInv
    <3>1. CASE PollSpawnFailed
      BY <3>0, <3>1 DEF PollSpawnFailed, StepsToEnd, RunResult
    <3>2. CASE PollStopSignal
      BY <3>0, <3>2 DEF PollStopSignal, StepsToEnd, RunResult
    <3>3. CASE PollUnhealthySignal \/ PollExit
      BY <2>0, <3>3 DEF PollUnhealthySignal, PollExit, StopReady
    <3>4. CASE PollGraceOver
      <4>1. abort \in {"Stop", "Unhealthy"}
        BY <1>1, <3>4 DEF PollGraceOver, ReceiverInv, TypeOK
      <4> QED
        BY <3>0, <3>4, <4>1 DEF PollGraceOver, StepsToEnd, RunResult
    <3>5. CASE PollStopped
      <4>1. abort \in {"Stop", "Unhealthy"}
        BY <1>1, <3>5 DEF PollStopped, ReceiverInv, TypeOK
      <4> QED
        BY <3>0, <3>5, <4>1 DEF PollStopped, StepsToEnd, RunResult
    <3> QED
      BY <2>6, <3>1, <3>2, <3>3, <3>4, <3>5 DEF PollRun
  <2>7. CASE \E g \in Gens : HealthStarted(g) \/ HealthStopSignal(g) \/ HealthInterval(g)
                              \/ HealthOk(g) \/ HealthFail(g)
    BY <2>7 DEF HealthStarted, HealthStopSignal, HealthInterval, HealthOk, HealthFail, Panic
  <2>8. CASE SendJoin \/ (\E t \in Terminators : SendTerminate(t)) \/ ChildExits \/ Tick
    BY <2>8 DEF SendJoin, SendTerminate, ChildExits, Tick
  <2> QED
    BY <1>1, <2>1, <2>2, <2>3, <2>4, <2>5, <2>6, <2>7, <2>8 DEF Next, HandleMessage, PollDaemon
<1>2. TypeOK /\ Calm /\ ReceiverInv /\ [Next]_vars => [Advance]_vars
  BY <1>1 DEF Next, Calm
<1> QED
  BY <1>2, Invariant, ReceiverInvariant, PTL DEF Spec, StopAdvances
=============================================================================
