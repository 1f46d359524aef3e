---------------------- MODULE CaretakerRefinementProofs ----------------------
(***************************************************************************)
(* Proof that Caretaker implements SupervisedProgram.                      *)
(***************************************************************************)
EXTENDS CaretakerProofs

(***************************************************************************)
(* What the mapping needs besides IInv and ReceiverInv: every message on   *)
(* its way belongs to somebody who has sent one.                           *)
(***************************************************************************)
Addressed(m, sent) ==
    /\ m.type \in {"Wait", "Terminate"} => sent[m.from] # "idle"
    /\ m.type = "Terminate" => m.from \in Terminators

SenderInv == \A i \in 1..Len(mailbox) : Addressed(mailbox[i], waiter)

RInv == TypeOK /\ IInv /\ ReceiverInv /\ SenderInv

(***************************************************************************)
(* What a step does to the mailbox, and that nobody takes back a Wait.     *)
(***************************************************************************)
LEMMA AppendAddressed ==
    ASSUME NEW box \in Seq(Message), NEW m \in Message, NEW sent, Addressed(m, sent),
           \A i \in 1..Len(box) : Addressed(box[i], sent)
    PROVE  \A i \in 1..Len(Append(box, m)) : Addressed(Append(box, m)[i], sent)
  OBVIOUS

LEMMA TailAddressed ==
    ASSUME NEW box \in Seq(Message), box # <<>>, NEW sent,
           \A i \in 1..Len(box) : Addressed(box[i], sent)
    PROVE  \A i \in 1..Len(Tail(box)) : Addressed(Tail(box)[i], sent)
  OBVIOUS

LEMMA StillAddressed ==
    ASSUME TypeOK, SenderInv, \A w \in Waiters : waiter[w] # "idle" => waiter'[w] # "idle"
    PROVE  \A i \in 1..Len(mailbox) : Addressed(mailbox[i], waiter')
  BY MessageTypes DEF TypeOK, SenderInv, Addressed

LEMMA SenderStep ==
    ASSUME TypeOK, IInv, SenderInv, Next, panicked' = {}
    PROVE  SenderInv'
<1> USE DEF actorVars, daemonVars, runVars, healthVars, restVars
<1>0. ~(\E site \in PanicSite : Panic(site)) /\ ~HandleRunPanics
  BY DEF Panic, HandleRunPanics
<1>1. ASSUME UNCHANGED mailbox, \A w \in Waiters : waiter[w] # "idle" => waiter'[w] # "idle"
      PROVE  SenderInv'
  BY <1>1, StillAddressed DEF SenderInv
<1>2. CASE \/ SendJoin \/ \E t \in Terminators : SendTerminate(t)
  <2>1. PICK w \in Waiters, m \in Message :
          /\ waiter' = [waiter EXCEPT ![w] = "sent"] /\ mailbox' = Append(mailbox, m)
          /\ m = WaitMsg(w) \/ (m = TerminateMsg(w) /\ w \in Terminators)
    BY <1>2, MessageTypes DEF SendJoin, SendTerminate, Waiters
  <2>2. m \in Message /\ Addressed(m, waiter')
    BY <2>1 DEF Addressed, WaitMsg, TerminateMsg, TypeOK
  <2>3. \A v \in Waiters : waiter[v] # "idle" => waiter'[v] # "idle"
    BY <2>1 DEF TypeOK
  <2> QED
    BY <2>1, <2>2, <2>3, StillAddressed, AppendAddressed DEF SenderInv, TypeOK
<1>3. CASE HandleMessage
  <2>1. mailbox # <<>>
    BY <1>0, <1>3 DEF HandleMessage, HandleRun, HandleWait, HandleTerminate,
       HandleSetHealthState, Receive
  <2>2. Head(mailbox).type \in {"Wait", "Terminate"} => Head(mailbox).from \in Waiters
    BY <2>1, HeadIsFirst, MessageTypes
  <2>3. \A w \in Waiters : waiter[w] # "idle" => waiter'[w] # "idle"
    BY <1>3, <2>2, <1>0 DEF HandleMessage, HandleRun, HandleWait, HandleTerminate,
       HandleSetHealthState, Receive, TypeOK, PanicSite
  <2>4. \A i \in 1..Len(Tail(mailbox)) : Addressed(Tail(mailbox)[i], waiter')
    BY <2>1, <2>3, StillAddressed, TailAddressed, HeadIsFirst
  <2>5. CASE HandleTerminate
    <3>1. mailbox' = Append(Tail(mailbox), WaitMsg(Head(mailbox).from))
      BY <2>5, <1>0 DEF HandleTerminate, PanicSite
    <3>2. Head(mailbox).type = "Terminate"
      BY <2>5 DEF HandleTerminate, Receive
    <3>3. Addressed(WaitMsg(Head(mailbox).from), waiter')
      BY <2>1, <2>2, <2>3, <3>2, HeadIsFirst DEF SenderInv, Addressed, WaitMsg
    <3>4. WaitMsg(Head(mailbox).from) \in Message
      BY <2>2, <3>2, MessageTypes
    <3>5. Tail(mailbox) \in Seq(Message)
      BY <2>1, HeadIsFirst
    <3> QED
      BY <2>4, <3>1, <3>3, <3>4, <3>5, AppendAddressed DEF SenderInv
  <2>6. CASE HandleRun \/ HandleWait \/ HandleSetHealthState
    BY <2>4, <2>6 DEF HandleRun, HandleWait, HandleSetHealthState, SenderInv
  <2> QED
    BY <1>0, <1>3, <2>5, <2>6 DEF HandleMessage
<1>4. CASE PollDaemon
  <2>1. \A w \in Waiters : waiter[w] # "idle" => waiter'[w] # "idle"
    BY <1>4, <1>0 DEF PollDaemon, PollEmpty, PollResult, PollSleep, Resolve,
       broadcast_stopped, PanicSite, TypeOK
  <2>2. CASE PollEmpty
    <3>1. UNCHANGED mailbox \/ mailbox' = <<RunMsg>>
      BY <2>2, <1>0 DEF PollEmpty, PanicSite
    <3>2. CASE mailbox' = <<RunMsg>>
      <4>1. Len(mailbox') = 1 /\ mailbox'[1] = RunMsg
        BY <3>2
      <4>2. Addressed(RunMsg, waiter')
        BY DEF Addressed, RunMsg
      <4> QED
        BY <4>1, <4>2 DEF SenderInv
    <3> QED
      BY <2>1, <3>1, <3>2, <1>1
  <2>3. CASE PollResult \/ PollSleep
    <3>1. UNCHANGED mailbox
      BY <2>3, <1>0 DEF PollResult, PollSleep, PanicSite
    <3> QED
      BY <2>1, <3>1, <1>1
  <2> QED
    BY <1>4, <2>2, <2>3 DEF PollDaemon
<1>5. CASE PollRun \/ ChildExits \/ Tick
  <2>1. UNCHANGED <<mailbox, waiter>>
    BY <1>5 DEF PollRun, PollSpawnFailed, PollStopSignal, PollUnhealthySignal, PollExit,
       PollGraceOver, PollStopped, ChildExits, Tick
  <2> QED
    BY <2>1, <1>1
<1>6. ASSUME NEW g \in Gens, HealthStarted(g) \/ HealthStopSignal(g) \/ HealthInterval(g)
                              \/ HealthOk(g) \/ HealthFail(g)
      PROVE  SenderInv'
  <2>1. /\ UNCHANGED waiter
        /\ \/ UNCHANGED mailbox
           \/ \E h \in {"Healthy", "Unhealthy"} :
                 mailbox' = Append(mailbox, SetHealthStateMsg(h, g))
    BY <1>6, <1>0 DEF HealthStarted, HealthStopSignal, HealthInterval, HealthOk, HealthFail,
       PanicSite
  <2>2. ASSUME NEW h \in {"Healthy", "Unhealthy"},
               mailbox' = Append(mailbox, SetHealthStateMsg(h, g))
        PROVE  SenderInv'
    <3>1. /\ SetHealthStateMsg(h, g) \in Message
          /\ Addressed(SetHealthStateMsg(h, g), waiter')
      BY MessageTypes DEF SetHealthStateMsg, Addressed
    <3> QED
      BY <2>1, <2>2, <3>1, StillAddressed, AppendAddressed DEF SenderInv, TypeOK
  <2> QED
    BY <2>1, <2>2, <1>1
<1> QED
  BY <1>2, <1>3, <1>4, <1>5, <1>6 DEF Next

LEMMA SenderInvariant == Spec => []SenderInv
<1>1. Init => SenderInv
  BY DEF Init, SenderInv
<1>2. ASSUME TypeOK, Calm, SenderInv, [Next]_vars
      PROVE  SenderInv'
  <2>1. CASE UNCHANGED keptVars
    BY <1>2, <2>1 DEF keptVars, SenderInv, Addressed
  <2> QED
    BY <1>2, <2>1, StepCases, SenderStep
<1> QED
  BY <1>1, <1>2, Invariant, PTL DEF Spec
-----------------------------------------------------------------------------
(* Every step is a step of the program or changes nothing of it.           *)

ProgramStep == [Program!Next]_(Program!vars)

Aborting == run \in {"WaitAbort", "Terminate", "Kill"}

\* The mapped state, for steps that leave it alone.
LEMMA StutterMapped ==
    ASSUME UNCHANGED <<status, waiter, stop_tx>>, (fut = "Ready") <=> (fut' = "Ready"),
           HasChild <=> HasChild',
           stop_tx = "Sent" => (stop_rx = "dropped" <=> stop_rx' = "dropped")
    PROVE  UNCHANGED Program!vars
<1>1. UNCHANGED HasChild
  BY DEF HasChild
<1> QED
  BY <1>1 DEF Program!vars, AbstractStop, AbstractWaits

LEMMA HandlersMapped ==
    ASSUME RInv, HandleMessage, panicked' = {}, HasChild <=> Aborting, HasChild' <=> Aborting'
    PROVE  ProgramStep
<1> USE DEF actorVars, daemonVars, runVars, healthVars, restVars
<1>1. CASE HandleRun
  <2>1. AwaitingRun
    BY <1>1, RunAwaited DEF RInv
  <2>2. AbstractStop # "Consumed" /\ fut # "Ready" /\ run = "None" /\ ~HasChild
    BY <2>1 DEF AbstractStop, AwaitingRun, Aborting, RInv, ReceiverInv
  <2>3. UNCHANGED <<AbstractStop, AbstractWaits, fut>>
    BY <1>1 DEF HandleRun, AbstractStop, AbstractWaits
  <2>4. CASE run' = "WaitAbort"
    BY <1>1, <2>2, <2>3, <2>4 DEF Aborting, HandleRun, ProgramStep, Program!Next, Program!Spawn
  <2>5. CASE run' = "SpawnFailed"
    <3>1. HasChild' = HasChild
      BY <2>2, <2>5 DEF Aborting, HasChild
    <3> QED
      BY <1>1, <2>2, <2>3, <2>5, <3>1 DEF HandleRun, ProgramStep, Program!Next, Program!SpawnFails
  <2> QED
    BY <1>1, <2>4, <2>5 DEF HandleRun
<1>2. CASE HandleWait
  <2> DEFINE w == Head(mailbox).from
  <2>1. w \in Waiters /\ waiter[w] # "idle"
    BY <1>2, HeadIsFirst, MessageTypes DEF HandleWait, Receive, RInv, SenderInv, Addressed
  <2>2. /\ waiter' = [waiter EXCEPT ![w] = IF stopped_tx THEN "subscribed" ELSE "done"]
        /\ UNCHANGED <<status, stop_tx, stop_rx, fut, HasChild>>
    BY <1>2 DEF HandleWait, HasChild
  <2>3. UNCHANGED AbstractStop
    BY <2>1, <2>2 DEF AbstractStop, RInv, TypeOK
  <2>4. stopped_tx <=> fut # "Ready"
    BY DEF RInv, IInv, ChannelInv
  <2>5. waiter \in [Waiters -> {"idle", "sent", "subscribed", "done"}]
    BY DEF RInv, TypeOK
  <2> HIDE DEF w
  <2>6. CASE stopped_tx
    <3>1. waiter[w] \in {"sent", "subscribed"}
      BY <2>1, <2>4, <2>5, <2>6 DEF RInv, IInv, WaitMeansGone
    <3>2. UNCHANGED AbstractWaits
      BY <2>1, <2>2, <2>5, <2>6, <3>1 DEF AbstractWaits
    <3> QED
      BY <2>2, <2>3, <3>2 DEF ProgramStep, Program!vars
  <2>7. CASE ~stopped_tx
    <3>1. waiter[w] \in {"sent", "done"}
      BY <2>1, <2>4, <2>5, <2>7 DEF RInv, IInv, WaitMeansGone
    <3>2. AbstractWaits' = [AbstractWaits EXCEPT ![w] = "done"]
      BY <2>1, <2>2, <2>5, <2>7, <3>1 DEF AbstractWaits
    <3>3. CASE waiter[w] = "sent"
      <4>1. AbstractWaits[w] = "sent"
        BY <2>1, <3>3 DEF AbstractWaits
      <4> QED
        BY <2>1, <2>2, <2>3, <2>4, <2>7, <3>2, <4>1 DEF ProgramStep, Program!Next, Program!Answer
    <3>4. CASE waiter[w] = "done"
      <4>1. UNCHANGED AbstractWaits
        BY <2>1, <2>2, <2>5, <2>7, <3>4 DEF AbstractWaits
      <4> QED
        BY <2>2, <2>3, <4>1 DEF ProgramStep, Program!vars
    <3> QED
      BY <3>1, <3>3, <3>4
  <2> QED
    BY <2>6, <2>7
<1>3. CASE HandleTerminate
  <2>1. ~(stop_tx = "Some" /\ stop_rx = "dropped")
    BY DEF RInv, IInv, ChannelInv
  <2>2. /\ stop_tx' = IF stop_tx = "Some" THEN "Sent" ELSE stop_tx
        /\ UNCHANGED <<status, waiter, stop_rx, fut, HasChild>>
    BY <1>3, <2>1 DEF HandleTerminate, HasChild
  <2>3. UNCHANGED AbstractWaits
    BY <2>2 DEF AbstractWaits
  <2>4. CASE stop_tx = "Some"
    <3>1. Head(mailbox).from \in Terminators /\ waiter[Head(mailbox).from] # "idle"
      BY <1>3, HeadIsFirst DEF HandleTerminate, Receive, RInv, SenderInv, Addressed
    <3>2. AbstractStop = "Asked" /\ AbstractStop' = "Signalled" /\ fut # "Ready"
      BY <2>1, <2>2, <2>4, <3>1 DEF AbstractStop, RInv, ReceiverInv
    <3> QED
      BY <2>2, <2>3, <3>2 DEF ProgramStep, Program!Next, Program!Signal
  <2>5. CASE stop_tx # "Some"
    BY <2>2, <2>5, StutterMapped DEF ProgramStep
  <2> QED
    BY <2>4, <2>5
<1>4. CASE HandleSetHealthState
  <2>1. /\ mailbox # <<>> /\ Head(mailbox).type = "SetHealthState"
        /\ UNCHANGED <<stop_tx, stop_rx, waiter, fut, run, HasChild>>
    BY <1>4 DEF HandleSetHealthState, Receive, HasChild
  <2>2. UNCHANGED <<AbstractStop, AbstractWaits>>
    BY <2>1 DEF AbstractStop, AbstractWaits
  <2>3. CASE status' = status
    BY <2>1, <2>2, <2>3 DEF ProgramStep, Program!vars
  <2>4. CASE status' # status
    <3>1. status' \in {"Healthy", "Unhealthy"} /\ status \in Program!Running
      BY <1>4, <2>1, <2>4, HeadIsFirst, MessageTypes DEF HandleSetHealthState, HealthState,
         Program!Running, Program!Health, RInv
    <3>2. HasChild
      BY <2>1, <3>1, InvHandlers DEF RInv, IInv, StatusHonest, HealthState, Aborting
    <3> QED
      BY <2>1, <2>2, <3>1, <3>2 DEF ProgramStep, Program!Next, Program!Report
  <2> QED
    BY <2>3, <2>4
<1>5. ~HandleRunPanics
  BY DEF HandleRunPanics
<1> QED
  BY <1>1, <1>2, <1>3, <1>4, <1>5 DEF HandleMessage

LEMMA PollDaemonMapped ==
    ASSUME RInv, PollDaemon, panicked' = {}, HasChild <=> Aborting, HasChild' <=> Aborting'
    PROVE  ProgramStep
<1> USE DEF actorVars, daemonVars, runVars, healthVars, restVars
<1>0. ~(\E site \in PanicSite : Panic(site))
  BY DEF Panic
<1>1. CASE PollEmpty \/ PollSleep
  <2>1. /\ UNCHANGED <<status, waiter, stop_tx, HasChild>> /\ fut # "Ready" /\ fut' # "Ready"
        /\ stop_rx # "dropped" /\ stop_rx' # "dropped"
    BY <1>1, <1>0 DEF PollEmpty, PollSleep, PanicSite, RInv, IInv, ChannelInv, HasChild
  <2> QED
    BY <2>1, StutterMapped DEF ProgramStep
<1>2. CASE PollResult
  <2> DEFINE died == BringsBack(result)
             marked == IF died THEN mark(retries, 0) ELSE retries
             again == died /\ allowed(marked)
  <2>1. /\ fut = "Polling" /\ result # "None" /\ status = "Terminated"
        /\ run = "None" /\ ~Aborting
        /\ UNCHANGED HasChild
        /\ fut' = (IF again THEN "Waiting" ELSE "Ready")
        /\ stop_rx' = (IF again THEN "state" ELSE "dropped")
        /\ IF again THEN UNCHANGED actorVars ELSE Resolve(~died)
    BY <1>2, <1>0 DEF PollResult, PanicSite, RInv, IInv, PhaseInv, HasChild, Aborting
  <2>2. died <=> stop_rx # "dropped"
    BY <2>1 DEF BringsBack, RInv, ReceiverInv
  <2>3. stop_tx \in {"Some", "Sent"} /\ (stop_rx = "dropped" => stop_tx = "Sent")
    BY <2>1 DEF RInv, TypeOK, IInv, ChannelInv, ReceiverInv
  <2> HIDE DEF died, marked
  <2>4. CASE again
    <3>1. UNCHANGED <<status, waiter, stop_tx>> /\ fut' # "Ready" /\ stop_rx' # "dropped"
      BY <2>1, <2>4
    <3> QED
      BY <2>1, <2>2, <2>4, <3>1, StutterMapped DEF ProgramStep
  <2>5. CASE ~again
    <3> DEFINE W == {w \in Waiters : waiter[w] = "subscribed"}
    <3>1. /\ fut' = "Ready" /\ stop_rx' = "dropped"
          /\ status' = IF ~died THEN status ELSE "Failed"
          /\ waiter' = [w \in Waiters |-> IF waiter[w] = "subscribed" THEN "done" ELSE waiter[w]]
          /\ stop_tx' = IF stop_tx = "Some" THEN "None" ELSE stop_tx
      BY <2>1, <2>5 DEF Resolve, broadcast_stopped
    <3>2. W \in SUBSET {w \in Waiters : AbstractWaits[w] = "sent"}
      BY DEF AbstractWaits
    <3>3. AbstractWaits' = [w \in Waiters |-> IF w \in W THEN "done" ELSE AbstractWaits[w]]
      BY <3>1 DEF AbstractWaits
    <3>4. (\E t \in Terminators : waiter'[t] # "idle") <=> (\E t \in Terminators : waiter[t] # "idle")
      BY <3>1 DEF Waiters
    <3>5. /\ AbstractStop' = IF AbstractStop = "Signalled" THEN "Consumed" ELSE AbstractStop
          /\ AbstractStop = "Consumed" <=> ~died
      BY <2>2, <2>3, <3>1, <3>4 DEF AbstractStop
    <3>6. status' = IF AbstractStop = "Consumed" THEN "Terminated" ELSE "Failed"
      BY <2>1, <3>1, <3>5
    <3> HIDE DEF W
    <3>7. \E V \in SUBSET {w \in Waiters : AbstractWaits[w] = "sent"} :
             AbstractWaits' = [w \in Waiters |-> IF w \in V THEN "done" ELSE AbstractWaits[w]]
      BY <3>2, <3>3
    <3> QED
      BY <2>1, <3>1, <3>5, <3>6, <3>7 DEF ProgramStep, Program!Next, Program!Finish
  <2> QED
    BY <2>4, <2>5
<1> QED
  BY <1>1, <1>2 DEF PollDaemon

LEMMA PollRunMapped ==
    ASSUME RInv, PollRun, panicked' = {}, HasChild <=> Aborting, HasChild' <=> Aborting'
    PROVE  ProgramStep
<1> USE DEF actorVars, daemonVars, healthVars, restVars
<1>0. /\ fut = "Polling" /\ UNCHANGED <<fut, waiter, stop_tx>> /\ UNCHANGED AbstractWaits
  BY DEF PollRun, PollSpawnFailed, PollStopSignal, PollUnhealthySignal, PollExit, PollGraceOver,
     PollStopped, RInv, IInv, PhaseInv, AbstractWaits
<1>1. run \in {"SpawnFailed", "WaitAbort"} => stop_rx # "dropped" /\ stop_tx # "None"
  BY DEF RInv, IInv, PhaseInv, ReceiverInv
<1>2. run = "WaitAbort" => status \in Program!Running
  BY DEF RInv, IInv, StatusHonest, TypeOK, Lifecycle, HealthState, Program!Running, Program!Health
<1>3. CASE PollSpawnFailed
  <2>1. UNCHANGED AbstractStop /\ AbstractStop # "Consumed"
    BY <1>1, <1>3 DEF PollSpawnFailed, AbstractStop
  <2>2. ~HasChild /\ UNCHANGED HasChild
    BY <1>3 DEF PollSpawnFailed, Aborting, HasChild
  <2> QED
    BY <1>0, <1>3, <2>1, <2>2 DEF PollSpawnFailed, ProgramStep, Program!Next, Program!SpawnFails
<1>4. CASE PollStopSignal
  <2>1. stop_tx = "Sent"
    BY <1>1, <1>4 DEF PollStopSignal, StopReady, RInv, TypeOK
  <2>2. AbstractStop = "Signalled" /\ AbstractStop' = "Consumed"
    BY <1>0, <1>1, <1>4, <2>1 DEF PollStopSignal, AbstractStop
  <2> QED
    BY <1>0, <1>2, <1>4, <2>2 DEF Aborting, PollStopSignal, ProgramStep, Program!Next, Program!Stop
<1>5. CASE PollUnhealthySignal
  <2>1. AbstractStop \in {"No", "Asked"} /\ UNCHANGED AbstractStop
    BY <1>5 DEF PollUnhealthySignal, StopReady, AbstractStop
  <2> QED
    BY <1>0, <1>2, <1>5, <2>1 DEF Aborting, PollUnhealthySignal, ProgramStep, Program!Next,
       Program!Stop
<1>6. CASE PollExit
  <2>1. AbstractStop \in {"No", "Asked"} /\ UNCHANGED AbstractStop
    BY <1>6 DEF PollExit, StopReady, AbstractStop
  <2> QED
    BY <1>0, <1>2, <1>6, <2>1 DEF Aborting, PollExit, ProgramStep, Program!Next, Program!Exit
<1>7. CASE PollGraceOver
  BY <1>7, StutterMapped DEF Aborting, PollGraceOver, ProgramStep
<1>8. CASE PollStopped
  <2>1. status = "Terminating" /\ UNCHANGED AbstractStop
    BY <1>8 DEF PollStopped, AbstractStop, RInv, IInv, StatusHonest
  <2> QED
    BY <1>0, <1>8, <2>1 DEF Aborting, PollStopped, ProgramStep, Program!Next, Program!Exit
<1> QED
  BY <1>3, <1>4, <1>5, <1>6, <1>7, <1>8 DEF PollRun

LEMMA StepMapped ==
    ASSUME RInv, Next, panicked' = {}, IInv'
    PROVE  ProgramStep
<1> USE DEF actorVars, daemonVars, runVars, healthVars, restVars
<1>0. ~ \E site \in PanicSite : Panic(site)
  BY DEF Panic
<1>1. (HasChild <=> Aborting) /\ (HasChild' <=> Aborting')
  BY DEF RInv, IInv, ChildOwned, Aborting
<1>2. ASSUME NEW w \in Waiters, waiter[w] = "idle", waiter' = [waiter EXCEPT ![w] = "sent"],
             UNCHANGED <<status, stop_tx, stop_rx, fut, HasChild>>
      PROVE  ProgramStep
  <2>1. AbstractWaits[w] = "idle" /\ AbstractWaits' = [AbstractWaits EXCEPT ![w] = "sent"]
    BY <1>2 DEF AbstractWaits, RInv, TypeOK
  <2>2. AbstractStop' \in {AbstractStop} \cup (IF AbstractStop = "No" THEN {"Asked"} ELSE {})
    <3>1. (\E t \in Terminators : waiter[t] # "idle") => \E t \in Terminators : waiter'[t] # "idle"
      BY <1>2 DEF RInv, TypeOK, Waiters
    <3> QED
      BY <1>2, <3>1 DEF AbstractStop
  <2> QED
    BY <1>2, <2>1, <2>2 DEF ProgramStep, Program!Next, Program!Ask
<1>3. CASE SendJoin \/ \E t \in Terminators : SendTerminate(t)
  BY <1>2, <1>3 DEF SendJoin, SendTerminate, Waiters, HasChild
<1>4. CASE ChildExits \/ Tick
  <2>1. HasChild' <=> HasChild
    BY <1>4 DEF ChildExits, Tick, HasChild
  <2> QED
    BY <1>4, <2>1, StutterMapped DEF ChildExits, Tick, ProgramStep
<1>5. CASE \E g \in Gens : HealthStarted(g) \/ HealthStopSignal(g) \/ HealthInterval(g)
                            \/ HealthOk(g) \/ HealthFail(g)
  <2>1. UNCHANGED <<status, waiter, stop_tx, stop_rx, fut, HasChild>>
    BY <1>5, <1>0 DEF HealthStarted, HealthStopSignal, HealthInterval, HealthOk, HealthFail,
       PanicSite, HasChild
  <2> QED
    BY <2>1, StutterMapped DEF ProgramStep
<1> QED
  BY <1>1, <1>3, <1>4, <1>5, HandlersMapped, PollDaemonMapped, PollRunMapped DEF Next

\* A panic changes nothing of the program, or leaves it with a child.
LEMMA PanicMapped ==
    ASSUME TypeOK, Calm, ReceiverInv, [Next]_vars, UNCHANGED keptVars,
           UNCHANGED <<status, child, lateSpawns>> \/ (IInv /\ AwaitingRun /\ HandleRunPanics)
    PROVE  ProgramStep
<1> USE DEF keptVars, daemonVars
<1>1. CASE UNCHANGED <<status, child, lateSpawns>>
  <2>1. HasChild' <=> HasChild
    BY <1>1 DEF HasChild
  <2> QED
    BY <1>1, <2>1, StutterMapped DEF ProgramStep
<1>2. CASE IInv /\ AwaitingRun /\ HandleRunPanics
  <2>1. AbstractStop # "Consumed" /\ fut # "Ready" /\ run = "None"
    BY <1>2 DEF AbstractStop, AwaitingRun, ReceiverInv
  <2>2. UNCHANGED <<AbstractStop, AbstractWaits, fut>>
    BY DEF AbstractStop, AbstractWaits
  <2>3. ~HasChild /\ HasChild' /\ status' = "Unknown"
    BY <1>2, <2>1 DEF IInv, ChildOwned, HasChild, HandleRunPanics
  <2> QED
    BY <2>1, <2>2, <2>3 DEF ProgramStep, Program!Next, Program!Spawn
<1> QED
  BY <1>1, <1>2

(***************************************************************************)
(* Theorem: Caretaker implements SupervisedProgram, for every number of    *)
(* Terminates and every configuration: whoever talks to a caretaker may    *)
(* reason with the abstract program (supervisor/caretaker.rs, futs.rs).    *)
(***************************************************************************)
THEOREM CaretakerImplementsProgram == Spec => ImplementsProgram
<1>1. Init => Program!Init
  BY DEF Init, Program!Init, AbstractStop, AbstractWaits, Waiters, HasChild, Exited
<1>2. ASSUME TypeOK, Calm, ReceiverInv, SenderInv, [Next]_vars
      PROVE  ProgramStep
  BY <1>2, StepCases, StepMapped, PanicMapped DEF RInv
<1>3. TypeOK /\ Calm /\ ReceiverInv /\ SenderInv /\ [Next]_vars
        => [Program!Next]_(Program!vars)
  BY <1>2 DEF ProgramStep
<1> QED
  BY <1>1, <1>3, Invariant, ReceiverInvariant, SenderInvariant, PTL
     DEF Spec, ImplementsProgram, Program!Spec
=============================================================================
