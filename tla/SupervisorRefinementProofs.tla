--------------------- MODULE SupervisorRefinementProofs ---------------------
(***************************************************************************)
(* For any number of programs and signals: what Supervisor does with every *)
(* caretaker is what SupervisedProgram allows, and none of the signals,    *)
(* Waits and requests it passes on is lost.                                *)
(***************************************************************************)
EXTENDS SupervisorProofs

(***************************************************************************)
(* What the mapping needs besides IInv: Join is sent once, and a Wait of   *)
(* it is only on its way to a caretaker after that; a child belongs to a   *)
(* run that has not ended.                                                 *)
(***************************************************************************)
JoinSentInv ==
    /\ joinTask = "Spawned" => \A p \in Programs : join[p] = "unsent"
    /\ \A i \in 1..Len(mailbox) : mailbox[i] = "Join" =>
          /\ joinTask # "Spawned"
          /\ \A p \in Programs : join[p] = "unsent"
          /\ \A j \in 1..Len(mailbox) : mailbox[j] = "Join" => j = i

JoinWaitInv ==
    \A p \in Programs : \A i \in 1..Len(inbox[p]) :
        inbox[p][i] = "JoinWait" => join[p] # "unsent"

ChildInv ==
    \A p \in Programs :
        program[p].child => program[p].status \in Running \cup {"Terminating"}

RInv == IInv /\ JoinSentInv /\ JoinWaitInv /\ ChildInv
-----------------------------------------------------------------------------
LEMMA TailShifts ==
    ASSUME NEW S, NEW s \in Seq(S), s # <<>>
    PROVE  /\ Len(Tail(s)) = Len(s) - 1 /\ Len(s) \in Nat \ {0}
           /\ \A i \in 1..Len(Tail(s)) : Tail(s)[i] = s[i + 1] /\ i + 1 \in 1..Len(s)
           /\ Head(s) = s[1]
  OBVIOUS

LEMMA AppendShifts ==
    ASSUME NEW S, NEW s \in Seq(S), NEW m \in S
    PROVE  /\ Len(Append(s, m)) = Len(s) + 1 /\ Len(s) \in Nat
           /\ \A i \in 1..Len(s) : Append(s, m)[i] = s[i]
           /\ Append(s, m)[Len(s) + 1] = m
  OBVIOUS

\* A message that is not Join comes into the mailbox.
LEMMA OtherSent ==
    ASSUME IInv, JoinSentInv, NEW m \in SupervisorMessage \ {"Join"},
           mailbox' = Append(mailbox, m), UNCHANGED <<joinTask, join>>
    PROVE  JoinSentInv'
<1>1. mailbox \in Seq(SupervisorMessage)
  BY DEF IInv, TypeOK
<1>2. \A i \in 1..Len(mailbox') : mailbox'[i] = "Join" => i \in 1..Len(mailbox) /\ mailbox[i] = "Join"
  BY <1>1, AppendShifts
<1> QED BY <1>2 DEF JoinSentInv

LEMMA JoinSentStep ==
    ASSUME RInv, [Next]_vars
    PROVE  JoinSentInv'
<1> USE DEF procVars, joinVars, httpVars
<1>0. mailbox \in Seq(SupervisorMessage) /\ "Join" \in SupervisorMessage
  BY Messages DEF RInv, IInv, TypeOK
<1>1. CASE SendJoin
  <2>1. \A i \in 1..Len(mailbox) : mailbox[i] # "Join"
    BY <1>1 DEF SendJoin, RInv, JoinSentInv
  <2>2. \A i \in 1..Len(mailbox') : mailbox'[i] = "Join" => i = Len(mailbox) + 1
    BY <1>0, <1>1, <2>1, AppendShifts DEF SendJoin
  <2> QED BY <1>1, <2>2 DEF SendJoin, RInv, JoinSentInv
<1>2. CASE HandleSignal \/ Ask
  BY <1>2, OtherSent, Messages DEF HandleSignal, Ask, RInv
<1>3. CASE SupervisorHandles
  <2>1. mailbox # <<>> /\ mailbox' = Tail(mailbox)
    BY <1>3 DEF SupervisorHandles, HandleJoin, HandleTerminateAll, HandleGetStatusAll, Receive
  <2>2. \A i \in 1..Len(mailbox') : mailbox'[i] = mailbox[i + 1] /\ i + 1 \in 1..Len(mailbox)
    BY <1>0, <2>1, TailShifts
  <2>3. CASE HandleJoin
    <3>1. mailbox[1] = "Join" /\ 1 \in 1..Len(mailbox)
      BY <1>0, <2>1, <2>3, TailShifts DEF HandleJoin, Receive
    <3>2. \A i \in 1..Len(mailbox') : mailbox'[i] # "Join"
      <4>1. ASSUME NEW i \in 1..Len(mailbox'), mailbox'[i] = "Join" PROVE FALSE
        <5>1. i + 1 = 1
          BY <2>2, <3>1, <4>1 DEF RInv, JoinSentInv
        <5> QED BY <5>1
      <4> QED BY <4>1
    <3>3. joinTask' # "Spawned"
      BY <2>3, <3>1 DEF HandleJoin, RInv, JoinSentInv
    <3> QED BY <3>2, <3>3 DEF JoinSentInv
  <2>4. CASE HandleTerminateAll \/ HandleGetStatusAll
    <3>1. UNCHANGED <<joinTask, join>>
      BY <2>4 DEF HandleTerminateAll, HandleGetStatusAll
    <3>2. ASSUME NEW i \in 1..Len(mailbox'), mailbox'[i] = "Join"
          PROVE  /\ joinTask # "Spawned" /\ \A p \in Programs : join[p] = "unsent"
                 /\ \A j \in 1..Len(mailbox') : mailbox'[j] = "Join" => j = i
      <4>1. ASSUME NEW j \in 1..Len(mailbox'), mailbox'[j] = "Join" PROVE j = i
        <5>1. j + 1 = i + 1
          BY <2>2, <3>2, <4>1 DEF RInv, JoinSentInv
        <5> QED BY <5>1
      <4> QED BY <2>2, <3>2, <4>1 DEF RInv, JoinSentInv
    <3> QED BY <3>1, <3>2 DEF RInv, JoinSentInv
  <2> QED BY <1>3, <2>3, <2>4 DEF SupervisorHandles
<1>4. ASSUME UNCHANGED mailbox, joinTask' = joinTask \/ joinTask' # "Spawned",
             \A p \in Programs : join[p] = "unsent" => join'[p] = "unsent"
      PROVE  JoinSentInv'
  <2>1. joinTask' = "Spawned" => joinTask = "Spawned"
    BY <1>4
  <2> QED BY <1>4, <2>1 DEF RInv, JoinSentInv
<1>5. CASE Bind \/ JoinEnds \/ Return \/ SignalArrives \/ ServerStops \/ Respond \/ UNCHANGED vars
  BY <1>4, <1>5 DEF Bind, JoinEnds, Return, SignalArrives, ServerStops, Respond, vars
<1>6. ASSUME NEW p \in Programs, ProgramMoves(p) PROVE JoinSentInv'
  <2>1. UNCHANGED <<mailbox, joinTask>>
    BY <1>6 DEF ProgramMoves, CaretakerHandles, HandleJoinWait, HandleWait, HandleTerminate,
                HandleGetStatus, Spawn, SpawnFails, Report, StopChild, ChildEnds, DaemonEnds, Becomes
  <2>2. CASE HandleJoinWait(p)
    <3>1. join[p] # "unsent"
      <4>1. inbox[p] \in Seq(CaretakerMessage)
        BY DEF RInv, IInv, TypeOK
      <4>2. inbox[p][1] = "JoinWait" /\ 1 \in 1..Len(inbox[p])
        BY <2>2, <4>1, TailShifts DEF HandleJoinWait, Take
      <4> QED BY <4>2 DEF RInv, JoinWaitInv
    <3>2. \A q \in Programs : join[q] = "unsent" => join'[q] = "unsent"
      BY <2>2, <3>1 DEF HandleJoinWait, RInv, IInv, TypeOK
    <3> QED BY <1>4, <2>1, <3>2
  <2>3. CASE DaemonEnds(p)
    <3>1. \A q \in Programs : join[q] = "unsent" => join'[q] = "unsent"
      BY <2>3 DEF DaemonEnds, Becomes, RInv, IInv, TypeOK
    <3> QED BY <1>4, <2>1, <3>1
  <2>4. CASE UNCHANGED join
    BY <1>4, <2>1, <2>4
  <2> QED
    BY <1>6, <2>2, <2>3, <2>4
       DEF ProgramMoves, CaretakerHandles, HandleWait, HandleTerminate, HandleGetStatus, Spawn,
           SpawnFails, Report, StopChild, ChildEnds, Becomes
<1> QED BY <1>1, <1>2, <1>3, <1>5, <1>6 DEF Next, Serving, Process, Http

LEMMA JoinWaitStep ==
    ASSUME RInv, [Next]_vars
    PROVE  JoinWaitInv'
<1> USE DEF procVars, joinVars, httpVars
<1>0. inbox \in [Programs -> Seq(CaretakerMessage)]
      /\ join \in [Programs -> {"unsent", "sent", "subscribed", "done", "closed"}]
  BY DEF RInv, IInv, TypeOK
<1>1. CASE SupervisorHandles
  <2>1. ASSUME NEW m \in CaretakerMessage, Forward(m), NEW p \in Programs,
               NEW i \in 1..Len(inbox'[p]), inbox'[p][i] = "JoinWait"
        PROVE  \/ i \in 1..Len(inbox[p]) /\ inbox[p][i] = "JoinWait"
               \/ m = "JoinWait"
    <3>1. inbox[p] \in Seq(CaretakerMessage)
      BY <1>0
    <3>2. CASE inbox'[p] = inbox[p]
      BY <2>1, <3>2
    <3>3. CASE inbox'[p] = Append(inbox[p], m)
      <4>1. i \in 1..Len(inbox[p]) \/ i = Len(inbox[p]) + 1
        BY <3>1, <3>3, AppendShifts
      <4> QED BY <2>1, <3>1, <3>3, <4>1, AppendShifts
    <3> QED BY <2>1, <3>2, <3>3 DEF Forward
  <2>2. CASE HandleJoin
    BY <2>2 DEF HandleJoin, JoinWaitInv
  <2>3. CASE HandleTerminateAll
    BY <2>1, <2>3, Messages DEF HandleTerminateAll, RInv, JoinWaitInv
  <2>4. CASE HandleGetStatusAll
    BY <2>1, <2>4, Messages DEF HandleGetStatusAll, RInv, JoinWaitInv
  <2> QED BY <1>1, <2>2, <2>3, <2>4 DEF SupervisorHandles
<1>2. ASSUME NEW p \in Programs, CaretakerHandles(p) PROVE JoinWaitInv'
  <2>1. inbox[p] \in Seq(CaretakerMessage) /\ inbox[p] # <<>>
    BY <1>0, <1>2 DEF CaretakerHandles, HandleJoinWait, HandleWait, HandleTerminate,
                      HandleGetStatus, Take
  <2>2. \A q \in Programs \ {p} : inbox'[q] = inbox[q]
    BY <1>0, <1>2 DEF CaretakerHandles, HandleJoinWait, HandleWait, HandleTerminate,
                      HandleGetStatus, Drop
  <2>3. \A q \in Programs : join[q] # "unsent" => join'[q] # "unsent"
    BY <1>0, <1>2 DEF CaretakerHandles, HandleJoinWait, HandleWait, HandleTerminate,
                      HandleGetStatus
  <2>4. inbox'[p] = Tail(inbox[p]) \/ inbox'[p] = Append(Tail(inbox[p]), "Wait")
    BY <1>0, <1>2 DEF CaretakerHandles, HandleJoinWait, HandleWait, HandleTerminate,
                      HandleGetStatus, Drop
  <2>5. ASSUME NEW i \in 1..Len(inbox'[p]), inbox'[p][i] = "JoinWait"
        PROVE  i + 1 \in 1..Len(inbox[p]) /\ inbox[p][i + 1] = "JoinWait"
    <3> DEFINE t == Tail(inbox[p])
    <3>1. t \in Seq(CaretakerMessage)
      BY <2>1, Queues
    <3>2. CASE inbox'[p] = t
      BY <2>1, <2>5, <3>2, TailShifts
    <3>3. CASE inbox'[p] = Append(t, "Wait")
      <4> HIDE DEF t
      <4>1. i \in 1..Len(t) /\ t[i] = "JoinWait"
        BY <2>5, <3>1, <3>3, AppendShifts, Messages
      <4> QED BY <2>1, <4>1, TailShifts DEF t
    <3> QED BY <2>4, <3>2, <3>3
  <2> QED BY <2>2, <2>3, <2>5 DEF RInv, JoinWaitInv
<1>3. ASSUME UNCHANGED inbox, \A p \in Programs : join[p] # "unsent" => join'[p] # "unsent"
      PROVE  JoinWaitInv'
  BY <1>3 DEF RInv, JoinWaitInv
<1>4. CASE Bind \/ SendJoin \/ JoinEnds \/ Return \/ SignalArrives \/ ServerStops \/ HandleSignal
             \/ Ask \/ Respond \/ UNCHANGED vars
  BY <1>3, <1>4 DEF Bind, SendJoin, JoinEnds, Return, SignalArrives, ServerStops, HandleSignal,
                    Ask, Respond, vars
<1>5. ASSUME NEW p \in Programs,
             \/ Spawn(p) \/ SpawnFails(p) \/ Report(p) \/ StopChild(p) \/ ChildEnds(p)
             \/ DaemonEnds(p)
      PROVE  JoinWaitInv'
  BY <1>0, <1>3, <1>5 DEF Spawn, SpawnFails, Report, StopChild, ChildEnds, DaemonEnds, Becomes
<1> QED BY <1>1, <1>2, <1>4, <1>5 DEF Next, Serving, Process, Http, ProgramMoves

\* The two ends of a daemon, field by field.
LEMMA DaemonEndsForm ==
    ASSUME RInv, NEW p \in Programs, DaemonEnds(p)
    PROVE  /\ program'[p].child = program[p].child
           /\ \/ /\ program'[p].daemon = "Panicked" /\ UNCHANGED join
                 /\ program'[p].status = program[p].status
                 /\ program'[p].stop = program[p].stop
              \/ /\ program'[p].daemon = "Resolved"
                 /\ join' = [join EXCEPT ![p] = IF @ = "subscribed" THEN "done" ELSE @]
                 /\ program'[p].status = IF program[p].stop = "Consumed" THEN "Terminated"
                                                                         ELSE "Failed"
                 /\ program'[p].stop = IF program[p].stop = "Signalled" THEN "Consumed"
                                                                        ELSE program[p].stop
<1> USE DEF procVars, joinVars, httpVars
<1>0. program \in [Programs -> Caretaker] /\ program[p] \in Caretaker
  BY DEF RInv, IInv, TypeOK
<1>1. CASE Becomes(p, [program[p] EXCEPT !.daemon = "Panicked"])
  <2>1. program'[p] = [program[p] EXCEPT !.daemon = "Panicked"] /\ UNCHANGED join
    BY <1>0, <1>1 DEF Becomes
  <2> QED BY <1>0, <2>1 DEF Caretaker
<1>2. CASE ~Becomes(p, [program[p] EXCEPT !.daemon = "Panicked"])
  <2> DEFINE c == [program[p] EXCEPT
                     !.daemon = "Resolved",
                     !.status = IF program[p].stop = "Consumed" THEN "Terminated" ELSE "Failed",
                     !.stop = IF @ = "Signalled" THEN "Consumed" ELSE @]
  <2>1. /\ program' = [program EXCEPT ![p] = c]
        /\ join' = [join EXCEPT ![p] = IF @ = "subscribed" THEN "done" ELSE @]
    BY <1>2 DEF DaemonEnds
  <2>2. program'[p] = c
    BY <1>0, <2>1
  <2>3. /\ c.daemon = "Resolved" /\ c.child = program[p].child
        /\ c.status = IF program[p].stop = "Consumed" THEN "Terminated" ELSE "Failed"
        /\ c.stop = IF program[p].stop = "Signalled" THEN "Consumed" ELSE program[p].stop
    BY <1>0 DEF Caretaker
  <2> QED BY <2>1, <2>2, <2>3
<1> QED BY <1>1, <1>2

LEMMA ChildStep ==
    ASSUME RInv, [Next]_vars
    PROVE  ChildInv'
<1> USE DEF procVars, joinVars, httpVars
<1>0. program \in [Programs -> Caretaker]
  BY DEF RInv, IInv, TypeOK
<1>1. ASSUME \A q \in Programs : /\ program'[q].child = program[q].child
                                 /\ program'[q].status = program[q].status
      PROVE  ChildInv'
  BY <1>1 DEF RInv, ChildInv
<1>2. CASE Bind \/ SendJoin \/ JoinEnds \/ Return \/ SignalArrives \/ ServerStops \/ HandleSignal
             \/ Ask \/ Respond \/ UNCHANGED vars
  BY <1>1, <1>2 DEF Bind, SendJoin, JoinEnds, Return, SignalArrives, ServerStops, HandleSignal,
                    Ask, Respond, vars
<1>3. CASE SupervisorHandles
  BY <1>0, <1>1, <1>3 DEF Caretaker, SupervisorHandles, HandleJoin, HandleTerminateAll,
                          HandleGetStatusAll
<1>4. ASSUME NEW p \in Programs, CaretakerHandles(p) PROVE ChildInv'
  <2>1. CASE HandleWait(p)
    BY <1>0, <1>1, <2>1 DEF Caretaker, HandleWait
  <2>2. CASE HandleTerminate(p)
    BY <1>0, <1>1, <2>2 DEF Caretaker, HandleTerminate
  <2>3. CASE HandleJoinWait(p) \/ HandleGetStatus(p)
    BY <1>1, <2>3 DEF HandleJoinWait, HandleGetStatus
  <2> QED BY <1>4, <2>1, <2>2, <2>3 DEF CaretakerHandles
<1>5. ASSUME NEW p \in Programs,
             \/ Spawn(p) \/ SpawnFails(p) \/ Report(p) \/ StopChild(p) \/ ChildEnds(p)
             \/ DaemonEnds(p)
      PROVE  ChildInv'
  <2>1. \A q \in Programs \ {p} : program'[q] = program[q]
    BY <1>0, <1>5 DEF Spawn, SpawnFails, Report, StopChild, ChildEnds, DaemonEnds, Becomes
  <2>2. program'[p].child => program'[p].status \in Running \cup {"Terminating"}
    <3>1. program[p] \in Caretaker
      BY <1>0
    <3>2. CASE Spawn(p)
      BY <1>0, <3>1, <3>2 DEF Spawn, Becomes, Caretaker, Running, Health
    <3>3. CASE Report(p)
      BY <1>0, <3>1, <3>3 DEF Report, Becomes, Caretaker, Running, Health
    <3>4. CASE StopChild(p)
      BY <1>0, <3>1, <3>4 DEF StopChild, Becomes, Caretaker
    <3>5. CASE SpawnFails(p) \/ ChildEnds(p) \/ DaemonEnds(p)
      <4>1. ~program'[p].child
        <5>1. CASE SpawnFails(p) \/ ChildEnds(p)
          BY <1>0, <3>1, <5>1 DEF SpawnFails, ChildEnds, Becomes, Caretaker
        <5>2. CASE DaemonEnds(p)
          <6>1. ~program[p].child
            BY <5>2 DEF DaemonEnds
          <6>2. program'[p].child = program[p].child
            BY <1>0, <3>1, <5>2, DaemonEndsForm
          <6> QED BY <6>1, <6>2
        <5> QED BY <3>5, <5>1, <5>2
      <4> QED BY <4>1
    <3> QED BY <1>5, <3>2, <3>3, <3>4, <3>5
  <2> QED BY <2>1, <2>2 DEF RInv, ChildInv
<1> QED BY <1>2, <1>3, <1>4, <1>5 DEF Next, Serving, Process, Http, ProgramMoves

LEMMA RInvariant == Spec => []RInv
<1>1. Init => RInv
  <2> SUFFICES ASSUME Init PROVE RInv
    OBVIOUS
  <2>1. IInv
    BY TypeInit DEF Init, IInv, GoneInv, JoinInv, StopInv, AnswerInv
  <2> QED BY <2>1 DEF Init, RInv, JoinSentInv, JoinWaitInv, ChildInv
<1>2. RInv /\ IInv' /\ [Next]_vars => RInv'
  BY JoinSentStep, JoinWaitStep, ChildStep DEF RInv
<1> QED BY <1>1, <1>2, Invariant, PTL DEF Spec
-----------------------------------------------------------------------------
(* Steps.                                                                  *)

Step(p) == [P(p)!Next]_(P(p)!vars)

\* A step that the abstract program does not see.
LEMMA Stutter ==
    ASSUME NEW p \in Programs,
           program'[p].status = program[p].status, program'[p].child = program[p].child,
           program'[p].daemon = program[p].daemon, program'[p].stop = program[p].stop,
           AbstractWait(p)' = AbstractWait(p)
    PROVE  Step(p)
BY DEF Step, P!vars

\* A step of another program.
LEMMA Elsewhere ==
    ASSUME NEW p \in Programs, program'[p] = program[p], join'[p] = join[p]
    PROVE  Step(p)
BY Stutter DEF AbstractWait

\* The first Wait of a program that is polled.
LEMMA WaitMapped ==
    ASSUME NEW p \in Programs, program'[p] = program[p]
    PROVE  /\ (join[p] = "unsent" /\ join'[p] \in {"sent", "subscribed", "closed"}) => Step(p)
           /\ (join[p] \in {"sent", "subscribed", "closed"} /\ join'[p] = "done"
                 /\ program[p].daemon = "Resolved") => Step(p)
           /\ (join[p] \in {"sent", "subscribed", "closed"}
                 /\ join'[p] \in {"sent", "subscribed", "closed"}) => Step(p)
<1>1. ASSUME join[p] = "unsent", join'[p] \in {"sent", "subscribed", "closed"} PROVE Step(p)
  <2>1. AbstractWait(p) = [w \in {"Join"} |-> "idle"]
        /\ AbstractWait(p)' = [w \in {"Join"} |-> "sent"]
    BY <1>1 DEF AbstractWait
  <2>2. P(p)!Ask("Join")
    BY <2>1 DEF P!Ask
  <2> QED BY <2>2 DEF Step, P!Next
<1>2. ASSUME join[p] \in {"sent", "subscribed", "closed"}, join'[p] = "done",
             program[p].daemon = "Resolved"
      PROVE  Step(p)
  <2>1. AbstractWait(p) = [w \in {"Join"} |-> "sent"]
        /\ AbstractWait(p)' = [w \in {"Join"} |-> "done"]
    BY <1>2 DEF AbstractWait
  <2>2. P(p)!Answer("Join")
    BY <1>2, <2>1 DEF P!Answer
  <2> QED BY <2>2 DEF Step, P!Next
<1>3. ASSUME join[p] \in {"sent", "subscribed", "closed"},
             join'[p] \in {"sent", "subscribed", "closed"}
      PROVE  Step(p)
  BY <1>3, Stutter DEF AbstractWait
<1> QED BY <1>1, <1>2, <1>3

LEMMA SupervisorMapped ==
    ASSUME RInv, SupervisorHandles, NEW q \in Programs
    PROVE  Step(q)
<1> USE DEF procVars, joinVars, httpVars
<1>0. program \in [Programs -> Caretaker] /\ program[q] \in Caretaker
      /\ mailbox \in Seq(SupervisorMessage)
  BY DEF RInv, IInv, TypeOK
<1>1. CASE HandleJoin
  <2>1. mailbox[1] = "Join" /\ 1 \in 1..Len(mailbox)
    BY <1>0, <1>1, TailShifts DEF HandleJoin, Receive
  <2>2. join[q] = "unsent" /\ join'[q] \in {"sent", "closed"} /\ UNCHANGED program
    BY <1>1, <2>1 DEF HandleJoin, RInv, JoinSentInv
  <2> QED BY <2>2, WaitMapped
<1>2. CASE HandleTerminateAll
  <2>1. UNCHANGED join
    BY <1>2 DEF HandleTerminateAll
  <2>2. CASE program'[q] = program[q]
    BY <2>1, <2>2, Elsewhere
  <2>3. CASE program'[q] # program[q]
    <3>1. program[q].stop = "No" /\ program'[q] = [program[q] EXCEPT !.stop = "Asked"]
      BY <1>2, <2>3 DEF HandleTerminateAll
    <3>2. /\ program'[q].stop = "Asked" /\ program'[q].status = program[q].status
          /\ program'[q].child = program[q].child /\ program'[q].daemon = program[q].daemon
      BY <1>0, <3>1 DEF Caretaker
    <3>3. P(q)!AskStop
      BY <2>1, <3>1, <3>2 DEF P!AskStop, AbstractWait
    <3> QED BY <3>3 DEF Step, P!Next
  <2> QED BY <2>2, <2>3
<1>3. CASE HandleGetStatusAll
  BY <1>3, Elsewhere DEF HandleGetStatusAll
<1> QED BY <1>1, <1>2, <1>3 DEF SupervisorHandles

LEMMA HandlerMapped ==
    ASSUME RInv, NEW p \in Programs, CaretakerHandles(p), NEW q \in Programs
    PROVE  Step(q)
<1> USE DEF procVars, joinVars, httpVars
<1>0. /\ program \in [Programs -> Caretaker] /\ program[p] \in Caretaker
      /\ inbox[p] \in Seq(CaretakerMessage)
      /\ join \in [Programs -> {"unsent", "sent", "subscribed", "done", "closed"}]
  BY DEF RInv, IInv, TypeOK
<1>1. CASE q # p
  <2>1. program'[q] = program[q] /\ join'[q] = join[q]
    BY <1>0, <1>1 DEF CaretakerHandles, HandleJoinWait, HandleWait, HandleTerminate, HandleGetStatus
  <2> QED BY <2>1, Elsewhere
<1>2. CASE HandleJoinWait(p) /\ q = p
  <2>1. inbox[p] # <<>> /\ inbox[p][1] = "JoinWait" /\ 1 \in 1..Len(inbox[p])
    BY <1>0, <1>2, TailShifts DEF HandleJoinWait, Take
  <2>2. join[p] # "unsent" /\ program[p].daemon # "Panicked"
    BY <2>1 DEF RInv, JoinWaitInv, IInv, GoneInv
  <2>3. join'[p] = (IF program[p].daemon = "Up" THEN "subscribed" ELSE "done")
        /\ UNCHANGED program
    BY <1>0, <1>2 DEF HandleJoinWait
  <2>4. CASE program[p].daemon = "Up"
    <3>1. join[p] \in {"sent", "subscribed"}
      BY <1>0, <2>2, <2>4 DEF RInv, IInv, JoinInv
    <3> QED BY <1>2, <2>3, <2>4, <3>1, WaitMapped
  <2>5. CASE program[p].daemon = "Resolved"
    <3>1. CASE join[p] = "done"
      BY <1>2, <2>3, <2>5, <3>1, Elsewhere
    <3>2. CASE join[p] # "done"
      BY <1>0, <1>2, <2>2, <2>3, <2>5, <3>2, WaitMapped
    <3> QED BY <3>1, <3>2
  <2> QED BY <1>0, <2>2, <2>4, <2>5 DEF Caretaker
<1>3. CASE HandleWait(p) /\ q = p
  <2>1. /\ program'[p].stop = program[p].stop /\ program'[p].status = program[p].status
        /\ program'[p].child = program[p].child /\ program'[p].daemon = program[p].daemon
        /\ UNCHANGED join
    BY <1>0, <1>3 DEF HandleWait, Caretaker
  <2> QED BY <1>3, <2>1, Stutter DEF AbstractWait
<1>4. CASE HandleTerminate(p) /\ q = p
  <2>1. /\ program'[p].status = program[p].status
        /\ program'[p].child = program[p].child /\ program'[p].daemon = program[p].daemon
        /\ program'[p].stop = IF program[p].stop = "Asked" /\ program[p].daemon = "Up"
                                THEN "Signalled" ELSE program[p].stop
        /\ UNCHANGED join
    BY <1>0, <1>4 DEF HandleTerminate, Caretaker
  <2>2. AbstractWait(p)' = AbstractWait(p)
    BY <2>1 DEF AbstractWait
  <2>3. CASE program'[p].stop = program[p].stop
    BY <1>4, <2>1, <2>2, <2>3, Stutter
  <2>4. CASE program'[p].stop # program[p].stop
    <3>1. P(p)!Signal
      BY <2>1, <2>2, <2>4 DEF P!Signal
    <3> QED BY <1>4, <3>1 DEF Step, P!Next
  <2> QED BY <2>3, <2>4
<1>5. CASE HandleGetStatus(p) /\ q = p
  BY <1>5, Elsewhere DEF HandleGetStatus
<1> QED BY <1>1, <1>2, <1>3, <1>4, <1>5 DEF CaretakerHandles

LEMMA ProgramMapped ==
    ASSUME RInv, NEW p \in Programs, NEW q \in Programs,
           \/ Spawn(p) \/ SpawnFails(p) \/ Report(p) \/ StopChild(p) \/ ChildEnds(p)
           \/ DaemonEnds(p)
    PROVE  Step(q)
<1> USE DEF procVars, joinVars, httpVars
<1>0. /\ program \in [Programs -> Caretaker] /\ program[p] \in Caretaker
      /\ join \in [Programs -> {"unsent", "sent", "subscribed", "done", "closed"}]
  BY DEF RInv, IInv, TypeOK
<1>1. CASE q # p
  <2>1. program'[q] = program[q]
    BY <1>0, <1>1 DEF Spawn, SpawnFails, Report, StopChild, ChildEnds, DaemonEnds, Becomes
  <2>2. join'[q] = join[q]
    BY <1>0, <1>1 DEF Spawn, SpawnFails, Report, StopChild, ChildEnds, DaemonEnds, Becomes
  <2> QED BY <2>1, <2>2, Elsewhere
<1>2. CASE Spawn(p) /\ q = p
  <2>1. program'[p] = [program[p] EXCEPT !.child = TRUE,
                           !.status = IF p \in Checked THEN "Unknown" ELSE "Starting"]
    BY <1>0, <1>2 DEF Spawn, Becomes
  <2>2. /\ program'[p].child = TRUE /\ program'[p].status \in {"Starting", "Unknown"}
        /\ program'[p].stop = program[p].stop /\ program'[p].daemon = program[p].daemon
    BY <1>0, <2>1 DEF Caretaker
  <2>3. AbstractWait(p)' = AbstractWait(p)
    BY <1>2 DEF Spawn, Becomes, AbstractWait
  <2>4. P(p)!Spawn
    BY <1>2, <2>2, <2>3 DEF Spawn, Up, P!Spawn
  <2> QED BY <1>2, <2>4 DEF Step, P!Next
<1>3. CASE SpawnFails(p) /\ q = p
  <2>1. PICK st \in {"Starting", "Terminated"} : Becomes(p, [program[p] EXCEPT !.status = st])
    BY <1>3 DEF SpawnFails
  <2>2. program'[p] = [program[p] EXCEPT !.status = st]
    BY <1>0, <2>1 DEF Becomes
  <2>3. /\ program'[p].child = program[p].child /\ program'[p].status = st
        /\ program'[p].stop = program[p].stop /\ program'[p].daemon = program[p].daemon
    BY <1>0, <2>2 DEF Caretaker
  <2>4. AbstractWait(p)' = AbstractWait(p)
    BY <2>1 DEF Becomes, AbstractWait
  <2>5. P(p)!SpawnFails
    BY <1>3, <2>3, <2>4 DEF SpawnFails, Up, P!SpawnFails
  <2> QED BY <1>3, <2>5 DEF Step, P!Next
<1>4. CASE Report(p) /\ q = p
  <2>1. PICK st \in {"Healthy", "Unhealthy"} : Becomes(p, [program[p] EXCEPT !.status = st])
    BY <1>4 DEF Report
  <2>2. program'[p] = [program[p] EXCEPT !.status = st]
    BY <1>0, <2>1 DEF Becomes
  <2>3. /\ program'[p].child = program[p].child /\ program'[p].status = st
        /\ program'[p].stop = program[p].stop /\ program'[p].daemon = program[p].daemon
    BY <1>0, <2>2 DEF Caretaker
  <2>4. AbstractWait(p)' = AbstractWait(p)
    BY <2>1 DEF Becomes, AbstractWait
  <2>5. P(p)!Report
    BY <1>4, <2>3, <2>4 DEF Report, Running, Health, P!Report, P!Running, P!Health
  <2> QED BY <1>4, <2>5 DEF Step, P!Next
<1>5. CASE StopChild(p) /\ q = p
  <2>1. program'[p] = [program[p] EXCEPT !.status = "Terminating",
                                         !.stop = IF @ = "Signalled" THEN "Consumed" ELSE @]
    BY <1>0, <1>5 DEF StopChild, Becomes
  <2>2. /\ program'[p].child = program[p].child /\ program'[p].status = "Terminating"
        /\ program'[p].stop = IF program[p].stop = "Signalled" THEN "Consumed" ELSE program[p].stop
        /\ program'[p].daemon = program[p].daemon
    BY <1>0, <2>1 DEF Caretaker
  <2>3. AbstractWait(p)' = AbstractWait(p)
    BY <1>5 DEF StopChild, Becomes, AbstractWait
  <2>4. P(p)!Stop
    BY <1>5, <2>2, <2>3 DEF StopChild, Running, Health, P!Stop, P!Running, P!Health
  <2> QED BY <1>5, <2>4 DEF Step, P!Next
<1>6. CASE ChildEnds(p) /\ q = p
  <2>1. program'[p] = [program[p] EXCEPT !.child = FALSE, !.status = "Terminated"]
    BY <1>0, <1>6 DEF ChildEnds, Becomes
  <2>2. /\ program'[p].child = FALSE /\ program'[p].status = "Terminated"
        /\ program'[p].stop = program[p].stop /\ program'[p].daemon = program[p].daemon
    BY <1>0, <2>1 DEF Caretaker
  <2>3. AbstractWait(p)' = AbstractWait(p)
    BY <1>6 DEF ChildEnds, Becomes, AbstractWait
  <2>4. program[p].status \in Running \cup {"Terminating"}
    BY <1>6 DEF ChildEnds, RInv, ChildInv
  <2>5. P(p)!Exit
    BY <1>6, <2>2, <2>3, <2>4 DEF ChildEnds, Running, Health, P!Exit, P!Running, P!Health
  <2> QED BY <1>6, <2>5 DEF Step, P!Next
<1>7. CASE DaemonEnds(p) /\ q = p
  <2>1. /\ program[p].daemon = "Up" /\ ~program[p].child /\ program[p].status = "Terminated"
    BY <1>7 DEF DaemonEnds, Polled, Up
  <2>2. CASE program'[p].daemon = "Panicked"
    <3>1. /\ program'[p].child = program[p].child /\ program'[p].status = program[p].status
          /\ program'[p].stop = program[p].stop /\ UNCHANGED join
      BY <1>7, <2>2, DaemonEndsForm
    <3>2. AbstractWait(p)' = AbstractWait(p)
      BY <3>1 DEF AbstractWait
    <3> QED BY <1>7, <2>1, <2>2, <3>1, <3>2 DEF Step, P!vars
  <2>3. CASE program'[p].daemon # "Panicked"
    <3>1. /\ program'[p].child = program[p].child /\ program'[p].daemon = "Resolved"
          /\ join' = [join EXCEPT ![p] = IF @ = "subscribed" THEN "done" ELSE @]
          /\ program'[p].status = IF program[p].stop = "Consumed" THEN "Terminated" ELSE "Failed"
          /\ program'[p].stop = IF program[p].stop = "Signalled" THEN "Consumed"
                                                                 ELSE program[p].stop
      BY <1>7, <2>3, DaemonEndsForm
    <3>2. join'[p] = IF join[p] = "subscribed" THEN "done" ELSE join[p]
      BY <1>0, <3>1
    <3> DEFINE w == AbstractWait(p)
    <3>3. \E W \in SUBSET {v \in {"Join"} : w["Join"] = "sent"} :
              w' = [v \in {"Join"} |-> IF v \in W THEN "done" ELSE w[v]]
      <4>1. CASE join[p] = "subscribed"
        <5>1. w["Join"] = "sent" /\ w' = [v \in {"Join"} |-> "done"]
          BY <3>2, <4>1 DEF AbstractWait
        <5> HIDE DEF w
        <5>2. w' = [v \in {"Join"} |-> IF v \in {"Join"} THEN "done" ELSE w[v]]
          BY <5>1
        <5> QED BY <5>1, <5>2
      <4>2. CASE join[p] # "subscribed"
        <5>1. w' = w /\ w = [v \in {"Join"} |-> w[v]]
          BY <3>2, <4>2 DEF AbstractWait
        <5> HIDE DEF w
        <5>2. w' = [v \in {"Join"} |-> IF v \in {} THEN "done" ELSE w[v]]
          BY <5>1
        <5> WITNESS {} \in SUBSET {v \in {"Join"} : w["Join"] = "sent"}
        <5> QED BY <5>2
      <4> QED BY <4>1, <4>2
    <3>5. (program[p].daemon = "Resolved") = FALSE /\ (program'[p].daemon = "Resolved") = TRUE
      BY <2>1, <3>1
    <3> HIDE DEF w
    <3>4. P(p)!Finish
      <4> USE DEF P!Finish
      <4>1. \E W \in SUBSET {v \in {"Join"} : AbstractWait(p)["Join"] = "sent"} :
                AbstractWait(p)' = [v \in {"Join"} |-> IF v \in W THEN "done" ELSE AbstractWait(p)[v]]
        BY <3>3 DEF w
      <4>2. PICK W \in SUBSET {v \in {"Join"} : AbstractWait(p)["Join"] = "sent"} :
                AbstractWait(p)' = [v \in {"Join"} |-> IF v \in W THEN "done" ELSE AbstractWait(p)[v]]
        BY <4>1
      <4>3. W \in SUBSET {v \in {"Join"} : AbstractWait(p)[v] = "sent"}
        BY <4>2
      <4> QED BY <2>1, <3>1, <3>5, <4>2, <4>3
    <3> QED BY <1>7, <3>4 DEF Step, P!Next
  <2> QED BY <2>2, <2>3
<1> QED BY <1>1, <1>2, <1>3, <1>4, <1>5, <1>6, <1>7

LEMMA EveryStep ==
    ASSUME RInv, [Next]_vars, NEW q \in Programs
    PROVE  Step(q)
<1> USE DEF procVars, joinVars, httpVars
<1>1. CASE Bind \/ SendJoin \/ JoinEnds \/ Return \/ SignalArrives \/ ServerStops \/ HandleSignal
             \/ Ask \/ Respond \/ UNCHANGED vars
  <2>1. UNCHANGED <<program, join>>
    BY <1>1 DEF Bind, SendJoin, JoinEnds, Return, SignalArrives, ServerStops, HandleSignal,
                Ask, Respond, vars
  <2> QED BY <2>1, Elsewhere
<1>2. CASE SupervisorHandles
  BY <1>2, SupervisorMapped
<1>3. ASSUME NEW p \in Programs, ProgramMoves(p) PROVE Step(q)
  BY <1>3, HandlerMapped, ProgramMapped DEF ProgramMoves
<1> QED BY <1>1, <1>2, <1>3 DEF Next, Serving, Process, Http

\* Theorem: every caretaker stays within the protocol of SupervisedProgram,
\* whatever Join, TerminateAll and GetStatusAll come and in which order.
THEOREM SupervisorConforms == Spec => Conforms
<1>1. Init => \A p \in Programs : P(p)!Init
  <2> SUFFICES ASSUME Init, NEW p \in Programs PROVE P(p)!Init
    OBVIOUS
  <2>1. program[p] = [status |-> "Starting", child |-> FALSE, daemon |-> "Up",
                      stop |-> "No", subscribed |-> FALSE]
        /\ join[p] = "unsent"
    BY DEF Init
  <2>2. /\ program[p].status = "Starting" /\ program[p].child = FALSE
        /\ (program[p].daemon = "Resolved") = FALSE /\ program[p].stop = "No"
    BY <2>1
  <2>3. AbstractWait(p) = [w \in {"Join"} |-> "idle"]
    BY <2>1 DEF AbstractWait
  <2> QED BY <2>2, <2>3 DEF P!Init
<1>2. RInv /\ [Next]_vars => [\A p \in Programs : [P(p)!Next]_(P(p)!vars)]_vars
  BY EveryStep DEF Step
<1> QED BY <1>1, <1>2, RInvariant, PTL DEF Spec, Conforms
-----------------------------------------------------------------------------
(***************************************************************************)
(* Nothing is lost: what a mailbox holds when a message comes or goes.     *)
(***************************************************************************)
LEMMA HoldsMore ==
    ASSUME NEW S, NEW s \in Seq(S), NEW m \in S, NEW x
    PROVE  Holds(Append(s, m), x) <=> Holds(s, x) \/ m = x
<1> DEFINE n == Len(s)
           new == Append(s, m)
<1>1. /\ n \in Nat /\ DOMAIN s = 1..n /\ DOMAIN new = 1..(n + 1) /\ new[n + 1] = m
      /\ \A i \in 1..n : new[i] = s[i]
  OBVIOUS
<1> HIDE DEF n, new
<1>2. 1..(n + 1) = 1..n \cup {n + 1}
  BY <1>1
<1> QED BY <1>1, <1>2 DEF Holds, new

LEMMA HoldsLess ==
    ASSUME NEW S, NEW s \in Seq(S), s # <<>>, NEW x
    PROVE  Holds(s, x) <=> Head(s) = x \/ Holds(Tail(s), x)
<1> DEFINE n == Len(s)
           rest == Tail(s)
<1>1. /\ n \in Nat \ {0} /\ DOMAIN s = 1..n /\ DOMAIN rest = 1..(n - 1) /\ Head(s) = s[1]
      /\ \A i \in 1..(n - 1) : rest[i] = s[i + 1]
  OBVIOUS
<1> HIDE DEF n, rest
<1>2. /\ 1 \in 1..n /\ \A i \in 1..(n - 1) : i + 1 \in 1..n
      /\ \A i \in 1..n : i = 1 \/ (i - 1 \in 1..(n - 1) /\ (i - 1) + 1 = i)
  BY <1>1
<1>3. ASSUME Holds(s, x) PROVE Head(s) = x \/ Holds(rest, x)
  <2>1. PICK i \in 1..n : s[i] = x
    BY <1>1, <1>3 DEF Holds
  <2>2. CASE i = 1
    BY <1>1, <2>1, <2>2
  <2>3. CASE i # 1
    <3>1. i - 1 \in 1..(n - 1) /\ rest[i - 1] = x
      BY <1>1, <1>2, <2>1, <2>3
    <3> QED BY <1>1, <3>1 DEF Holds
  <2> QED BY <2>2, <2>3
<1>4. Head(s) = x => Holds(s, x)
  BY <1>1, <1>2 DEF Holds
<1>5. Holds(rest, x) => Holds(s, x)
  BY <1>1, <1>2 DEF Holds
<1> QED BY <1>3, <1>4, <1>5 DEF rest

\* There is not more than one Wait of Join.
Lone(box) ==
    \A i, j \in DOMAIN box : box[i] = "JoinWait" /\ box[j] = "JoinWait" => i = j

LEMMA LoneMore ==
    ASSUME NEW S, NEW s \in Seq(S), NEW m \in S, Lone(s), m # "JoinWait" \/ ~Holds(s, "JoinWait")
    PROVE  Lone(Append(s, m))
<1> DEFINE n == Len(s)
           new == Append(s, m)
<1>1. /\ n \in Nat /\ DOMAIN s = 1..n /\ DOMAIN new = 1..(n + 1) /\ new[n + 1] = m
      /\ \A i \in 1..n : new[i] = s[i]
  OBVIOUS
<1> HIDE DEF n, new
<1>2. 1..(n + 1) = 1..n \cup {n + 1}
  BY <1>1
<1>3. m = "JoinWait" => \A i \in 1..n : new[i] # "JoinWait"
  BY <1>1 DEF Holds
<1>4. \A i, j \in 1..n : new[i] = "JoinWait" /\ new[j] = "JoinWait" => i = j
  BY <1>1 DEF Lone
<1>5. \A i, j \in 1..(n + 1) : new[i] = "JoinWait" /\ new[j] = "JoinWait" => i = j
  BY <1>1, <1>2, <1>3, <1>4
<1> QED BY <1>1, <1>5 DEF Lone, new

LEMMA LoneLess ==
    ASSUME NEW S, NEW s \in Seq(S), s # <<>>, Lone(s)
    PROVE  Lone(Tail(s)) /\ (Head(s) = "JoinWait" => ~Holds(Tail(s), "JoinWait"))
<1> DEFINE n == Len(s)
           rest == Tail(s)
<1>1. /\ n \in Nat \ {0} /\ DOMAIN s = 1..n /\ DOMAIN rest = 1..(n - 1) /\ Head(s) = s[1]
      /\ \A i \in 1..(n - 1) : rest[i] = s[i + 1]
  OBVIOUS
<1> HIDE DEF n, rest
<1>2. /\ 1 \in 1..n /\ \A i \in 1..(n - 1) : i + 1 \in 1..n /\ i + 1 # 1
      /\ \A i, j \in 1..(n - 1) : i + 1 = j + 1 => i = j
  BY <1>1
<1>3. \A i, j \in 1..n : s[i] = "JoinWait" /\ s[j] = "JoinWait" => i = j
  BY <1>1 DEF Lone
<1>4. \A i, j \in 1..(n - 1) : rest[i] = "JoinWait" /\ rest[j] = "JoinWait" => i = j
  BY <1>1, <1>2, <1>3
<1>5. ASSUME Head(s) = "JoinWait", NEW i \in 1..(n - 1) PROVE rest[i] # "JoinWait"
  BY <1>1, <1>2, <1>3, <1>5
<1> QED BY <1>1, <1>4, <1>5 DEF Lone, Holds, rest

\* A mailbox that is passed a message, or not.
LEMMA Forwarded ==
    ASSUME RInv, NEW m \in CaretakerMessage, Forward(m), NEW p \in Programs
    PROVE  /\ inbox'[p] = IF program[p].daemon = "Panicked" THEN inbox[p] ELSE Append(inbox[p], m)
           /\ program[p].daemon = "Panicked" => \A x : ~Holds(inbox'[p], x)
           /\ program[p].daemon # "Panicked" =>
                 \A x : Holds(inbox'[p], x) <=> Holds(inbox[p], x) \/ m = x
<1>1. inbox'[p] = IF program[p].daemon = "Panicked" THEN inbox[p] ELSE Append(inbox[p], m)
  BY DEF Forward, Reachable
<1>2. inbox[p] \in Seq(CaretakerMessage)
  BY DEF RInv, IInv, TypeOK
<1>3. program[p].daemon = "Panicked" => inbox[p] = <<>>
  BY DEF RInv, IInv, GoneInv
<1>4. \A x : ~Holds(<<>>, x)
  BY DEF Holds
<1> QED BY <1>1, <1>2, <1>3, <1>4, HoldsMore

\* A message that is taken out of a mailbox, and the Wait that may follow it.
LEMMA Handled ==
    ASSUME RInv, NEW p \in Programs, CaretakerHandles(p)
    PROVE  /\ inbox[p] \in Seq(CaretakerMessage) /\ inbox[p] # <<>>
           /\ UNCHANGED <<mailbox, signals, pending, joinTask, request>>
           /\ \A q \in Programs \ {p} : inbox'[q] = inbox[q]
           /\ inbox'[p] = Tail(inbox[p]) \/ inbox'[p] = Append(Tail(inbox[p]), "Wait")
           /\ \A x : Holds(inbox[p], x) /\ Head(inbox[p]) # x => Holds(inbox'[p], x)
           /\ \A x : x # "Wait" /\ Holds(inbox'[p], x) => Holds(inbox[p], x)
<1> USE DEF procVars, joinVars, httpVars
<1>0. inbox \in [Programs -> Seq(CaretakerMessage)]
  BY DEF RInv, IInv, TypeOK
<1>1. inbox[p] \in Seq(CaretakerMessage) /\ inbox[p] # <<>>
  BY <1>0 DEF CaretakerHandles, HandleJoinWait, HandleWait, HandleTerminate, HandleGetStatus, Take
<1>2. /\ UNCHANGED <<mailbox, signals, pending, joinTask, request>>
      /\ \A q \in Programs \ {p} : inbox'[q] = inbox[q]
      /\ inbox'[p] = Tail(inbox[p]) \/ inbox'[p] = Append(Tail(inbox[p]), "Wait")
  BY <1>0 DEF CaretakerHandles, HandleJoinWait, HandleWait, HandleTerminate, HandleGetStatus, Drop
<1>3. Tail(inbox[p]) \in Seq(CaretakerMessage)
  BY <1>1, Queues
<1>4. \A x : Holds(inbox[p], x) <=> Head(inbox[p]) = x \/ Holds(Tail(inbox[p]), x)
  BY <1>1, HoldsLess
<1>5. \A x : Holds(Append(Tail(inbox[p]), "Wait"), x) <=> Holds(Tail(inbox[p]), x) \/ "Wait" = x
  BY <1>3, HoldsMore, Messages
<1> QED BY <1>1, <1>2, <1>4, <1>5

\* What the supervisor still has when it has taken a message.
LEMMA Taken ==
    ASSUME RInv, NEW m, Receive(m), NEW x, x # m
    PROVE  Holds(mailbox', x) <=> Holds(mailbox, x)
  BY HoldsLess DEF Receive, RInv, IInv, TypeOK

\* What the supervisor is sent comes on top of what it has.
LEMMA MailboxGrows ==
    ASSUME RInv, UNCHANGED mailbox \/ \E m \in SupervisorMessage : mailbox' = Append(mailbox, m),
           NEW x, Holds(mailbox, x)
    PROVE  Holds(mailbox', x)
<1>1. mailbox \in Seq(SupervisorMessage)
  BY DEF RInv, IInv, TypeOK
<1>2. ASSUME NEW m \in SupervisorMessage, mailbox' = Append(mailbox, m)
      PROVE  Holds(mailbox', x)
  BY <1>1, <1>2, HoldsMore
<1> QED BY <1>2

\* The steps of a program itself: its stop only advances, and no daemon comes back.
LEMMA ProgramForm ==
    ASSUME RInv, NEW p \in Programs, NEW q \in Programs,
           Spawn(p) \/ SpawnFails(p) \/ Report(p) \/ StopChild(p) \/ ChildEnds(p) \/ DaemonEnds(p)
    PROVE  /\ UNCHANGED <<signals, pending, mailbox, inbox, joinTask, request, answers>>
           /\ \/ program'[q].stop = program[q].stop
              \/ program[q].stop = "Signalled" /\ program'[q].stop = "Consumed"
           /\ program'[q].daemon = "Up" => program[q].daemon = "Up"
           /\ \/ join'[q] = join[q] /\ (program'[q].daemon = program[q].daemon \/ join[q] # "subscribed")
              \/ join[q] = "subscribed" /\ join'[q] = "done"
<1> USE DEF procVars, joinVars, httpVars
<1>0. /\ program \in [Programs -> Caretaker] /\ program[p] \in Caretaker
      /\ join \in [Programs -> {"unsent", "sent", "subscribed", "done", "closed"}]
  BY DEF RInv, IInv, TypeOK
<1>1. UNCHANGED <<signals, pending, mailbox, inbox, joinTask, request, answers>>
  BY DEF Spawn, SpawnFails, Report, StopChild, ChildEnds, DaemonEnds, Becomes
<1>2. CASE q # p
  <2>1. program'[q] = program[q] /\ join'[q] = join[q]
    BY <1>0, <1>2 DEF Spawn, SpawnFails, Report, StopChild, ChildEnds, DaemonEnds, Becomes
  <2> QED BY <1>1, <2>1
<1>3. CASE q = p
  <2>1. CASE Spawn(p) \/ SpawnFails(p) \/ Report(p) \/ StopChild(p) \/ ChildEnds(p)
    <3>1. PICK c : Becomes(p, c) /\ c.daemon = program[p].daemon
                   /\ (c.stop = program[p].stop
                         \/ (program[p].stop = "Signalled" /\ c.stop = "Consumed"))
      <4>1. CASE Spawn(p) \/ ChildEnds(p)
        <5>1. PICK st, b : Becomes(p, [program[p] EXCEPT !.child = b, !.status = st])
          BY <4>1 DEF Spawn, ChildEnds
        <5> DEFINE new == [program[p] EXCEPT !.child = b, !.status = st]
        <5>2. new.daemon = program[p].daemon /\ new.stop = program[p].stop
          BY <1>0 DEF Caretaker
        <5>3. Becomes(p, new)
          BY <5>1
        <5> HIDE DEF new
        <5> QED BY <5>2, <5>3
      <4>3. CASE StopChild(p)
        <5> DEFINE new == [program[p] EXCEPT !.status = "Terminating",
                                             !.stop = IF @ = "Signalled" THEN "Consumed" ELSE @]
        <5>1. Becomes(p, new)
          BY <4>3 DEF StopChild
        <5>2. /\ new.daemon = program[p].daemon
              /\ new.stop = IF program[p].stop = "Signalled" THEN "Consumed" ELSE program[p].stop
          BY <1>0 DEF Caretaker
        <5> HIDE DEF new
        <5> QED BY <5>1, <5>2
      <4>2. CASE SpawnFails(p) \/ Report(p)
        <5>1. PICK st : Becomes(p, [program[p] EXCEPT !.status = st])
          BY <4>2 DEF SpawnFails, Report
        <5> DEFINE new == [program[p] EXCEPT !.status = st]
        <5>2. new.daemon = program[p].daemon /\ new.stop = program[p].stop
          BY <1>0 DEF Caretaker
        <5>3. Becomes(p, new)
          BY <5>1
        <5> HIDE DEF new
        <5> QED BY <5>2, <5>3
      <4> QED BY <2>1, <4>1, <4>2, <4>3
    <3>2. program'[p] = c /\ join' = join
      BY <1>0, <3>1 DEF Becomes
    <3> QED BY <1>1, <1>3, <3>1, <3>2
  <2>2. CASE DaemonEnds(p)
    <3>1. program[p].daemon = "Up"
      BY <2>2 DEF DaemonEnds, Polled, Up
    <3>2. CASE program'[p].daemon = "Panicked"
      <4>1. program'[p].stop = program[p].stop /\ join'[p] = join[p]
        BY <2>2, <3>2, DaemonEndsForm
      <4>2. join[p] # "subscribed"
        <5>1. SUFFICES ASSUME join[p] = "subscribed" PROVE FALSE
          OBVIOUS
        <5> DEFINE c == [program[p] EXCEPT
                           !.daemon = "Resolved",
                           !.status = IF program[p].stop = "Consumed" THEN "Terminated"
                                                                      ELSE "Failed",
                           !.stop = IF @ = "Signalled" THEN "Consumed" ELSE @]
        <5>2. program' = [program EXCEPT ![p] = c]
          BY <2>2, <5>1 DEF DaemonEnds
        <5>3. program'[p] = c
          BY <1>0, <5>2
        <5>4. c.daemon = "Resolved"
          BY <1>0 DEF Caretaker
        <5> QED BY <3>2, <5>3, <5>4
      <4> QED BY <1>1, <1>3, <3>1, <4>1, <4>2
    <3>3. CASE program'[p].daemon = "Resolved"
      <4>1. /\ program'[p].stop = IF program[p].stop = "Signalled" THEN "Consumed"
                                                                   ELSE program[p].stop
            /\ join' = [join EXCEPT ![p] = IF @ = "subscribed" THEN "done" ELSE @]
        BY <2>2, <3>3, DaemonEndsForm
      <4>2. join'[p] = IF join[p] = "subscribed" THEN "done" ELSE join[p]
        BY <1>0, <4>1
      <4> QED BY <1>1, <1>3, <3>1, <3>3, <4>1, <4>2
    <3> QED BY <2>2, <3>2, <3>3, DaemonEndsForm
  <2> QED BY <2>1, <2>2
<1> QED BY <1>2, <1>3
-----------------------------------------------------------------------------
(***************************************************************************)
(* SignalKept, and that a Terminate in a mailbox has left its mark.        *)
(***************************************************************************)
MarkInv == \A p \in Programs : Holds(inbox[p], "Terminate") => program[p].stop # "No"

LEMMA SignalStep ==
    ASSUME RInv, SignalKept, MarkInv, [Next]_vars
    PROVE  SignalKept' /\ MarkInv'
<1> USE DEF procVars, joinVars, httpVars
<1>0. program \in [Programs -> Caretaker]
  BY DEF RInv, IInv, TypeOK
<1>1. CASE Bind \/ SendJoin \/ JoinEnds \/ Return \/ SignalArrives \/ ServerStops \/ HandleSignal
             \/ Ask \/ Respond \/ UNCHANGED vars
  <2>1. UNCHANGED <<inbox, program>>
    BY <1>1 DEF Bind, SendJoin, JoinEnds, Return, SignalArrives, ServerStops, HandleSignal, Ask,
                Respond, vars
  <2>2. MarkInv' /\ \A p \in Programs : Reached(p)' <=> Reached(p)
    BY <2>1 DEF MarkInv, Reached
  <2>3. Holds(mailbox, "TerminateAll") => Holds(mailbox', "TerminateAll")
    <3>1. mailbox' = mailbox \/ \E m \in SupervisorMessage : mailbox' = Append(mailbox, m)
      BY <1>1, Messages DEF Bind, SendJoin, JoinEnds, Return, SignalArrives, ServerStops,
                            HandleSignal, Ask, Respond, vars
    <3> QED BY <3>1, MailboxGrows
  <2>4. CASE HandleSignal
    <3>1. Holds(mailbox', "TerminateAll")
      BY <2>4, HoldsMore, Messages DEF HandleSignal, RInv, IInv, TypeOK
    <3> QED BY <2>2, <3>1 DEF SignalKept
  <2>5. CASE SignalArrives
    BY <2>2, <2>5 DEF SignalArrives, SignalKept
  <2>6. CASE UNCHANGED <<signals, pending>>
    BY <2>2, <2>3, <2>6 DEF SignalKept
  <2> QED
    BY <1>1, <2>4, <2>5, <2>6 DEF Bind, SendJoin, JoinEnds, Return, ServerStops, Ask, Respond, vars
<1>2. CASE HandleJoin \/ HandleGetStatusAll
  <2>1. /\ UNCHANGED <<program, signals, pending>>
        /\ \E m \in {"JoinWait", "GetStatus"} : Forward(m)
        /\ \E m \in {"Join", "GetStatusAll"} : Receive(m)
    BY <1>2 DEF HandleJoin, HandleGetStatusAll
  <2>2. Holds(mailbox', "TerminateAll") <=> Holds(mailbox, "TerminateAll")
    BY <2>1, Taken
  <2>3. \A p \in Programs : program[p].daemon # "Panicked" =>
            (Holds(inbox'[p], "Terminate") <=> Holds(inbox[p], "Terminate"))
    BY <2>1, Forwarded, Messages
  <2>4. \A p \in Programs : program[p].daemon = "Panicked" => ~Holds(inbox'[p], "Terminate")
    BY <2>1, Forwarded, Messages
  <2>5. MarkInv'
    BY <2>1, <2>3, <2>4 DEF MarkInv
  <2>6. \A p \in Programs : Reached(p) => Reached(p)'
    BY <2>1, <2>3 DEF Reached
  <2> QED BY <2>1, <2>2, <2>5, <2>6 DEF SignalKept
<1>3. CASE HandleTerminateAll
  <2>1. Forward("Terminate") /\ "Terminate" \in CaretakerMessage
    BY <1>3, Messages DEF HandleTerminateAll
  <2>2. ASSUME NEW p \in Programs
        PROVE  /\ program'[p].daemon = program[p].daemon
               /\ program[p].daemon # "Panicked" => program'[p].stop # "No"
    BY <1>0, <1>3 DEF HandleTerminateAll, Reachable, Caretaker
  <2>3. ASSUME NEW p \in Programs
        PROVE  /\ program[p].daemon = "Panicked" => ~Holds(inbox'[p], "Terminate")
               /\ program[p].daemon # "Panicked" => Holds(inbox'[p], "Terminate")
    BY <2>1, Forwarded
  <2>4. MarkInv'
    BY <2>2, <2>3 DEF MarkInv
  <2>5. \A p \in Programs : Reached(p)'
    BY <2>2, <2>3 DEF Reached
  <2> QED BY <2>4, <2>5 DEF SignalKept
<1>4. ASSUME NEW p \in Programs, CaretakerHandles(p) PROVE SignalKept' /\ MarkInv'
  <2>1. \A q \in Programs :
            /\ program'[q].daemon = program[q].daemon
            /\ program'[q].stop = program[q].stop
                 \/ (program[q].stop = "Asked" /\ program'[q].stop = "Signalled")
    <3>1. CASE HandleWait(p)
      BY <1>0, <3>1 DEF HandleWait, Caretaker
    <3>2. CASE HandleTerminate(p)
      BY <1>0, <3>2 DEF HandleTerminate, Caretaker
    <3>3. CASE HandleJoinWait(p) \/ HandleGetStatus(p)
      BY <3>3 DEF HandleJoinWait, HandleGetStatus
    <3> QED BY <1>4, <3>1, <3>2, <3>3 DEF CaretakerHandles
  <2>2. \A q \in Programs : Holds(inbox'[q], "Terminate") => Holds(inbox[q], "Terminate")
    BY <1>4, Handled
  <2>3. MarkInv'
    BY <2>1, <2>2 DEF MarkInv
  <2>4. ASSUME NEW q \in Programs, Reached(q) PROVE Reached(q)'
    <3>1. CASE q = p /\ Head(inbox[p]) = "Terminate"
      <4>1. HandleTerminate(p)
        BY <1>4, <3>1 DEF CaretakerHandles, HandleJoinWait, HandleWait, HandleGetStatus, Take
      <4>2. program[p].stop # "No"
        BY <1>4, <3>1, Handled, HoldsLess DEF MarkInv
      <4>3. program[p].daemon = "Up" => program'[p].stop \in {"Signalled", "Consumed"}
        BY <1>0, <4>1, <4>2 DEF HandleTerminate, Caretaker
      <4> QED BY <2>1, <3>1, <4>3 DEF Reached
    <3>2. CASE ~(q = p /\ Head(inbox[p]) = "Terminate")
      <4>1. Holds(inbox[q], "Terminate") => Holds(inbox'[q], "Terminate")
        BY <1>4, <3>2, Handled
      <4> QED BY <2>1, <2>4, <4>1 DEF Reached
    <3> QED BY <3>1, <3>2
  <2>5. UNCHANGED <<mailbox, signals, pending>>
    BY <1>4, Handled
  <2> QED BY <2>3, <2>4, <2>5 DEF SignalKept
<1>5. ASSUME NEW p \in Programs,
             \/ Spawn(p) \/ SpawnFails(p) \/ Report(p) \/ StopChild(p) \/ ChildEnds(p)
             \/ DaemonEnds(p)
      PROVE  SignalKept' /\ MarkInv'
  <2>1. UNCHANGED <<mailbox, signals, pending, inbox>>
    BY <1>5, ProgramForm
  <2>2. \A q \in Programs : Reached(q) => Reached(q)'
    BY <1>5, <2>1, ProgramForm DEF Reached
  <2>3. MarkInv'
    BY <1>5, <2>1, ProgramForm DEF MarkInv
  <2> QED BY <2>1, <2>2, <2>3 DEF SignalKept
<1> QED
  BY <1>1, <1>2, <1>3, <1>4, <1>5
     DEF Next, Serving, Process, Http, ProgramMoves, SupervisorHandles

(***************************************************************************)
(* Theorem: a signal is never lost on its way to the programs: whatever    *)
(* they do meanwhile, each that is still up has got it or will.            *)
(***************************************************************************)
THEOREM SignalsAreKept == Spec => []SignalKept
<1>1. Init => SignalKept /\ MarkInv
  BY DEF Init, SignalKept, MarkInv, Holds
<1> QED BY <1>1, SignalStep, RInvariant, PTL DEF Spec
-----------------------------------------------------------------------------
(***************************************************************************)
(* AnswersOwed, and that no Wait of Join is there twice.                   *)
(***************************************************************************)
LoneInv == \A p \in Programs : Lone(inbox[p])

LEMMA OwedStep ==
    ASSUME RInv, AnswersOwed, LoneInv, [Next]_vars
    PROVE  AnswersOwed' /\ LoneInv'
<1> USE DEF procVars, joinVars, httpVars
<1>0. /\ program \in [Programs -> Caretaker] /\ inbox \in [Programs -> Seq(CaretakerMessage)]
      /\ join \in [Programs -> {"unsent", "sent", "subscribed", "done", "closed"}]
      /\ answers \in [Programs -> {"?", "fit", "unfit", "closed"}]
  BY DEF RInv, IInv, TypeOK
<1>1. CASE Bind \/ SendJoin \/ JoinEnds \/ Return \/ SignalArrives \/ ServerStops \/ HandleSignal
             \/ Ask \/ Respond \/ UNCHANGED vars
  <2>1. UNCHANGED <<inbox, program, join>>
    BY <1>1 DEF Bind, SendJoin, JoinEnds, Return, SignalArrives, ServerStops, HandleSignal, Ask,
                Respond, vars
  <2>2. \A x : Holds(mailbox, x) => Holds(mailbox', x)
    <3>1. mailbox' = mailbox \/ \E m \in SupervisorMessage : mailbox' = Append(mailbox, m)
      BY <1>1, Messages DEF Bind, SendJoin, JoinEnds, Return, SignalArrives, ServerStops,
                            HandleSignal, Ask, Respond, vars
    <3> QED BY <3>1, MailboxGrows
  <2>3. joinTask' = "Waiting" => joinTask = "Waiting" \/ Holds(mailbox', "Join")
    <3>1. CASE SendJoin
      BY <3>1, HoldsMore, Messages DEF SendJoin, RInv, IInv, TypeOK
    <3>2. CASE ~SendJoin
      BY <1>1, <3>2 DEF Bind, JoinEnds, Return, SignalArrives, ServerStops, HandleSignal, Ask,
                        Respond, vars
    <3> QED BY <3>1, <3>2
  <2>4. request' = "asked" =>
            (request = "asked" /\ answers' = answers) \/ Holds(mailbox', "GetStatusAll")
    <3>1. CASE Ask
      BY <3>1, HoldsMore, Messages DEF Ask, RInv, IInv, TypeOK
    <3>2. CASE Respond
      BY <3>2 DEF Respond, health, status
    <3>3. CASE ~Ask /\ ~Respond
      BY <1>1, <3>3 DEF Bind, SendJoin, JoinEnds, Return, SignalArrives, ServerStops,
                        HandleSignal, vars
    <3> QED BY <3>1, <3>2, <3>3
  <2>5. \A p \in Programs : Up(p)' <=> Up(p)
    BY <2>1 DEF Up
  <2> QED BY <2>1, <2>2, <2>3, <2>4, <2>5 DEF AnswersOwed, LoneInv
<1>2. ASSUME NEW m \in CaretakerMessage, Forward(m), NEW p \in Programs,
             m = "JoinWait" => ~Holds(inbox[p], "JoinWait")
      PROVE  Lone(inbox'[p])
  <2>1. Lone(inbox[p]) /\ inbox[p] \in Seq(CaretakerMessage)
    BY <1>0 DEF LoneInv
  <2>2. Lone(Append(inbox[p], m))
    BY <1>2, <2>1, LoneMore
  <2> QED BY <1>2, <2>1, <2>2, Forwarded
<1>3. CASE HandleJoin
  <2>1. /\ Forward("JoinWait") /\ "JoinWait" \in CaretakerMessage /\ Receive("Join")
        /\ \A p \in Programs : join'[p] = IF program[p].daemon # "Panicked" THEN "sent" ELSE "closed"
        /\ UNCHANGED <<joinTask, program, request, answers>>
    BY <1>3, Messages DEF HandleJoin, Reachable
  <2>2. \A p \in Programs : join[p] = "unsent"
    <3>1. mailbox \in Seq(SupervisorMessage) /\ mailbox # <<>> /\ Head(mailbox) = "Join"
      BY <2>1 DEF Receive, RInv, IInv, TypeOK
    <3>2. mailbox[1] = "Join" /\ 1 \in 1..Len(mailbox)
      BY <3>1, TailShifts
    <3> QED BY <3>2 DEF RInv, JoinSentInv
  <2>3. \A p \in Programs : ~Holds(inbox[p], "JoinWait")
    BY <2>2 DEF AnswersOwed
  <2>4. LoneInv'
    BY <1>2, <2>1, <2>3 DEF LoneInv
  <2>5. \A p \in Programs : join'[p] = "sent" <=> Holds(inbox'[p], "JoinWait")
    BY <2>1, Forwarded
  <2>6. Holds(mailbox', "GetStatusAll") <=> Holds(mailbox, "GetStatusAll")
    BY <2>1, Taken
  <2>7. \A p \in Programs : program[p].daemon # "Panicked" =>
            (Holds(inbox'[p], "GetStatus") <=> Holds(inbox[p], "GetStatus"))
    BY <2>1, Forwarded
  <2>8. \A p \in Programs : program[p].daemon = "Panicked" => ~Holds(inbox[p], "GetStatus")
    BY DEF RInv, IInv, GoneInv, Holds
  <2> QED BY <2>1, <2>4, <2>5, <2>6, <2>7, <2>8 DEF AnswersOwed
<1>4. CASE HandleTerminateAll
  <2>1. /\ Forward("Terminate") /\ "Terminate" \in CaretakerMessage /\ Receive("TerminateAll")
        /\ UNCHANGED <<joinTask, join, request, answers>>
    BY <1>4, Messages DEF HandleTerminateAll
  <2>2. \A p \in Programs : program'[p].daemon = program[p].daemon
    BY <1>0, <1>4 DEF HandleTerminateAll, Caretaker
  <2>3. LoneInv'
    BY <1>2, <2>1 DEF LoneInv
  <2>4. ASSUME NEW x, x # "Terminate"
        PROVE  \A p \in Programs : Holds(inbox'[p], x) <=> Holds(inbox[p], x)
    <3>1. \A p \in Programs : program[p].daemon = "Panicked" => ~Holds(inbox[p], x)
      BY DEF RInv, IInv, GoneInv, Holds
    <3> QED BY <2>1, <2>4, <3>1, Forwarded
  <2>5. \A x : x # "TerminateAll" => (Holds(mailbox', x) <=> Holds(mailbox, x))
    BY <2>1, Taken
  <2>6. \A p \in Programs : Up(p)' <=> Up(p)
    BY <2>2 DEF Up
  <2> QED BY <2>1, <2>3, <2>4, <2>5, <2>6 DEF AnswersOwed
<1>5. CASE HandleGetStatusAll
  <2>1. /\ Forward("GetStatus") /\ "GetStatus" \in CaretakerMessage /\ Receive("GetStatusAll")
        /\ UNCHANGED <<joinTask, join, program, request>>
        /\ \A p \in Programs : answers'[p] = IF program[p].daemon # "Panicked" THEN "?" ELSE "closed"
    BY <1>5, Messages DEF HandleGetStatusAll, Reachable
  <2>2. LoneInv'
    BY <1>2, <2>1 DEF LoneInv
  <2>3. \A p \in Programs : Holds(inbox'[p], "JoinWait") <=> Holds(inbox[p], "JoinWait")
    <3>1. \A p \in Programs : program[p].daemon = "Panicked" => ~Holds(inbox[p], "JoinWait")
      BY DEF RInv, IInv, GoneInv, Holds
    <3> QED BY <2>1, <3>1, Forwarded
  <2>4. \A p \in Programs : program[p].daemon # "Panicked" => Holds(inbox'[p], "GetStatus")
    BY <2>1, Forwarded
  <2>5. Holds(mailbox', "Join") <=> Holds(mailbox, "Join")
    BY <2>1, Taken
  <2>6. \A p \in Programs : Up(p)' <=> Up(p)
    BY <2>1 DEF Up
  <2> QED BY <2>1, <2>2, <2>3, <2>4, <2>5, <2>6 DEF AnswersOwed
<1>6. ASSUME NEW p \in Programs, CaretakerHandles(p) PROVE AnswersOwed' /\ LoneInv'
  <2>1. \A q \in Programs : program'[q].daemon = program[q].daemon
    <3>1. CASE HandleWait(p)
      BY <1>0, <3>1 DEF HandleWait, Caretaker
    <3>2. CASE HandleTerminate(p)
      BY <1>0, <3>2 DEF HandleTerminate, Caretaker
    <3>3. CASE HandleJoinWait(p) \/ HandleGetStatus(p)
      BY <3>3 DEF HandleJoinWait, HandleGetStatus
    <3> QED BY <1>6, <3>1, <3>2, <3>3 DEF CaretakerHandles
  <2>2. LoneInv'
    <3>1. inbox[p] \in Seq(CaretakerMessage) /\ inbox[p] # <<>> /\ Lone(inbox[p])
      BY <1>6, Handled DEF LoneInv
    <3>2. Lone(Tail(inbox[p])) /\ Tail(inbox[p]) \in Seq(CaretakerMessage)
      BY <3>1, LoneLess, Queues
    <3>3. Lone(Append(Tail(inbox[p]), "Wait"))
      BY <3>2, LoneMore, Messages
    <3> QED BY <1>6, <3>2, <3>3, Handled DEF LoneInv
  <2>3. CASE HandleJoinWait(p)
    <3>1. /\ Head(inbox[p]) = "JoinWait" /\ inbox'[p] = Tail(inbox[p])
          /\ join'[p] = IF Up(p) THEN "subscribed" ELSE "done"
          /\ \A q \in Programs \ {p} : join'[q] = join[q]
          /\ UNCHANGED answers
      BY <1>0, <2>3 DEF HandleJoinWait, Take, Drop, Up
    <3>2. inbox[p] \in Seq(CaretakerMessage) /\ inbox[p] # <<>> /\ Lone(inbox[p])
      BY <1>6, Handled DEF LoneInv
    <3>3. ~Holds(inbox'[p], "JoinWait")
      BY <3>1, <3>2, LoneLess
    <3>4. /\ \A q \in Programs : Holds(inbox[q], "GetStatus") => Holds(inbox'[q], "GetStatus")
          /\ \A q \in Programs \ {p} : inbox'[q] = inbox[q]
          /\ UNCHANGED <<mailbox, joinTask, request>>
      BY <1>6, <3>1, Handled
    <3>5. \A q \in Programs : Up(q)' <=> Up(q)
      BY <2>1 DEF Up
    <3>6. \A q \in Programs : join[q] # "unsent" => join'[q] # "unsent"
      BY <3>1
    <3> QED BY <2>2, <3>1, <3>3, <3>4, <3>5, <3>6 DEF AnswersOwed
  <2>4. CASE HandleWait(p) \/ HandleTerminate(p) \/ HandleGetStatus(p)
    <3>1. Head(inbox[p]) # "JoinWait" /\ UNCHANGED join
      BY <2>4 DEF HandleWait, HandleTerminate, HandleGetStatus, Take
    <3>2. /\ \A q \in Programs : Holds(inbox'[q], "JoinWait") <=> Holds(inbox[q], "JoinWait")
          /\ \A q \in Programs \ {p} : inbox'[q] = inbox[q]
          /\ UNCHANGED <<mailbox, joinTask, request>>
      BY <1>6, <3>1, Handled
    <3>3. \A q \in Programs : Up(q)' <=> Up(q)
      BY <2>1 DEF Up
    <3>4. ASSUME NEW q \in Programs, request = "asked", answers'[q] = "?"
          PROVE  /\ answers[q] = "?"
                 /\ Holds(inbox[q], "GetStatus") => Holds(inbox'[q], "GetStatus")
      <4>1. CASE HandleGetStatus(p)
        <5>1. q # p
          BY <1>0, <3>4, <4>1 DEF HandleGetStatus
        <5> QED BY <1>0, <3>2, <3>4, <4>1, <5>1 DEF HandleGetStatus
      <4>2. CASE HandleWait(p) \/ HandleTerminate(p)
        <5>1. Head(inbox[p]) # "GetStatus" /\ UNCHANGED answers
          BY <4>2 DEF HandleWait, HandleTerminate, Take
        <5> QED BY <1>6, <3>2, <3>4, <5>1, Handled
      <4> QED BY <2>4, <4>1, <4>2
    <3> QED BY <2>2, <3>1, <3>2, <3>3, <3>4 DEF AnswersOwed
  <2> QED BY <1>6, <2>3, <2>4 DEF CaretakerHandles
<1>7. ASSUME NEW p \in Programs,
             \/ Spawn(p) \/ SpawnFails(p) \/ Report(p) \/ StopChild(p) \/ ChildEnds(p)
             \/ DaemonEnds(p)
      PROVE  AnswersOwed' /\ LoneInv'
  <2>1. UNCHANGED <<mailbox, inbox, joinTask, request, answers>>
    BY <1>7, ProgramForm
  <2>2. \A q \in Programs :
            /\ join'[q] = "unsent" <=> join[q] = "unsent"
            /\ join'[q] = "sent" <=> join[q] = "sent"
            /\ join'[q] = "subscribed" => join[q] = "subscribed"
                                          /\ program'[q].daemon = program[q].daemon
    BY <1>7, ProgramForm
  <2>3. \A q \in Programs : join'[q] = "subscribed" => Up(q)'
    BY <2>2 DEF AnswersOwed, Up
  <2> QED BY <2>1, <2>2, <2>3 DEF AnswersOwed, LoneInv
<1> QED
  BY <1>1, <1>3, <1>4, <1>5, <1>6, <1>7
     DEF Next, Serving, Process, Http, ProgramMoves, SupervisorHandles

(***************************************************************************)
(* Theorem: whoever waits, for the end of the programs or for their        *)
(* statuses, waits for something that is still on its way.                 *)
(***************************************************************************)
THEOREM AnswersAreOwed == Spec => []AnswersOwed
<1>1. Init => AnswersOwed /\ LoneInv
  BY DEF Init, AnswersOwed, LoneInv, Lone, Holds
<1> QED BY <1>1, OwedStep, RInvariant, PTL DEF Spec
=============================================================================
