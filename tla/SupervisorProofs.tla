-------------------------- MODULE SupervisorProofs --------------------------
(***************************************************************************)
(* For any number of programs and signals: why a child can be left behind, *)
(* and that no answer of the endpoints is stale.                           *)
(***************************************************************************)
EXTENDS Supervisor, TLAPS

LEMMA Queues ==
    /\ \A s \in Seq(SupervisorMessage) : s # <<>> => Tail(s) \in Seq(SupervisorMessage)
    /\ \A s \in Seq(SupervisorMessage) :
          \A m \in SupervisorMessage : Append(s, m) \in Seq(SupervisorMessage)
    /\ \A s \in Seq(CaretakerMessage) : s # <<>> => Tail(s) \in Seq(CaretakerMessage)
    /\ \A s \in Seq(CaretakerMessage) :
          \A m \in CaretakerMessage : Append(s, m) \in Seq(CaretakerMessage)
  OBVIOUS

LEMMA Messages ==
    /\ "Join" \in SupervisorMessage /\ "TerminateAll" \in SupervisorMessage
    /\ "GetStatusAll" \in SupervisorMessage
    /\ "JoinWait" \in CaretakerMessage /\ "Wait" \in CaretakerMessage
    /\ "Terminate" \in CaretakerMessage /\ "GetStatus" \in CaretakerMessage
  BY DEF SupervisorMessage, CaretakerMessage
-----------------------------------------------------------------------------
(* Types.                                                                  *)

LEMMA SeenTypes ==
    ASSUME TypeOK, Observe
    PROVE  seen' \in [Programs -> SUBSET {"good", "bad"}]
<1>1. \A p \in Programs : Look(p)' \in {"good", "bad"}
  BY DEF Look
<1> QED
  BY <1>1 DEF TypeOK, Observe

LEMMA ProcessTypes ==
    ASSUME TypeOK, Process \/ Http \/ Bind, Observe
    PROVE  TypeOK'
<1> USE DEF procVars, joinVars, httpVars
<1>0. seen' \in [Programs -> SUBSET {"good", "bad"}]
  BY SeenTypes
<1>1. CASE SendJoin \/ HandleSignal \/ Ask
  <2>1. mailbox' \in Seq(SupervisorMessage)
    BY <1>1, Queues, Messages DEF TypeOK, SendJoin, HandleSignal, Ask
  <2> QED
    BY <1>0, <1>1, <2>1 DEF TypeOK, SendJoin, HandleSignal, Ask
<1>2. CASE Bind \/ JoinEnds \/ Return \/ SignalArrives \/ ServerStops \/ Respond
  <2>1. signals' \in 0..MaxSignals
    BY <1>2, SupervisorAssumption
       DEF TypeOK, Bind, JoinEnds, Return, SignalArrives, ServerStops, Respond
  <2>2. request' \in {"none", "asked"} \cup Response
    BY <1>2 DEF TypeOK, Bind, JoinEnds, Return, SignalArrives, ServerStops, Respond,
                health, status, Response
  <2> QED
    BY <1>0, <1>2, <2>1, <2>2
       DEF TypeOK, Bind, JoinEnds, Return, SignalArrives, ServerStops, Respond
<1>3. CASE SupervisorHandles
  <2>1. mailbox' \in Seq(SupervisorMessage)
    BY <1>3, Queues, Messages DEF TypeOK, SupervisorHandles, HandleJoin, HandleTerminateAll,
                        HandleGetStatusAll, Receive
  <2>2. inbox' \in [Programs -> Seq(CaretakerMessage)]
    <3>1. ASSUME NEW m \in CaretakerMessage, Forward(m)
          PROVE  inbox' \in [Programs -> Seq(CaretakerMessage)]
      <4>1. \A p \in Programs : inbox[p] \in Seq(CaretakerMessage)
        BY DEF TypeOK
      <4>2. \A p \in Programs : Append(inbox[p], m) \in Seq(CaretakerMessage)
        BY <4>1, Queues, Messages
      <4> QED
        BY <3>1, <4>1, <4>2 DEF Forward
    <3> QED
      BY <1>3, <3>1, Messages
         DEF SupervisorHandles, HandleJoin, HandleTerminateAll, HandleGetStatusAll
  <2>3. program' \in [Programs -> Caretaker]
    <3>1. \A c \in Caretaker : [c EXCEPT !.stop = "Asked"] \in Caretaker
      BY DEF Caretaker
    <3> QED
      BY <1>3, <3>1 DEF TypeOK, SupervisorHandles, HandleJoin, HandleTerminateAll,
                        HandleGetStatusAll
  <2> QED
    BY <1>0, <1>3, <2>1, <2>2, <2>3
       DEF TypeOK, SupervisorHandles, HandleJoin, HandleTerminateAll,
           HandleGetStatusAll
<1> QED
  BY <1>1, <1>2, <1>3 DEF Process, Http

LEMMA HandlerTypes ==
    ASSUME TypeOK, NEW p \in Programs, CaretakerHandles(p), Observe
    PROVE  TypeOK'
<1> USE DEF procVars, joinVars, httpVars
<1>0. seen' \in [Programs -> SUBSET {"good", "bad"}]
  BY SeenTypes
<1>1. inbox[p] \in Seq(CaretakerMessage) /\ inbox[p] # <<>>
  BY DEF TypeOK, CaretakerHandles, HandleJoinWait, HandleWait, HandleTerminate,
         HandleGetStatus, Take
<1>2. Tail(inbox[p]) \in Seq(CaretakerMessage)
  BY <1>1, Queues, Messages
<1>3. Append(Tail(inbox[p]), "Wait") \in Seq(CaretakerMessage)
  BY <1>2, Queues, Messages
<1>4. inbox' \in [Programs -> Seq(CaretakerMessage)]
  BY <1>2, <1>3 DEF TypeOK, CaretakerHandles, HandleJoinWait, HandleWait,
                    HandleTerminate, HandleGetStatus, Drop
<1>5. program' \in [Programs -> Caretaker]
  <2>1. program[p] \in Caretaker
    BY DEF TypeOK
  <2>2. ASSUME NEW c \in Caretaker, program' = [program EXCEPT ![p] = c]
        PROVE  program' \in [Programs -> Caretaker]
    BY <2>2 DEF TypeOK
  <2>3. CASE HandleWait(p)
    <3> DEFINE c == [program[p] EXCEPT !.subscribed = @ \/ program[p].daemon = "Up"]
    <3>1. c \in Caretaker
      BY <2>1 DEF Caretaker
    <3> QED
      BY <2>2, <2>3, <3>1 DEF HandleWait
  <2>4. CASE HandleTerminate(p)
    <3> DEFINE c == [program[p] EXCEPT !.stop = IF @ = "Asked" /\ program[p].daemon = "Up"
                                                   THEN "Signalled" ELSE @]
    <3>1. c \in Caretaker
      BY <2>1 DEF Caretaker
    <3> QED
      BY <2>2, <2>4, <3>1 DEF HandleTerminate
  <2> QED
    BY <2>3, <2>4 DEF TypeOK, CaretakerHandles, HandleJoinWait, HandleGetStatus
<1> QED
  BY <1>0, <1>4, <1>5 DEF TypeOK, CaretakerHandles, HandleJoinWait, HandleWait,
                    HandleTerminate, HandleGetStatus

LEMMA ProgramTypes ==
    ASSUME TypeOK, NEW p \in Programs, Observe,
           Spawn(p) \/ SpawnFails(p) \/ Report(p) \/ StopChild(p) \/ ChildEnds(p) \/ DaemonEnds(p)
    PROVE  TypeOK'
<1> USE DEF procVars, joinVars, httpVars
<1>0. seen' \in [Programs -> SUBSET {"good", "bad"}]
  BY SeenTypes
<1>1. program[p] \in Caretaker
  BY DEF TypeOK
<1>2. ASSUME NEW c \in Caretaker, Becomes(p, c)
      PROVE  TypeOK'
  BY <1>0, <1>2 DEF TypeOK, Becomes
<1>3. CASE Spawn(p)
  BY <1>1, <1>2, <1>3 DEF Spawn, Caretaker, Lifecycle, Running, Health
<1>4. CASE SpawnFails(p)
  BY <1>1, <1>2, <1>4 DEF SpawnFails, Caretaker, Lifecycle, Running, Health
<1>5. CASE Report(p)
  BY <1>1, <1>2, <1>5 DEF Report, Caretaker, Lifecycle, Running, Health
<1>6. CASE StopChild(p)
  BY <1>1, <1>2, <1>6 DEF StopChild, Caretaker, Lifecycle
<1>7. CASE ChildEnds(p)
  BY <1>1, <1>2, <1>7 DEF ChildEnds, Caretaker, Lifecycle
<1>8. CASE DaemonEnds(p)
  <2>1. CASE Becomes(p, [program[p] EXCEPT !.daemon = "Panicked"])
    BY <1>1, <1>2, <2>1 DEF Caretaker
  <2>2. CASE ~Becomes(p, [program[p] EXCEPT !.daemon = "Panicked"])
    <3> DEFINE c == [program[p] EXCEPT
                       !.daemon = "Resolved",
                       !.status = IF program[p].stop = "Consumed" THEN "Terminated" ELSE "Failed",
                       !.stop = IF @ = "Signalled" THEN "Consumed" ELSE @]
    <3>1. c \in Caretaker
      BY <1>1 DEF Caretaker, Lifecycle
    <3>2. program' = [program EXCEPT ![p] = c]
      BY <1>8, <2>2 DEF DaemonEnds
    <3>3. program' \in [Programs -> Caretaker]
      BY <3>1, <3>2 DEF TypeOK
    <3> QED
      BY <1>0, <1>8, <2>2, <3>3 DEF TypeOK, DaemonEnds
  <2> QED
    BY <2>1, <2>2
<1> QED
  BY <1>3, <1>4, <1>5, <1>6, <1>7, <1>8

LEMMA TypeStep ==
    ASSUME TypeOK, [Next]_vars
    PROVE  TypeOK'
<1>1. CASE UNCHANGED vars
  BY <1>1 DEF TypeOK, vars, procVars, joinVars, httpVars
<1>2. CASE Observe /\ (Bind \/ Process \/ Http)
  BY <1>2, ProcessTypes
<1>3. ASSUME NEW p \in Programs, Observe, CaretakerHandles(p)
      PROVE  TypeOK'
  BY <1>3, HandlerTypes
<1>4. ASSUME NEW p \in Programs, Observe,
             Spawn(p) \/ SpawnFails(p) \/ Report(p) \/ StopChild(p) \/ ChildEnds(p) \/ DaemonEnds(p)
      PROVE  TypeOK'
  BY <1>4, ProgramTypes
<1> QED
  BY <1>1, <1>2, <1>3, <1>4 DEF Next, Serving, ProgramMoves

LEMMA TypeInit == Init => TypeOK
<1> SUFFICES ASSUME Init PROVE TypeOK
  OBVIOUS
<1>1. mailbox \in Seq(SupervisorMessage) /\ inbox \in [Programs -> Seq(CaretakerMessage)]
  <2>1. <<>> \in Seq(SupervisorMessage) /\ <<>> \in Seq(CaretakerMessage)
    OBVIOUS
  <2> QED
    BY <2>1 DEF Init
<1>2. program \in [Programs -> Caretaker]
  BY DEF Init, Caretaker, Lifecycle, Running
<1>3. signals \in 0..MaxSignals
  BY SupervisorAssumption DEF Init
<1>4. /\ main \in {"Starting", "Serving", "Returned", "Failed"}
      /\ stopping \subseteq {"Join", "Signal"}
      /\ pending \in BOOLEAN /\ joinTask \in {"Spawned", "Waiting", "Answered"}
  BY DEF Init
<1>5. /\ join \in [Programs -> {"unsent", "sent", "subscribed", "done", "closed"}]
      /\ answers \in [Programs -> {"?", "fit", "unfit", "closed"}]
  BY DEF Init
<1>6. seen \in [Programs -> SUBSET {"good", "bad"}]
  BY DEF Init
<1> QED
  BY <1>1, <1>2, <1>3, <1>4, <1>5, <1>6 DEF Init, TypeOK

\* Theorem: every variable keeps its type.
THEOREM TypeCorrect == Spec => []TypeOK
  BY TypeInit, TypeStep, PTL DEF Spec
-----------------------------------------------------------------------------
(* The invariant.                                                          *)

\* Whoever is done has no child, and to whom has panicked nothing is sent.
GoneInv ==
    \A p \in Programs :
        /\ program[p].daemon # "Up" => ~program[p].child
        /\ program[p].daemon = "Panicked" => inbox[p] = <<>>

\* What the Waits of Join know of the daemons.
JoinInv ==
    \A p \in Programs :
        /\ join[p] = "done" => program[p].daemon = "Resolved"
        /\ join[p] = "closed" => program[p].daemon = "Panicked"

\* Why the server stops.
StopInv ==
    /\ main = "Returned" => stopping # {}
    /\ "Join" \in stopping => \/ \A p \in Programs : program[p].daemon = "Resolved"
                              \/ \E p \in Programs : program[p].daemon = "Panicked"

\* Where an answer comes from.
AnswerInv ==
    \A p \in Programs :
        /\ program[p].status = "Healthy" => program[p].child
        /\ answers[p] = "fit" => request = "asked" /\ "good" \in seen[p]
        /\ answers[p] = "unfit" => request = "asked" /\ "bad" \in seen[p]

IInv == TypeOK /\ GoneInv /\ JoinInv /\ StopInv /\ AnswerInv

LEMMA SeenGrows ==
    ASSUME IInv, Observe, UNCHANGED request
    PROVE  \A p \in Programs : request = "asked" =>
               seen[p] \subseteq seen'[p] /\ Look(p)' \in seen'[p]
  BY DEF Observe, IInv, TypeOK

\* A step that leaves the answers and the statuses of the children alone.
LEMMA AnswersKept ==
    ASSUME IInv, Observe, UNCHANGED <<request, answers>>,
           \A p \in Programs : program'[p].status = "Healthy" => program'[p].child
    PROVE  AnswerInv'
  BY SeenGrows DEF IInv, AnswerInv

\* No daemon comes back.
LEMMA StopKept ==
    ASSUME IInv, UNCHANGED <<main, stopping>>,
           \A p \in Programs : program[p].daemon # "Up" => program'[p].daemon = program[p].daemon
    PROVE  StopInv'
  BY DEF IInv, StopInv

LEMMA InvMain ==
    ASSUME IInv, TypeOK', Observe, UNCHANGED <<inbox, program, join>>,
           Bind \/ SendJoin \/ JoinEnds \/ Return \/ SignalArrives \/ ServerStops \/ HandleSignal
    PROVE  IInv'
<1> USE DEF procVars, joinVars, httpVars
<1>1. GoneInv' /\ JoinInv'
  BY DEF IInv, GoneInv, JoinInv
<1>2. AnswerInv'
  <2>1. UNCHANGED <<request, answers>>
    BY DEF Bind, SendJoin, JoinEnds, Return, SignalArrives, ServerStops, HandleSignal
  <2> QED
    BY <2>1, AnswersKept DEF IInv, AnswerInv
<1>3. StopInv'
  <2>1. CASE JoinEnds
    <3>1. (\A p \in Programs : join[p] = "done") \/ (\E p \in Programs : join[p] = "closed")
      BY <2>1 DEF JoinEnds, Joined
    <3>2. \/ \A p \in Programs : program[p].daemon = "Resolved"
          \/ \E p \in Programs : program[p].daemon = "Panicked"
      BY <3>1 DEF IInv, JoinInv
    <3> QED
      BY <2>1, <3>2 DEF JoinEnds, IInv, StopInv
  <2>2. CASE Bind \/ SendJoin \/ Return \/ SignalArrives \/ ServerStops \/ HandleSignal
    BY <2>2 DEF IInv, StopInv, Bind, SendJoin, Return, SignalArrives, ServerStops, HandleSignal
  <2> QED
    BY <2>1, <2>2
<1> QED
  BY <1>1, <1>2, <1>3 DEF IInv

LEMMA InvHttp ==
    ASSUME IInv, TypeOK', Observe, Ask \/ Respond
    PROVE  IInv'
<1> USE DEF procVars, joinVars, httpVars
<1>1. GoneInv' /\ JoinInv'
  BY DEF IInv, GoneInv, JoinInv, Ask, Respond
<1>2. StopInv'
  BY StopKept DEF Ask, Respond
<1>3. AnswerInv'
  BY DEF IInv, AnswerInv, Ask, Respond
<1> QED
  BY <1>1, <1>2, <1>3 DEF IInv

LEMMA InvSupervisor ==
    ASSUME IInv, TypeOK', Observe, SupervisorHandles
    PROVE  IInv'
<1> USE DEF procVars, joinVars, httpVars
<1>1. \A p \in Programs :
          /\ program'[p].daemon = program[p].daemon
          /\ program'[p].child = program[p].child
          /\ program'[p].status = program[p].status
  BY DEF IInv, TypeOK, Caretaker, SupervisorHandles, HandleJoin, HandleTerminateAll,
         HandleGetStatusAll
<1>2. \A p \in Programs : program[p].daemon = "Panicked" => inbox'[p] = inbox[p]
  BY DEF IInv, TypeOK, SupervisorHandles, HandleJoin, HandleTerminateAll, HandleGetStatusAll,
         Forward, Reachable
<1>3. GoneInv'
  BY <1>1, <1>2 DEF IInv, GoneInv
<1>4. JoinInv'
  BY <1>1 DEF IInv, JoinInv, SupervisorHandles, HandleJoin, HandleTerminateAll,
              HandleGetStatusAll, Reachable
<1>5. StopInv'
  BY <1>1, StopKept DEF SupervisorHandles, HandleJoin, HandleTerminateAll, HandleGetStatusAll
<1>6. AnswerInv'
  <2>1. \A p \in Programs : answers'[p] = answers[p] \/ answers'[p] \in {"?", "closed"}
    BY DEF SupervisorHandles, HandleJoin, HandleTerminateAll, HandleGetStatusAll
  <2>2. UNCHANGED request
    BY DEF SupervisorHandles, HandleJoin, HandleTerminateAll, HandleGetStatusAll
  <2> QED
    BY <1>1, <2>1, <2>2, SeenGrows DEF IInv, AnswerInv
<1> QED
  BY <1>3, <1>4, <1>5, <1>6 DEF IInv

LEMMA InvHandlers ==
    ASSUME IInv, TypeOK', Observe, NEW p \in Programs, CaretakerHandles(p)
    PROVE  IInv'
<1> USE DEF procVars, joinVars, httpVars
<1>1. \A q \in Programs :
          /\ program'[q].daemon = program[q].daemon
          /\ program'[q].child = program[q].child
          /\ program'[q].status = program[q].status
  <2>1. program \in [Programs -> Caretaker]
    BY DEF IInv, TypeOK
  <2>2. CASE HandleWait(p)
    BY <2>1, <2>2 DEF Caretaker, HandleWait
  <2>3. CASE HandleTerminate(p)
    BY <2>1, <2>3 DEF Caretaker, HandleTerminate
  <2>4. CASE HandleJoinWait(p) \/ HandleGetStatus(p)
    BY <2>4 DEF HandleJoinWait, HandleGetStatus
  <2> QED
    BY <2>2, <2>3, <2>4 DEF CaretakerHandles
<1>2. /\ inbox[p] # <<>>
      /\ \A q \in Programs \ {p} : inbox'[q] = inbox[q]
  BY DEF IInv, TypeOK, CaretakerHandles, HandleJoinWait, HandleWait, HandleTerminate,
         HandleGetStatus, Take, Drop
<1>3. program[p].daemon # "Panicked"
  BY <1>2 DEF IInv, GoneInv
<1>4. GoneInv'
  BY <1>1, <1>2, <1>3 DEF IInv, GoneInv
<1>5. JoinInv'
  <2>1. program[p].daemon \in {"Up", "Resolved"}
    BY <1>3 DEF IInv, TypeOK, Caretaker
  <2> QED
    BY <1>1, <2>1 DEF IInv, TypeOK, JoinInv, CaretakerHandles, HandleJoinWait, HandleWait,
                      HandleTerminate, HandleGetStatus
<1>6. StopInv'
  BY <1>1, StopKept DEF CaretakerHandles, HandleJoinWait, HandleWait, HandleTerminate,
                        HandleGetStatus
<1>7. AnswerInv'
  <2>1. CASE HandleGetStatus(p)
    <3>1. Look(p)' = Look(p)
      BY <1>1 DEF Look
    <3>2. Look(p) = IF Fit(program[p].status) THEN "good" ELSE "bad"
      BY DEF Look, Fit, IInv, AnswerInv
    <3>3. UNCHANGED request
      BY <2>1 DEF HandleGetStatus
    <3>4. \A q \in Programs \ {p} : answers'[q] = answers[q]
      BY <2>1 DEF HandleGetStatus, IInv, TypeOK
    <3>5. answers'[p] = IF request # "asked" THEN answers[p]
                        ELSE IF Fit(program[p].status) THEN "fit" ELSE "unfit"
      BY <2>1 DEF HandleGetStatus, IInv, TypeOK
    <3> QED
      BY <1>1, <3>1, <3>2, <3>3, <3>4, <3>5, SeenGrows DEF IInv, AnswerInv
  <2>2. CASE HandleJoinWait(p) \/ HandleWait(p) \/ HandleTerminate(p)
    <3>1. UNCHANGED <<request, answers>>
      BY <2>2 DEF HandleJoinWait, HandleWait, HandleTerminate
    <3> QED
      BY <1>1, <3>1, AnswersKept DEF IInv, AnswerInv
  <2> QED
    BY <2>1, <2>2 DEF CaretakerHandles
<1> QED
  BY <1>4, <1>5, <1>6, <1>7 DEF IInv

LEMMA InvProgram ==
    ASSUME IInv, TypeOK', Observe, NEW p \in Programs,
           Spawn(p) \/ SpawnFails(p) \/ Report(p) \/ StopChild(p) \/ ChildEnds(p) \/ DaemonEnds(p)
    PROVE  IInv'
<1> USE DEF procVars, joinVars, httpVars
<1>1. /\ program[p].daemon = "Up" /\ program[p] \in Caretaker
      /\ program \in [Programs -> Caretaker]
      /\ UNCHANGED <<main, stopping, inbox, request, answers>>
  BY DEF IInv, TypeOK, Spawn, SpawnFails, Report, StopChild, ChildEnds, DaemonEnds, Polled, Up,
         Becomes
<1>2. \A q \in Programs \ {p} : program'[q] = program[q]
  BY <1>1 DEF Spawn, SpawnFails, Report, StopChild, ChildEnds, DaemonEnds, Becomes
<1>3. \A c : Becomes(p, c) => program'[p] = c /\ UNCHANGED join
  BY <1>1 DEF Becomes
<1>4. program[p].status = "Healthy" => program[p].child
  BY DEF IInv, AnswerInv
<1>5. ASSUME program'[p].status = "Healthy" => program'[p].child,
             program'[p].daemon # "Up" => ~program'[p].child /\ inbox[p] = <<>>,
             \/ UNCHANGED join
             \/ program'[p].daemon = "Resolved" /\ join' = [join EXCEPT ![p] = "done"]
             \/ program'[p].daemon = "Resolved" /\ join' = [join EXCEPT ![p] = @]
      PROVE  IInv'
  <2>1. AnswerInv'
    BY <1>1, <1>2, <1>5, AnswersKept DEF IInv, AnswerInv
  <2>2. StopInv'
    BY <1>1, <1>2, StopKept
  <2>3. GoneInv'
    BY <1>1, <1>2, <1>5 DEF IInv, GoneInv
  <2>4. join[p] \notin {"done", "closed"}
    BY <1>1 DEF IInv, JoinInv
  <2>5. \A q \in Programs \ {p} : join'[q] = join[q]
    BY <1>5 DEF IInv, TypeOK
  <2>6. \/ join'[p] = join[p]
        \/ program'[p].daemon = "Resolved" /\ join'[p] \in {"done", join[p]}
    BY <1>5 DEF IInv, TypeOK
  <2>7. JoinInv'
    BY <1>2, <2>4, <2>5, <2>6 DEF IInv, JoinInv
  <2> QED
    BY <2>1, <2>2, <2>3, <2>7 DEF IInv
<1>6. CASE Spawn(p)
  <2>1. program'[p].daemon = "Up" /\ program'[p].child = TRUE /\ UNCHANGED join
    BY <1>1, <1>6 DEF Spawn, Becomes, Caretaker
  <2> QED
    BY <1>5, <2>1
<1>7. CASE SpawnFails(p)
  <2>1. program'[p].daemon = "Up" /\ program'[p].status # "Healthy" /\ UNCHANGED join
    BY <1>1, <1>3, <1>7 DEF SpawnFails, Caretaker
  <2> QED
    BY <1>5, <2>1
<1>8. CASE Report(p)
  <2>1. program'[p].daemon = "Up" /\ program'[p].child = program[p].child /\ UNCHANGED join
    BY <1>1, <1>8 DEF Report, Becomes, Caretaker
  <2>2. program[p].child
    BY <1>8 DEF Report
  <2> QED
    BY <1>5, <2>1, <2>2
<1>9. CASE StopChild(p)
  <2>1. program'[p].daemon = "Up" /\ program'[p].status # "Healthy" /\ UNCHANGED join
    BY <1>1, <1>9 DEF StopChild, Becomes, Caretaker
  <2> QED
    BY <1>5, <2>1
<1>10. CASE ChildEnds(p)
  <2>1. program'[p].daemon = "Up" /\ program'[p].status # "Healthy" /\ UNCHANGED join
    BY <1>1, <1>10 DEF ChildEnds, Becomes, Caretaker
  <2> QED
    BY <1>5, <2>1
<1>11. CASE DaemonEnds(p)
  <2>1. inbox[p] = <<>> /\ ~program[p].child /\ program[p].status = "Terminated"
    BY <1>11 DEF DaemonEnds, Polled
  <2>2. CASE Becomes(p, [program[p] EXCEPT !.daemon = "Panicked"])
    BY <1>1, <1>3, <1>5, <2>1, <2>2 DEF Caretaker
  <2>3. CASE ~Becomes(p, [program[p] EXCEPT !.daemon = "Panicked"])
    <3> DEFINE c == [program[p] EXCEPT
                       !.daemon = "Resolved",
                       !.status = IF program[p].stop = "Consumed" THEN "Terminated" ELSE "Failed",
                       !.stop = IF @ = "Signalled" THEN "Consumed" ELSE @]
    <3>1. /\ program' = [program EXCEPT ![p] = c]
          /\ join' = [join EXCEPT ![p] = IF @ = "subscribed" THEN "done" ELSE @]
      BY <1>11, <2>3 DEF DaemonEnds
    <3>2. program'[p] = c
      BY <1>1, <3>1
    <3>3. c.daemon = "Resolved" /\ c.child = program[p].child /\ c.status \in {"Terminated", "Failed"}
      BY <1>1 DEF Caretaker
    <3> QED
      BY <1>5, <2>1, <3>1, <3>2, <3>3
  <2> QED
    BY <2>2, <2>3
<1> QED
  BY <1>6, <1>7, <1>8, <1>9, <1>10, <1>11

LEMMA Invariant == Spec => []IInv
<1>1. Init => IInv
  BY TypeInit DEF Init, IInv, GoneInv, JoinInv, StopInv, AnswerInv
<1>2. ASSUME IInv, [Next]_vars
      PROVE  IInv'
  <2>1. TypeOK'
    BY <1>2, TypeStep DEF IInv
  <2>2. CASE UNCHANGED vars
    BY <1>2, <2>1, <2>2 DEF IInv, GoneInv, JoinInv, StopInv, AnswerInv, vars, procVars, joinVars,
                            httpVars
  <2>3. CASE Observe /\ (Bind \/ SendJoin \/ JoinEnds \/ Return \/ SignalArrives \/ ServerStops
                           \/ HandleSignal)
    <3>1. UNCHANGED <<inbox, program, join>>
      BY <2>3 DEF Bind, SendJoin, JoinEnds, Return, SignalArrives, ServerStops, HandleSignal,
                  joinVars
    <3> QED
      BY <1>2, <2>1, <2>3, <3>1, InvMain
  <2>4. CASE Observe /\ SupervisorHandles
    BY <1>2, <2>1, <2>4, InvSupervisor
  <2>5. CASE Observe /\ (Ask \/ Respond)
    BY <1>2, <2>1, <2>5, InvHttp
  <2>6. ASSUME NEW p \in Programs, Observe, CaretakerHandles(p)
        PROVE  IInv'
    BY <1>2, <2>1, <2>6, InvHandlers
  <2>7. ASSUME NEW p \in Programs, Observe,
               \/ Spawn(p) \/ SpawnFails(p) \/ Report(p) \/ StopChild(p) \/ ChildEnds(p)
               \/ DaemonEnds(p)
        PROVE  IInv'
    BY <1>2, <2>1, <2>7, InvProgram
  <2> QED
    BY <1>2, <2>2, <2>3, <2>4, <2>5, <2>6, <2>7 DEF Next, Serving, Process, Http, ProgramMoves
<1> QED
  BY <1>1, <1>2, PTL DEF Spec

\* Theorem: a child is left behind only by the server's own stop or a panic.
THEOREM ExitIsExplained == Spec => []ExitExplained
<1>1. IInv => ExitExplained
  BY DEF IInv, TypeOK, GoneInv, StopInv, ExitExplained
<1> QED
  BY <1>1, Invariant, PTL

\* Theorem: no answer about the health of the programs is stale.
THEOREM HealthIsCurrent == Spec => HealthCurrent
<1> DEFINE Current ==
        request = "asked" =>
           /\ request' = "healthy" => \A p \in Programs : "good" \in seen[p]
           /\ request' = "unhealthy" => /\ Unfit # {}
                                        /\ \A p \in Unfit : "bad" \in seen[p]
<1>1. ASSUME IInv, [Next]_vars
      PROVE  [Current]_vars
  <2>1. CASE Respond
    <3>1. CASE Closed
      BY <2>1, <3>1 DEF Respond
    <3>2. CASE ~Closed
      <4>1. \A p \in Programs : answers[p] \in {"fit", "unfit"}
        BY <1>1, <2>1, <3>2 DEF Respond, Complete, Closed, IInv, TypeOK
      <4>2. request' \in {health, status}
        BY <2>1, <3>2 DEF Respond
      <4> QED
        BY <1>1, <4>1, <4>2 DEF health, status, Unfit, IInv, AnswerInv
    <3> QED
      BY <3>1, <3>2
  <2>2. CASE request' \notin {"healthy", "unhealthy"}
    BY <2>2
  <2>3. CASE UNCHANGED request
    BY <2>3
  <2>4. Respond \/ request' = "asked" \/ UNCHANGED request
    BY <1>1 DEF Next, vars, httpVars, Serving, Process, Http, ProgramMoves, Bind, SendJoin,
                JoinEnds, Return, SignalArrives, ServerStops, HandleSignal, SupervisorHandles,
                HandleJoin, HandleTerminateAll, HandleGetStatusAll, Ask, CaretakerHandles,
                HandleJoinWait, HandleWait, HandleTerminate, HandleGetStatus, Spawn, SpawnFails,
                Report, StopChild, ChildEnds, DaemonEnds, Becomes
  <2> QED
    BY <2>1, <2>2, <2>3, <2>4
<1> QED
  BY <1>1, Invariant, PTL DEF Spec, HealthCurrent
=============================================================================
