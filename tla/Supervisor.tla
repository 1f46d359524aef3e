----------------------------- MODULE Supervisor -----------------------------
(***************************************************************************)
(* The process around the caretakers: main (main.rs), the Supervisor actor *)
(* (supervisor/mod.rs), the SignalHandler (ctrlc_handler.rs), the status   *)
(* endpoints (endpoints.rs) and the HTTP server, which stops by itself on  *)
(* the same signals.  Every caretaker is the SupervisedProgram that module *)
(* Caretaker implements, with the mailbox through which it is reached.     *)
(***************************************************************************)
EXTENDS Naturals, Sequences

CONSTANTS
    Programs,       \* config.programs
    Checked,        \* those with a health check
    MaxSignals      \* bound: signals the process gets

ASSUME SupervisorAssumption == Checked \subseteq Programs /\ MaxSignals \in Nat

VARIABLES
    main,       \* "Starting", "Serving", "Returned" or "Failed"
    stopping,   \* who has told the server to stop: "Join", "Signal"
    signals,    \* number of signals the process got
    pending,    \* the signal stream of SignalHandler has an item
    mailbox,    \* of the supervisor
    joinTask,   \* the task that sends Join: "Spawned", "Waiting", "Answered"
    join,       \* its Wait per program: "unsent", "sent", "subscribed", "done", "closed"
    inbox,      \* the mailbox of each caretaker
    program,    \* the state of each caretaker
    request,    \* to an endpoint: "none", "asked", or what the client got
    answers,    \* what GetStatusAll got: per program "?", "fit", "unfit" or "closed"
    seen        \* history: how each program has looked since the request

procVars == <<main, stopping, signals, pending>>
joinVars == <<joinTask, join>>
httpVars == <<request, answers>>
vars == <<procVars, mailbox, joinVars, inbox, program, httpVars, seen>>
-----------------------------------------------------------------------------
Health == {"Healthy", "Unhealthy", "Unknown"}
Running == {"Starting"} \cup Health
Lifecycle == Running \cup {"Terminating", "Terminated", "Failed"}

\* `subscribed': the Wait of a Terminate listens.  `stop' as in SupervisedProgram.
Caretaker ==
    [status : Lifecycle, child : BOOLEAN, daemon : {"Up", "Resolved", "Panicked"},
     stop : {"No", "Asked", "Signalled", "Consumed"}, subscribed : BOOLEAN]

SupervisorMessage == {"Join", "TerminateAll", "GetStatusAll"}

\* A Wait is told apart by who sent it: Join, or a Terminate.
CaretakerMessage == {"JoinWait", "Wait", "Terminate", "GetStatus"}

Response == {"healthy", "unhealthy", "listed", "error"}

TypeOK ==
    /\ main \in {"Starting", "Serving", "Returned", "Failed"}
    /\ stopping \subseteq {"Join", "Signal"}
    /\ signals \in 0..MaxSignals /\ pending \in BOOLEAN
    /\ mailbox \in Seq(SupervisorMessage)
    /\ joinTask \in {"Spawned", "Waiting", "Answered"}
    /\ join \in [Programs -> {"unsent", "sent", "subscribed", "done", "closed"}]
    /\ inbox \in [Programs -> Seq(CaretakerMessage)]
    /\ program \in [Programs -> Caretaker]
    /\ request \in {"none", "asked"} \cup Response
    /\ answers \in [Programs -> {"?", "fit", "unfit", "closed"}]
    /\ seen \in [Programs -> SUBSET {"good", "bad"}]

Init ==
    /\ main = "Starting" /\ stopping = {} /\ signals = 0 /\ pending = FALSE
    /\ mailbox = <<>>
    /\ joinTask = "Spawned" /\ join = [p \in Programs |-> "unsent"]
    /\ inbox = [p \in Programs |-> <<>>]
    /\ program = [p \in Programs |-> [status |-> "Starting", child |-> FALSE, daemon |-> "Up",
                                      stop |-> "No", subscribed |-> FALSE]]
    /\ request = "none" /\ answers = [p \in Programs |-> "?"]
    /\ seen = [p \in Programs |-> {}]
-----------------------------------------------------------------------------
(* main: no task is polled before the server is bound.                     *)

Bind ==
    /\ main = "Starting"
    /\ \/ main' = "Serving"
       \/ main' = "Failed"
    /\ UNCHANGED <<stopping, signals, pending, mailbox, joinVars, inbox, program, httpVars>>

SendJoin ==
    /\ joinTask = "Spawned"
    /\ joinTask' = "Waiting"
    /\ mailbox' = Append(mailbox, "Join")
    /\ UNCHANGED <<procVars, join, inbox, program, httpVars>>

\* Mutant: Join is over when one program is.
Joined_any == \E p \in Programs : join[p] \in {"done", "closed"}

\* try_join_all: all Waits are answered, or one of them never will be.
Joined == (\A p \in Programs : join[p] = "done") \/ (\E p \in Programs : join[p] = "closed")

\* Join is answered, and the task stops the server.
JoinEnds ==
    /\ joinTask = "Waiting" /\ Joined
    /\ joinTask' = "Answered"
    /\ stopping' = stopping \cup {"Join"}
    /\ UNCHANGED <<main, signals, pending, mailbox, join, inbox, program, httpVars>>

\* The server has stopped and main returns.
Return ==
    /\ stopping # {}
    /\ main' = "Returned"
    /\ UNCHANGED <<stopping, signals, pending, mailbox, joinVars, inbox, program, httpVars>>

\* A signal arrives.  Those that come before the stream is read are one item.
SignalArrives ==
    /\ signals < MaxSignals
    /\ signals' = signals + 1
    /\ pending' = TRUE
    /\ UNCHANGED <<main, stopping, mailbox, joinVars, inbox, program, httpVars>>

\* The server's own handler of the signal (external): it stops, children or not.
ServerStops ==
    /\ signals > 0
    /\ stopping' = stopping \cup {"Signal"}
    /\ UNCHANGED <<main, signals, pending, mailbox, joinVars, inbox, program, httpVars>>

HandleSignal ==
    /\ pending
    /\ pending' = FALSE
    /\ mailbox' = Append(mailbox, "TerminateAll")
    /\ UNCHANGED <<main, stopping, signals, joinVars, inbox, program, httpVars>>
-----------------------------------------------------------------------------
(* The supervisor's handlers.  A message to a caretaker that has panicked  *)
(* is lost, and whoever awaits its answer gets a MailboxError.             *)

Reachable(p) == program[p].daemon # "Panicked"

Receive(message) == mailbox # <<>> /\ Head(mailbox) = message /\ mailbox' = Tail(mailbox)

Forward(message) ==
    inbox' = [p \in Programs |-> IF Reachable(p) THEN Append(inbox[p], message) ELSE inbox[p]]

HandleJoin ==
    /\ Receive("Join")
    /\ Forward("JoinWait")
    /\ join' = [p \in Programs |-> IF Reachable(p) THEN "sent" ELSE "closed"]
    /\ UNCHANGED <<procVars, joinTask, program, httpVars>>

\* Mutant: only the programs that have a child are told.
HandleTerminateAll_alive ==
    /\ Receive("TerminateAll")
    /\ inbox' = [p \in Programs |-> IF Reachable(p) /\ program[p].child
                                      THEN Append(inbox[p], "Terminate") ELSE inbox[p]]
    /\ program' = [p \in Programs |-> IF Reachable(p) /\ program[p].stop = "No"
                                        THEN [program[p] EXCEPT !.stop = "Asked"] ELSE program[p]]
    /\ UNCHANGED <<procVars, joinVars, httpVars>>

HandleTerminateAll ==
    /\ Receive("TerminateAll")
    /\ Forward("Terminate")
    /\ program' = [p \in Programs |-> IF Reachable(p) /\ program[p].stop = "No"
                                        THEN [program[p] EXCEPT !.stop = "Asked"] ELSE program[p]]
    /\ UNCHANGED <<procVars, joinVars, httpVars>>

HandleGetStatusAll ==
    /\ Receive("GetStatusAll")
    /\ Forward("GetStatus")
    /\ answers' = [p \in Programs |-> IF Reachable(p) THEN "?" ELSE "closed"]
    /\ UNCHANGED <<procVars, joinVars, program, request>>

SupervisorHandles == HandleJoin \/ HandleTerminateAll \/ HandleGetStatusAll
-----------------------------------------------------------------------------
(* The handlers of caretaker p.                                            *)

Take(p, message) ==
    inbox[p] # <<>> /\ Head(inbox[p]) = message

Drop(p) == inbox' = [inbox EXCEPT ![p] = Tail(@)]

\* Mutant: a Wait that comes late is left to a broadcast that is over.
HandleJoinWait_late(p) ==
    /\ Take(p, "JoinWait") /\ Drop(p)
    /\ join' = [join EXCEPT ![p] = "subscribed"]
    /\ UNCHANGED <<procVars, mailbox, joinTask, program, httpVars>>

HandleJoinWait(p) ==
    /\ Take(p, "JoinWait") /\ Drop(p)
    /\ join' = [join EXCEPT ![p] = IF program[p].daemon = "Up" THEN "subscribed" ELSE "done"]
    /\ UNCHANGED <<procVars, mailbox, joinTask, program, httpVars>>

\* The Wait of a Terminate: nobody awaits its answer, but it listens.
HandleWait(p) ==
    /\ Take(p, "Wait") /\ Drop(p)
    /\ program' = [program EXCEPT ![p].subscribed = @ \/ program[p].daemon = "Up"]
    /\ UNCHANGED <<procVars, mailbox, joinVars, httpVars>>

\* Mutant: the signal is sent though the daemon is done.
HandleTerminate_always(p) ==
    /\ Take(p, "Terminate")
    /\ inbox' = [inbox EXCEPT ![p] = Append(Tail(@), "Wait")]
    /\ program' = [program EXCEPT ![p].stop = IF @ = "Asked" THEN "Signalled" ELSE @]
    /\ UNCHANGED <<procVars, mailbox, joinVars, httpVars>>

HandleTerminate(p) ==
    /\ Take(p, "Terminate")
    /\ inbox' = [inbox EXCEPT ![p] = Append(Tail(@), "Wait")]
    /\ program' = [program EXCEPT ![p].stop = IF @ = "Asked" /\ program[p].daemon = "Up"
                                                THEN "Signalled" ELSE @]
    /\ UNCHANGED <<procVars, mailbox, joinVars, httpVars>>

\* Mutant: a program that runs is fit.
Fit_running(st) == st \in Health

\* What the endpoints make of a status (of all others, only its name is told).
Fit(st) == st = "Healthy"

\* Mutant: the status is passed on as it is.
HandleGetStatus_raw(p) ==
    /\ Take(p, "GetStatus") /\ Drop(p)
    /\ answers' = [answers EXCEPT ![p] = program[p].status]
    /\ UNCHANGED <<procVars, mailbox, joinVars, program, request>>

HandleGetStatus(p) ==
    /\ Take(p, "GetStatus") /\ Drop(p)
    /\ answers' = [answers EXCEPT ![p] = IF request # "asked" THEN @
                                           ELSE IF Fit(program[p].status) THEN "fit" ELSE "unfit"]
    /\ UNCHANGED <<procVars, mailbox, joinVars, program, request>>

CaretakerHandles(p) ==
    HandleJoinWait(p) \/ HandleWait(p) \/ HandleTerminate(p) \/ HandleGetStatus(p)
-----------------------------------------------------------------------------
(* The program of caretaker p, as in SupervisedProgram.  Its futures are   *)
(* polled when the mailbox is empty; a new child and a report of its       *)
(* health come as messages of their own and do not wait for that.          *)
(* The path of a health check is taken for legal: what an illegal one does *)
(* to its caretaker is in module Caretaker (HandleRunPanics).              *)

Up(p) == program[p].daemon = "Up"
Polled(p) == Up(p) /\ inbox[p] = <<>>

Becomes(p, s) ==
    /\ program' = [program EXCEPT ![p] = s]
    /\ UNCHANGED <<procVars, mailbox, joinVars, inbox, httpVars>>

Spawn(p) ==
    /\ Up(p) /\ ~program[p].child /\ program[p].stop # "Consumed"
    /\ Becomes(p, [program[p] EXCEPT !.child = TRUE,
                                     !.status = IF p \in Checked THEN "Unknown" ELSE "Starting"])

SpawnFails(p) ==
    /\ Up(p) /\ ~program[p].child /\ program[p].stop # "Consumed"
    /\ \E st \in {"Starting", "Terminated"} : Becomes(p, [program[p] EXCEPT !.status = st])

Report(p) ==
    /\ Up(p) /\ program[p].child /\ program[p].status \in Running
    /\ \E st \in {"Healthy"} \cup (IF p \in Checked THEN {"Unhealthy"} ELSE {}) :
           Becomes(p, [program[p] EXCEPT !.status = st])

\* The child gets SIGTERM: on the stop signal, or because it is unhealthy.
StopChild(p) ==
    /\ Polled(p) /\ program[p].child /\ program[p].status \in Running
    /\ program[p].stop = "Signalled" \/ p \in Checked
    /\ Becomes(p, [program[p] EXCEPT !.status = "Terminating",
                                     !.stop = IF @ = "Signalled" THEN "Consumed" ELSE @])

ChildEnds(p) ==
    /\ Polled(p) /\ program[p].child
    /\ program[p].status = "Terminating" \/ program[p].stop \in {"No", "Asked"}
    /\ Becomes(p, [program[p] EXCEPT !.child = FALSE, !.status = "Terminated"])

(***************************************************************************)
(* The daemon is done: stopped, or out of retries.  Without a subscriber   *)
(* the broadcast panics and takes the caretaker with it; module Startup    *)
(* shows how that comes about.                                             *)
(***************************************************************************)
DaemonEnds(p) ==
    /\ Polled(p) /\ ~program[p].child /\ program[p].status = "Terminated"
    /\ IF program[p].subscribed \/ join[p] = "subscribed"
         THEN /\ program' = [program EXCEPT ![p] = [program[p] EXCEPT
                     !.daemon = "Resolved",
                     !.status = IF program[p].stop = "Consumed" THEN "Terminated" ELSE "Failed",
                     !.stop = IF @ = "Signalled" THEN "Consumed" ELSE @]]
              /\ join' = [join EXCEPT ![p] = IF @ = "subscribed" THEN "done" ELSE @]
              /\ UNCHANGED <<procVars, mailbox, joinTask, inbox, httpVars>>
         ELSE Becomes(p, [program[p] EXCEPT !.daemon = "Panicked"])
-----------------------------------------------------------------------------
(* The endpoints, on the server's threads.                                 *)

(***************************************************************************)
(* Bounds: one request in all (every GetStatusAll has channels of its      *)
(* own), and none before Join is sent (those are in module Startup).       *)
(***************************************************************************)
Ask ==
    /\ request = "none" /\ joinTask # "Spawned" /\ stopping = {}
    /\ request' = "asked"
    /\ mailbox' = Append(mailbox, "GetStatusAll")
    /\ UNCHANGED <<procVars, joinVars, inbox, program, answers>>

\* try_join_all: all statuses are there, or one of them never will be.
Closed == \E p \in Programs : answers[p] = "closed"
Complete == Closed \/ \A p \in Programs : answers[p] # "?"

\* The programs that are not Running(Healthy).
Unfit == {p \in Programs : answers[p] # "fit"}

\* What endpoint was asked shows in the answer alone.
health == IF Unfit = {} THEN "healthy" ELSE "unhealthy"
status == "listed"

Respond ==
    /\ request = "asked" /\ Complete
    /\ request' \in IF Closed THEN {"error"} ELSE {health, status}
    /\ answers' = [p \in Programs |-> "?"]
    /\ UNCHANGED <<procVars, mailbox, joinVars, inbox, program>>
-----------------------------------------------------------------------------
\* How p looks to somebody who sees everything at once.
Look(p) == IF program[p].status = "Healthy" /\ program[p].child THEN "good" ELSE "bad"

\* The history is kept by every step.
Observe ==
    seen' = [p \in Programs |-> IF request' # "asked" THEN {}
                                ELSE IF request = "none" THEN {Look(p)'} ELSE seen[p] \cup {Look(p)'}]

Process ==
    \/ SendJoin \/ JoinEnds \/ Return \/ SignalArrives \/ ServerStops \/ HandleSignal
    \/ SupervisorHandles

ProgramMoves(p) ==
    \/ CaretakerHandles(p)
    \/ Spawn(p) \/ SpawnFails(p) \/ Report(p) \/ StopChild(p) \/ ChildEnds(p) \/ DaemonEnds(p)

Http == Ask \/ Respond

\* When main has returned, nothing of the process runs on.
Serving(A) == main = "Serving" /\ A /\ Observe

Next ==
    \/ Bind /\ Observe
    \/ Serving(Process)
    \/ Serving(Http)
    \/ \E p \in Programs : Serving(ProgramMoves(p))

Spec == Init /\ [][Next]_vars

\* What the arbiter can do at once, for no reason but that it is its turn.
Arbiter ==
    \/ SendJoin \/ JoinEnds \/ Return \/ HandleSignal \/ SupervisorHandles
    \/ \E p \in Programs : CaretakerHandles(p)

\* The way of a program that has got the stop signal.
Stopping(p) ==
    /\ program[p].stop \in {"Signalled", "Consumed"}
    /\ Spawn(p) \/ StopChild(p) \/ ChildEnds(p) \/ DaemonEnds(p)

(***************************************************************************)
(* The arbiter does not idle, and a program that has got the signal gets   *)
(* on: it can be spawned (or it would never stop, as run terminate_hangs   *)
(* shows), and its child ends on SIGTERM or is killed.  Strong fairness,   *)
(* because a message in between delays no poll.  Nothing is assumed of the *)
(* server's own handler of signals, nor that a child or a daemon ends      *)
(* without a reason.                                                       *)
(***************************************************************************)
Fairness ==
    /\ WF_vars(Serving(Arbiter))
    /\ \A p \in Programs : SF_vars(Serving(Stopping(p)))

FairSpec == Spec /\ Fairness
-----------------------------------------------------------------------------
\* The only Wait that somebody awaits, as the abstract program sees it.
AbstractWait(p) ==
    [w \in {"Join"} |-> CASE join[p] = "unsent" -> "idle"
                          [] join[p] = "done" -> "done"
                          [] OTHER -> "sent"]

P(p) == INSTANCE SupervisedProgram WITH
            Waiters <- {"Join"},
            status <- program[p].status,
            child <- program[p].child,
            done <- program[p].daemon = "Resolved",
            stop <- program[p].stop,
            waits <- AbstractWait(p)

(***************************************************************************)
(* Property: what the supervisor, the signal handler and the endpoints do  *)
(* with a caretaker is what the abstract program allows its surroundings:  *)
(* no order of Join, TerminateAll and GetStatusAll, nor any of them after  *)
(* the daemon is done, takes a program out of its protocol.                *)
(***************************************************************************)
Conforms ==
    /\ \A p \in Programs : P(p)!Init
    /\ [][\A p \in Programs : [P(p)!Next]_(P(p)!vars)]_vars

(***************************************************************************)
(* Property: main leaves a child behind only if the server stopped on its  *)
(* own account, or a caretaker panicked, which answers Join (try_join_all  *)
(* resolves at the first error) though other programs run on.              *)
(***************************************************************************)
ExitExplained ==
    main = "Returned" /\ (\E p \in Programs : program[p].child)
       => "Signal" \in stopping \/ \E p \in Programs : program[p].daemon = "Panicked"

(***************************************************************************)
(* Property: the statuses of one response are of different instants, but   *)
(* none is stale: "healthy" is only answered if every program has looked   *)
(* good since the request, "unhealthy" only if those blamed have not       *)
(* looked good at some time since.                                         *)
(***************************************************************************)
HealthCurrent ==
    [][request = "asked" =>
         /\ request' = "healthy" => \A p \in Programs : "good" \in seen[p]
         /\ request' = "unhealthy" => /\ Unfit # {}
                                      /\ \A p \in Unfit : "bad" \in seen[p]]_vars

(***************************************************************************)
(* Property: no signal is lost on its way to a program.  Once there was    *)
(* one, it is in the stream, in the supervisor's mailbox, or with every    *)
(* program whose daemon is up: as a Terminate in its mailbox, or signalled *)
(* through stop_tx.  A program that is between two children is no          *)
(* exception, nor one that gets many messages at once.                     *)
(***************************************************************************)
Holds(box, message) == \E i \in DOMAIN box : box[i] = message

Reached(p) ==
    program[p].daemon = "Up" =>
        program[p].stop \in {"Signalled", "Consumed"} \/ Holds(inbox[p], "Terminate")

SignalKept ==
    signals > 0 => pending \/ Holds(mailbox, "TerminateAll") \/ \A p \in Programs : Reached(p)

(***************************************************************************)
(* Property: nobody waits for an answer that nobody will give.  The Join   *)
(* of main, its Wait to each program and the GetStatus of each program are *)
(* answered, or on their way, or, for a Wait, subscribed to a daemon that  *)
(* is still up: in whatever order daemons end, panic and get messages.     *)
(***************************************************************************)
AnswersOwed ==
    /\ joinTask = "Waiting" =>
          Holds(mailbox, "Join") \/ \A p \in Programs : join[p] # "unsent"
    /\ \A p \in Programs :
          /\ join[p] = "sent" <=> Holds(inbox[p], "JoinWait")
          /\ join[p] = "subscribed" => Up(p)
          /\ request = "asked" /\ answers[p] = "?" =>
                Holds(mailbox, "GetStatusAll") \/ Holds(inbox[p], "GetStatus")

(***************************************************************************)
(* Property: a signal ends main, whatever the programs are doing when it   *)
(* comes, even if the server did not stop by itself.                       *)
(***************************************************************************)
SignalEndsMain == signals > 0 ~> main = "Returned"

(***************************************************************************)
(* Property: when all daemons are done, main ends: Join is answered also   *)
(* if its Wait comes when the broadcast is over, or to a caretaker that    *)
(* is gone.                                                                *)
(***************************************************************************)
DoneEndsMain ==
    (main = "Serving" /\ \A p \in Programs : program[p].daemon # "Up") ~> main = "Returned"
=============================================================================
