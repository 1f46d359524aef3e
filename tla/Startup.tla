------------------------------- MODULE Startup -------------------------------
(***************************************************************************)
(* When a caretaker that gives up has a subscriber.  main() spawns the     *)
(* caretakers, the supervisor and the task that sends Join without an      *)
(* await in between (src/main.rs, src/supervisor/mod.rs); everything after *)
(* that is a question of the order in which the arbiter polls its tasks.   *)
(* This module is about that order; what the polls of a caretaker do in    *)
(* detail is in module Caretaker, which takes its guard Started from       *)
(* SupervisorLast.  The logger and the signal handler take no part in it.  *)
(*                                                                         *)
(* The arbiter (external) keeps two queues: a task that is woken on its    *)
(* own thread goes to the end of `local', one that is woken by another     *)
(* thread or by the I/O driver to the end of `remote', and the next task   *)
(* is the head of either.  A task that is queued is not queued again.      *)
(***************************************************************************)
EXTENDS Integers, Sequences, FiniteSets

CONSTANTS
    N,             \* the number of programs
    EarlyRequests  \* the server may ask for a status before Join is forwarded

ASSUME StartupAssumption == N \in Nat /\ EarlyRequests \in BOOLEAN

\* Tasks in the order main() spawns them; the programs in that of the HashMap.
Programs == 1..N
Supervisor == N + 1
JoinTask == N + 2
Tasks == 1..(N + 2)

VARIABLES
    local,  \* tasks woken on the arbiter's thread
    remote, \* tasks woken from outside
    mail,   \* the supervisor's mailbox
    stage,  \* how far the round of a caretaker has come
    wait    \* what became of the Wait to a caretaker

vars == <<local, remote, mail, stage, wait>>

(***************************************************************************)
(* A caretaker's round: New is before started(), Empty before any other    *)
(* round, RunSent: the Run message is in the own mailbox, Running, Ended:  *)
(* the RunResult is ready, then Sleeping or Resolved.                      *)
(***************************************************************************)
Stage == {"New", "Empty", "RunSent", "Running", "Ended", "Sleeping", "Resolved"}

In(t, queue) == \E i \in DOMAIN queue : queue[i] = t
Queued(t) == In(t, local) \/ In(t, remote)

TypeOK ==
    /\ local \in Seq(Tasks)
    /\ remote \in Seq(Programs \cup {Supervisor})
    /\ mail \subseteq {"Join", "GetStatusAll"}
    /\ stage \in [Programs -> Stage]
    /\ wait \in [Programs -> {"none", "sent", "subscribed"}]

\* Mutant: the supervisor is started first, and starts the caretakers after that.
Init_supervisor_first ==
    /\ local = <<Supervisor>> \o [c \in Programs |-> c] \o <<JoinTask>>
    /\ remote = <<>>
    /\ mail = {}
    /\ stage = [c \in Programs |-> "New"]
    /\ wait = [c \in Programs |-> "none"]

Init ==
    /\ local = [t \in Tasks |-> t]
    /\ remote = <<>>
    /\ mail = {}
    /\ stage = [c \in Programs |-> "New"]
    /\ wait = [c \in Programs |-> "none"]

\* It is the turn of task t; its poll wakes the tasks of the sequence `woken'.
Turn(t, woken) ==
    \/ /\ local # <<>> /\ t = Head(local)
       /\ local' = Tail(local) \o woken
       /\ UNCHANGED remote
    \/ /\ remote # <<>> /\ t = Head(remote)
       /\ remote' = Tail(remote)
       /\ local' = local \o woken

\* A poll of a caretaker drains its mailbox first: a Wait that is there subscribes.
DrainMailbox(c) ==
    wait' = [wait EXCEPT ![c] = IF @ = "sent" THEN "subscribed" ELSE @]
-----------------------------------------------------------------------------
\* The task spawned last: supervisor_addr.send(Join).
PollJoinTask ==
    /\ Turn(JoinTask, IF Queued(Supervisor) THEN <<>> ELSE <<Supervisor>>)
    /\ mail' = mail \cup {"Join"}
    /\ UNCHANGED <<stage, wait>>

\* The caretakers that a message to all of them wakes, in the order of the Vec.
Idle == {c \in Programs : ~Queued(c)}

InOrder(set) ==
    {s \in [1..Cardinality(set) -> set] : \A i, j \in DOMAIN s : i < j => s[i] < s[j]}

\* Handler<Join> sends Wait to all caretakers, Handler<GetStatusAll> GetStatus.
PollSupervisor ==
    /\ \E woken \in InOrder(IF mail = {} THEN {} ELSE Idle) : Turn(Supervisor, woken)
    /\ wait' = IF "Join" \in mail THEN [c \in Programs |-> "sent"] ELSE wait
    /\ mail' = {}
    /\ UNCHANGED stage

\* Mutant: the round runs the program itself instead of sending Run to its actor.
PollEmpty_direct(c) ==
    /\ stage[c] \in {"New", "Empty"}
    /\ Turn(c, <<c>>)
    /\ DrainMailbox(c)
    /\ stage' = [stage EXCEPT ![c] = "Ended"]
    /\ UNCHANGED mail

\* started() if it is the first poll, and FutureSlot::Empty: Run to the own mailbox.
PollEmpty(c) ==
    /\ stage[c] \in {"New", "Empty"}
    /\ Turn(c, <<c>>)
    /\ DrainMailbox(c)
    /\ stage' = [stage EXCEPT ![c] = "RunSent"]
    /\ UNCHANGED mail

(***************************************************************************)
(* Handler<Run>, and every poll of the Run future: the program cannot be   *)
(* spawned or has ended, or it is still there.  The result is sent to the  *)
(* Daemon future, which was polled before in this poll: one more is due.   *)
(***************************************************************************)
PollRun(c) ==
    /\ stage[c] \in {"RunSent", "Running"}
    /\ \E over \in BOOLEAN :
          /\ Turn(c, IF over THEN <<c>> ELSE <<>>)
          /\ stage' = [stage EXCEPT ![c] = IF over THEN "Ended" ELSE "Running"]
    /\ DrainMailbox(c)
    /\ UNCHANGED mail

\* The Daemon future sees the result: it sleeps, or resolves and broadcasts.
PollEnded(c) ==
    /\ stage[c] = "Ended"
    /\ \/ Turn(c, <<c>>) /\ stage' = [stage EXCEPT ![c] = "Sleeping"]
       \/ Turn(c, <<>>) /\ stage' = [stage EXCEPT ![c] = "Resolved"]
    /\ DrainMailbox(c)
    /\ UNCHANGED mail

\* A poll that finds the sleep not over, or nothing but messages.
PollNothing(c) ==
    /\ stage[c] \in {"Sleeping", "Resolved"}
    /\ Turn(c, <<>>)
    /\ DrainMailbox(c)
    /\ UNCHANGED <<mail, stage>>

PollSleepOver(c) ==
    /\ stage[c] = "Sleeping"
    /\ Turn(c, <<c>>)
    /\ DrainMailbox(c)
    /\ stage' = [stage EXCEPT ![c] = "Empty"]
    /\ UNCHANGED mail

PollCaretaker(c) ==
    PollEmpty(c) \/ PollRun(c) \/ PollEnded(c) \/ PollNothing(c) \/ PollSleepOver(c)
-----------------------------------------------------------------------------
\* A child, a timer or a health check wakes a caretaker.
WakeCaretaker(c) ==
    /\ ~Queued(c)
    /\ remote' = Append(remote, c)
    /\ UNCHANGED <<local, mail, stage, wait>>

JoinForwarded == ~In(JoinTask, local) /\ "Join" \notin mail

\* A worker thread of the server asks for the status of all programs.
StatusRequest ==
    /\ EarlyRequests \/ JoinForwarded
    /\ mail' = mail \cup {"GetStatusAll"}
    /\ remote' = IF Queued(Supervisor) THEN remote ELSE Append(remote, Supervisor)
    /\ UNCHANGED <<local, stage, wait>>
-----------------------------------------------------------------------------
Next ==
    \/ PollJoinTask
    \/ PollSupervisor
    \/ \E c \in Programs : PollCaretaker(c) \/ WakeCaretaker(c)
    \/ StatusRequest

Spec == Init /\ [][Next]_vars
-----------------------------------------------------------------------------
(***************************************************************************)
(* Property: when the Daemon future of a caretaker sees a RunResult, the   *)
(* supervisor's Wait has been forwarded and handled, even if the first run *)
(* ends as fast as it can: whatever the result leads to, there is somebody *)
(* to tell.                                                                *)
(***************************************************************************)
JoinBeforeResult ==
    \A c \in Programs :
        stage[c] \in {"Sleeping", "Resolved"} => wait[c] = "subscribed"

(***************************************************************************)
(* Property: the supervisor is not polled before every caretaker has       *)
(* started its first round, so that no Wait and no Terminate comes before. *)
(***************************************************************************)
SupervisorLast == [][PollSupervisor => \A c \in Programs : stage[c] # "New"]_vars

(***************************************************************************)
(* Property (of the expect("send stopped_tx signal") in                    *)
(* broadcast_stopped(), caretaker.rs): a daemon that resolves has a        *)
(* subscriber, whatever reaches the supervisor at start-up.                *)
(***************************************************************************)
BroadcastHeard ==
    \A c \in Programs : stage[c] = "Resolved" => wait[c] = "subscribed"
=============================================================================
