-------------------------- MODULE SupervisedProgram --------------------------
(***************************************************************************)
(* What a CaretakerActor promises to the rest of the process about its     *)
(* program, without mailboxes, futures, retries and health checks: the     *)
(* status that GetStatus answers, whether there is a child, how far a stop *)
(* has got, and which Waits are answered.  Module Caretaker implements it, *)
(* module Supervisor composes several of it.                               *)
(***************************************************************************)
CONSTANT Waiters    \* who may wait for the end of the program

VARIABLES
    status,     \* as answered to GetStatus
    child,      \* a child was spawned and is not yet reaped
    done,       \* the program is neither run nor waited for any more
    stop,       \* "No", "Asked", "Signalled" to the next or current child, "Consumed"
    waits       \* for each waiter: "idle", "sent" or "done"

vars == <<status, child, done, stop, waits>>

Health == {"Healthy", "Unhealthy", "Unknown"}
Running == {"Starting"} \cup Health

Init ==
    /\ status = "Starting"
    /\ child = FALSE
    /\ done = FALSE
    /\ stop = "No"
    /\ waits = [w \in Waiters |-> "idle"]
-----------------------------------------------------------------------------
\* Somebody waits, maybe as the second half of a Terminate.
Ask(w) ==
    /\ waits[w] = "idle"
    /\ waits' = [waits EXCEPT ![w] = "sent"]
    /\ stop' \in {stop} \cup (IF stop = "No" THEN {"Asked"} ELSE {})
    /\ UNCHANGED <<status, child, done>>

\* A Terminate whose wait nobody listens to.
AskStop ==
    /\ stop = "No"
    /\ stop' = "Asked"
    /\ UNCHANGED <<status, child, done, waits>>

Signal ==
    /\ ~done /\ stop = "Asked"
    /\ stop' = "Signalled"
    /\ UNCHANGED <<status, child, done, waits>>

\* Never after a stop was consumed by a run.
Spawn ==
    /\ ~child /\ ~done /\ stop # "Consumed"
    /\ child' = TRUE
    /\ status' \in {"Starting", "Unknown"}
    /\ UNCHANGED <<done, stop, waits>>

\* An attempt that fails shows as Starting, then as Terminated.
SpawnFails ==
    /\ ~child /\ ~done /\ stop # "Consumed"
    /\ status' \in {"Starting", "Terminated"}
    /\ UNCHANGED <<child, done, stop, waits>>

Report ==
    /\ child /\ status \in Running
    /\ status' \in {"Healthy", "Unhealthy"}
    /\ UNCHANGED <<child, done, stop, waits>>

\* The child is being stopped: on the signal, which is used up, or as unhealthy.
Stop ==
    /\ child /\ status \in Running
    /\ status' = "Terminating"
    /\ stop' = IF stop = "Signalled" THEN "Consumed" ELSE stop
    /\ UNCHANGED <<child, done, waits>>

\* A child that has a stop signal does not just end: it is stopped.
Exit ==
    /\ child
    /\ status = "Terminating" \/ (status \in Running /\ stop \in {"No", "Asked"})
    /\ child' = FALSE
    /\ status' = "Terminated"
    /\ UNCHANGED <<done, stop, waits>>

(***************************************************************************)
(* The end: after a stop was consumed, or because the limit of retries is  *)
(* reached (a signal that came too late is then lost).  Whoever waits is   *)
(* answered now, or later when his message is handled.                     *)
(***************************************************************************)
Finish ==
    /\ ~child /\ ~done /\ status = "Terminated"
    /\ done' = TRUE
    /\ status' = IF stop = "Consumed" THEN "Terminated" ELSE "Failed"
    /\ stop' = IF stop = "Signalled" THEN "Consumed" ELSE stop
    /\ \E W \in SUBSET {w \in Waiters : waits[w] = "sent"} :
           waits' = [w \in Waiters |-> IF w \in W THEN "done" ELSE waits[w]]
    /\ UNCHANGED child

Answer(w) ==
    /\ done /\ waits[w] = "sent"
    /\ waits' = [waits EXCEPT ![w] = "done"]
    /\ UNCHANGED <<status, child, done, stop>>

Next ==
    \/ AskStop \/ Signal \/ Spawn \/ SpawnFails \/ Report \/ Stop \/ Exit \/ Finish
    \/ \E w \in Waiters : Ask(w) \/ Answer(w)

Spec == Init /\ [][Next]_vars
=============================================================================
