------------------------------ MODULE RetryLoop ------------------------------
(***************************************************************************)
(* The timing of RepeatedActFut (src/supervisor/futs.rs) around its        *)
(* RetryGuard: runs of the program end at arbitrary instants, every end is *)
(* marked, and the next run starts when a sleep of retry_interval is over. *)
(* The other half of RepeatedActFut, its interplay with the caretaker's    *)
(* mailbox, channels and child, is in module Caretaker.                    *)
(***************************************************************************)
EXTENDS RetryGuard

CONSTANTS
    RetryInterval,  \* retry_interval: the program's retry.delay
    MaxTime         \* bound: the last instant

ASSUME RetryLoopAssumption == RetryInterval \in Nat /\ MaxTime \in Nat

VARIABLES
    now,      \* Instant::now()
    fut,      \* RepeatedActFut.fut, or "Ready" once the future has resolved to false
    deadline, \* the instant the sleep of FutureSlot::Waiting is over
    retries,  \* RetryGuard.retries
    marks     \* history: the instants of all calls of mark(), in order

vars == <<now, fut, deadline, retries, marks>>

TypeOK ==
    /\ now \in 0..MaxTime
    /\ fut \in {"Polling", "Waiting", "Ready"}
    /\ deadline \in 0..(now + RetryInterval)
    /\ retries \in Seq(0..now)
    /\ marks \in Seq(0..now)

Init ==
    /\ now = 0
    /\ fut = "Polling"
    /\ deadline = 0
    /\ retries = <<>>
    /\ marks = <<>>

\* Time passes while the program runs or the future sleeps.
Tick ==
    /\ now < MaxTime
    /\ now' = now + 1
    /\ UNCHANGED <<fut, deadline, retries, marks>>

\* Mutant: the sleep lasts for the window instead of the delay.
RunEnds_swapped ==
    /\ fut = "Polling"
    /\ retries' = mark(retries, now)
    /\ marks' = Append(marks, now)
    /\ IF allowed(retries')
         THEN fut' = "Waiting" /\ deadline' = now + ToleranceInterval
         ELSE fut' = "Ready" /\ UNCHANGED deadline
    /\ UNCHANGED now

(***************************************************************************)
(* The round future resolves to Some: the program died.  The end is marked *)
(* and the future either registers its sleep or gives up.                  *)
(***************************************************************************)
RunEnds ==
    /\ fut = "Polling"
    /\ retries' = mark(retries, now)
    /\ marks' = Append(marks, now)
    /\ IF allowed(retries')
         THEN fut' = "Waiting" /\ deadline' = now + RetryInterval
         ELSE fut' = "Ready" /\ UNCHANGED deadline
    /\ UNCHANGED now

\* The sleep is over: the slot is emptied and at once refilled from the factory.
SleepOver ==
    /\ fut = "Waiting"
    /\ now >= deadline
    /\ fut' = "Polling"
    /\ UNCHANGED <<now, deadline, retries, marks>>

Next == Tick \/ RunEnds \/ SleepOver

Spec == Init /\ [][Next]_vars
-----------------------------------------------------------------------------
LastMark == marks[Len(marks)]

(***************************************************************************)
(* Property: after every mark() the deque holds exactly the ends of runs   *)
(* that are not older than the window, in order: the `drain(0..count)' of  *)
(* evict() never forgets a recent end and never keeps an old one.          *)
(***************************************************************************)
WindowExact ==
    LET forgotten == Len(marks) - Len(retries)
    IN  /\ forgotten >= 0
        /\ \A i \in 1..Len(retries) : retries[i] = marks[forgotten + i]
        /\ \A i \in 1..Len(marks) :
              (i <= forgotten) <=> (marks[i] < LastMark - ToleranceInterval)

(***************************************************************************)
(* Property: the daemon gives up when, and only when, the whole history    *)
(* holds at least ToleranceCount ends within the window that closes at the *)
(* latest one (futs.rs bails out on mark() = false).                       *)
(***************************************************************************)
RecentMarks == {i \in DOMAIN marks : marks[i] >= LastMark - ToleranceInterval}

GiveUpExact ==
    marks # <<>> =>
        (fut = "Ready" <=> Cardinality(RecentMarks) >= ToleranceCount)

(***************************************************************************)
(* Property: the limit can only be hit if that many runs fit into a window *)
(* at all.  The sleeps between the runs count too, so a program whose      *)
(* retry.delay is longer than retry.window is restarted for ever, however  *)
(* fast it crashes and whatever its retry.count (from 2 on) is.            *)
(***************************************************************************)
GiveUpNeedsRoom ==
    fut = "Ready" =>
        \/ ToleranceCount <= 1
        \/ (ToleranceCount - 1) * RetryInterval <= ToleranceInterval
=============================================================================
