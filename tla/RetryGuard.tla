----------------------------- MODULE RetryGuard -----------------------------
(***************************************************************************)
(* The sliding window that limits restarts: struct RetryGuard of           *)
(* src/supervisor/retry.rs.  The module has no state of its own: `retries' *)
(* is an argument, so that RetryLoop (absolute instants) and Caretaker     *)
(* (instants relative to the present) use the same operators.              *)
(***************************************************************************)
EXTENDS Integers, Sequences, FiniteSets

CONSTANTS
    ToleranceInterval,  \* tolerance_interval: the program's retry.window
    ToleranceCount      \* tolerance_count: the program's retry.count

ASSUME RetryAssumption ==
    /\ ToleranceInterval \in Nat
    /\ ToleranceCount \in Nat

(***************************************************************************)
(* The deque is drained from the front by the NUMBER of events that are    *)
(* older than `before', wherever they stand: right only on a sorted deque. *)
(***************************************************************************)
Older(retries, before) == {i \in DOMAIN retries : retries[i] < before}

\* Mutant: an event exactly `before' is taken for an old one.
evict_inclusive(retries, before) ==
    SubSeq(retries, Cardinality({i \in DOMAIN retries : retries[i] <= before}) + 1,
           Len(retries))

\* Mutant: nothing is ever forgotten.
evict_nothing(retries, before) == retries

evict(retries, before) ==
    SubSeq(retries, Cardinality(Older(retries, before)) + 1, Len(retries))

(***************************************************************************)
(* mark() pushes the present instant, evicts, and answers whether another  *)
(* retry is allowed: `mark' is the deque it leaves, `allowed' the answer.  *)
(***************************************************************************)
mark(retries, now) == evict(Append(retries, now), now - ToleranceInterval)

\* Mutant: the limit itself is still allowed.
allowed_at_limit(retries) == Len(retries) <= ToleranceCount

allowed(retries) == Len(retries) < ToleranceCount
=============================================================================
