--------------------------- MODULE RetryLoopProofs ---------------------------
(***************************************************************************)
(* Proofs about RetryLoop, for every window, count, delay and length of    *)
(* the run.                                                                *)
(***************************************************************************)
EXTENDS RetryLoop, RetryGuardProofs

-----------------------------------------------------------------------------
(* Type correctness.                                                       *)

LEMMA TypeStep ==
    ASSUME TypeOK, [Next]_vars
    PROVE  TypeOK'
<1> USE RetryAssumption, RetryLoopAssumption
<1>1. CASE Tick
  <2>1. now + 1 \in 0..MaxTime /\ 0..now \subseteq 0..(now + 1)
    BY <1>1 DEF Tick, TypeOK
  <2>2. retries \in Seq(0..(now + 1)) /\ marks \in Seq(0..(now + 1))
    BY <2>1, SeqMonotonic DEF TypeOK
  <2> QED
    BY <1>1, <2>1, <2>2 DEF Tick, TypeOK
<1>2. CASE RunEnds
  <2>1. mark(retries, now) \in Seq(0..now)
    <3>1. 0..now \in SUBSET Int /\ now \in 0..now
      BY DEF TypeOK
    <3> QED
      BY <3>1, MarkSuffix DEF TypeOK
  <2>2. Append(marks, now) \in Seq(0..now)
    BY DEF TypeOK
  <2> QED
    BY <1>2, <2>1, <2>2 DEF RunEnds, TypeOK
<1>3. CASE SleepOver
  BY <1>3 DEF SleepOver, TypeOK
<1>4. CASE UNCHANGED vars
  BY <1>4 DEF vars, TypeOK
<1> QED
  BY <1>1, <1>2, <1>3, <1>4 DEF Next

(***************************************************************************)
(* Theorem: the variables keep their types; the sleep never ends later     *)
(* than one delay after the present instant.                               *)
(***************************************************************************)
THEOREM TypeCorrect == Spec => []TypeOK
<1>1. Init => TypeOK
  BY RetryAssumption, RetryLoopAssumption DEF Init, TypeOK
<1> QED
  BY <1>1, TypeStep, PTL DEF Spec
-----------------------------------------------------------------------------
(***************************************************************************)
(* The inductive invariant.  WindowExact alone is not inductive: the drain *)
(* by count is right only because the marks are sorted, and they are only  *)
(* because the clock does not run backwards.                               *)
(***************************************************************************)
IInv == WindowExact /\ Sorted(marks)

LEMMA IInvStep ==
    ASSUME TypeOK, IInv, [Next]_vars
    PROVE  IInv'
<1> USE RetryAssumption, RetryLoopAssumption
<1>1. CASE RunEnds
  <2> DEFINE full == Append(retries, now)
             k == Cardinality(Older(full, now - ToleranceInterval))
             old == Len(marks) - Len(retries)
  <2>1. 0..now \in SUBSET Int /\ now \in 0..now /\ now \in Int
    BY DEF TypeOK
  <2>2. /\ retries \in Seq(0..now) /\ marks \in Seq(0..now)
        /\ retries' = mark(retries, now) /\ marks' = Append(marks, now)
    BY <1>1 DEF RunEnds, TypeOK
  <2>3. /\ k \in 0..Len(full)
        /\ Len(retries') = Len(full) - k
        /\ \A i \in 1..Len(retries') : retries'[i] = full[k + i]
        /\ Sorted(full) => \A i \in 1..Len(full) :
                             full[i] < now - ToleranceInterval <=> i <= k
    BY <2>1, <2>2, MarkSuffix
  <2>4. /\ Len(full) = Len(retries) + 1 /\ full[Len(full)] = now
        /\ \A i \in 1..Len(retries) : full[i] = retries[i]
        /\ Len(marks') = Len(marks) + 1 /\ marks'[Len(marks')] = now
        /\ \A i \in 1..Len(marks) : marks'[i] = marks[i]
        /\ Len(retries) \in Nat /\ Len(marks) \in Nat
    BY <2>2
  <2>5. /\ \A i \in 1..Len(marks) : marks[i] \in 0..now
        /\ \A i \in 1..Len(retries) : retries[i] \in 0..now
        /\ now \in Nat
    BY <2>1, <2>2, ElementOfSeq DEF TypeOK
  <2>6. /\ old \in Nat /\ Len(marks) = old + Len(retries)
        /\ \A i \in 1..Len(retries) : retries[i] = marks[old + i]
        /\ \A i \in 1..Len(marks) : i <= old <=> marks[i] < LastMark - ToleranceInterval
    BY <2>4 DEF IInv, WindowExact
  <2> HIDE DEF full, k, old
  <2>7. Sorted(marks')
    <3> SUFFICES ASSUME NEW i \in 1..Len(marks'), NEW j \in 1..Len(marks'), i <= j
                 PROVE  marks'[i] <= marks'[j]
      BY DEF Sorted
    <3>1. CASE j \in 1..Len(marks)
      BY <3>1, <2>4 DEF IInv, Sorted
    <3>2. CASE j = Len(marks')
      BY <3>2, <2>4, <2>5
    <3> QED
      BY <3>1, <3>2, <2>4
  <2>8. ASSUME NEW i \in 1..Len(full)
        PROVE  full[i] = marks'[old + i] /\ old + i \in 1..Len(marks')
    <3>1. CASE i \in 1..Len(retries)
      <4>1. old + i \in 1..Len(marks)
        BY <3>1, <2>4, <2>6
      <4> QED
        BY <3>1, <4>1, <2>4, <2>6
    <3>2. CASE i = Len(full)
      BY <3>2, <2>4, <2>6
    <3> QED
      BY <3>1, <3>2, <2>4
  <2>9. Sorted(full)
    <3> SUFFICES ASSUME NEW i \in 1..Len(full), NEW j \in 1..Len(full), i <= j
                 PROVE  full[i] <= full[j]
      BY DEF Sorted
    <3>1. marks'[old + i] <= marks'[old + j]
      BY <2>4, <2>6, <2>7, <2>8 DEF Sorted
    <3> QED
      BY <3>1, <2>8
  <2>10. Len(marks') - Len(retries') = old + k
    BY <2>3, <2>4, <2>6
  <2>11. \A i \in 1..Len(retries') : retries'[i] = marks'[old + k + i]
    BY <2>3, <2>4, <2>6, <2>8
  <2>12. ASSUME NEW i \in 1..Len(marks')
         PROVE  i <= old + k <=> marks'[i] < now - ToleranceInterval
    <3>1. CASE i <= old
      <4>1. i \in 1..Len(marks) /\ Len(marks) \in 1..Len(marks)
        BY <3>1, <2>4, <2>6
      <4>2. marks[i] < LastMark - ToleranceInterval /\ LastMark \in 0..now
        BY <3>1, <4>1, <2>5, <2>6 DEF LastMark
      <4> QED
        BY <3>1, <4>1, <4>2, <2>3, <2>4, <2>5, <2>6
    <3>2. CASE i > old
      <4>1. i - old \in 1..Len(full) /\ marks'[i] = full[i - old]
        BY <3>2, <2>4, <2>6, <2>8
      <4>2. full[i - old] < now - ToleranceInterval <=> i - old <= k
        BY <4>1, <2>3, <2>9
      <4> QED
        BY <4>1, <4>2, <2>3, <2>4, <2>6
    <3> QED
      BY <3>1, <3>2, <2>4, <2>6
  <2>13. LastMark' = now
    BY <2>4 DEF LastMark
  <2>14. WindowExact'
    BY <2>3, <2>4, <2>6, <2>10, <2>11, <2>12, <2>13 DEF WindowExact
  <2> QED
    BY <2>7, <2>14 DEF IInv
<1>2. CASE Tick \/ SleepOver \/ UNCHANGED vars
  BY <1>2 DEF Tick, SleepOver, vars, IInv, WindowExact, Sorted, LastMark
<1> QED
  BY <1>1, <1>2 DEF Next

LEMMA Invariant == Spec => [](TypeOK /\ IInv)
<1>1. Init => IInv
  BY RetryAssumption DEF Init, IInv, WindowExact, Sorted
<1> QED
  BY <1>1, TypeCorrect, IInvStep, PTL DEF Spec

(***************************************************************************)
(* Theorem: the retry guard remembers exactly the ends of runs within its  *)
(* window, whatever the window and however the runs end.                   *)
(***************************************************************************)
THEOREM WindowIsExact == Spec => []WindowExact
  BY Invariant, PTL DEF IInv
-----------------------------------------------------------------------------
(***************************************************************************)
(* The future has resolved exactly if the deque is at its limit.           *)
(***************************************************************************)
LimitInv == marks # <<>> => (fut = "Ready" <=> Len(retries) >= ToleranceCount)

LEMMA LimitStep ==
    ASSUME TypeOK, LimitInv, [Next]_vars
    PROVE  LimitInv'
<1> USE RetryAssumption, RetryLoopAssumption
<1>1. CASE RunEnds
  <2>1. Len(retries') \in Nat
    BY <1>1, TypeStep DEF TypeOK
  <2> QED
    BY <1>1, <2>1 DEF RunEnds, LimitInv, allowed
<1>2. CASE Tick \/ SleepOver \/ UNCHANGED vars
  BY <1>2 DEF Tick, SleepOver, vars, LimitInv
<1> QED
  BY <1>1, <1>2 DEF Next

LEMMA GiveUpFromWindow ==
    ASSUME TypeOK, WindowExact, LimitInv
    PROVE  GiveUpExact
<1> DEFINE old == Len(marks) - Len(retries)
<1>1. Len(marks) \in Nat /\ Len(retries) \in Nat
  BY DEF TypeOK
<1>2. old \in Nat
  BY <1>1 DEF WindowExact
<1>3. marks \in Seq(Int)
  <2>1. marks \in Seq(0..now) /\ 0..now \subseteq Int
    BY DEF TypeOK
  <2> QED
    BY <2>1, SeqMonotonic
<1>4. ASSUME marks # <<>>
      PROVE  RecentMarks = (old + 1)..Len(marks)
  <2>1. LastMark \in Int
    BY <1>1, <1>3, <1>4 DEF LastMark
  <2>2. \A i \in 1..Len(marks) : marks[i] >= LastMark - ToleranceInterval <=> ~(i <= old)
    BY <2>1, <1>3, RetryAssumption, ElementOfSeq DEF WindowExact
  <2>3. DOMAIN marks = 1..Len(marks)
    BY <1>3
  <2> QED
    BY <2>2, <2>3, <1>1, <1>2 DEF RecentMarks
<1>5. Cardinality((old + 1)..Len(marks)) = Len(retries)
  <2>1. \A a, b \in Int : Cardinality(a..b) = IF a > b THEN 0 ELSE b - a + 1
    BY FS_Interval
  <2>2. old + 1 \in Int /\ Len(marks) \in Int /\ Len(marks) = old + Len(retries)
    BY <1>1, <1>2
  <2> HIDE DEF old
  <2>3. Cardinality((old + 1)..Len(marks))
           = IF old + 1 > Len(marks) THEN 0 ELSE Len(marks) - (old + 1) + 1
    BY <2>1, <2>2, Zenon
  <2> QED
    BY <2>2, <2>3, <1>1, <1>2
<1> QED
  BY <1>4, <1>5 DEF GiveUpExact, LimitInv

(***************************************************************************)
(* Theorem: the daemon gives up if and only if the whole history of ends   *)
(* has reached the count within the window: neither early nor late.        *)
(***************************************************************************)
THEOREM GivesUpExactly == Spec => []GiveUpExact
<1>1. Init => LimitInv
  BY DEF Init, LimitInv
<1>2. Spec => []LimitInv
  BY <1>1, TypeCorrect, LimitStep, PTL DEF Spec
<1> QED
  BY <1>2, TypeCorrect, WindowIsExact, GiveUpFromWindow, PTL
-----------------------------------------------------------------------------
(***************************************************************************)
(* Two ends of runs are one delay apart, and n + 1 of them n delays.       *)
(***************************************************************************)
SpacedInv ==
    /\ \A i, j \in 1..Len(marks) :
          i <= j => marks[j] - marks[i] >= (j - i) * RetryInterval
    /\ marks # <<>> /\ fut = "Waiting" => deadline >= LastMark + RetryInterval
    /\ marks # <<>> /\ fut = "Polling" => now >= LastMark + RetryInterval

LEMMA SpacedStep ==
    ASSUME TypeOK, SpacedInv, [Next]_vars
    PROVE  SpacedInv'
<1> USE RetryAssumption, RetryLoopAssumption
<1>1. CASE RunEnds
  <2> DEFINE n == Len(marks)
  <2>1. /\ n \in Nat /\ Len(marks') = n + 1 /\ marks'[n + 1] = now
        /\ \A i \in 1..n : marks'[i] = marks[i] /\ marks[i] \in Int
        /\ now \in Int /\ now' = now
    BY <1>1, ElementOfSeq DEF RunEnds, TypeOK
  <2>2. LastMark' = now
    BY <2>1 DEF LastMark
  <2> HIDE DEF n
  <2>3. ASSUME NEW i \in 1..(n + 1), NEW j \in 1..(n + 1), i <= j
        PROVE  marks'[j] - marks'[i] >= (j - i) * RetryInterval
    <3>1. CASE j \in 1..n
      <4>1. i \in 1..n /\ marks'[i] = marks[i] /\ marks'[j] = marks[j]
        BY <3>1, <2>1, <2>3
      <4>2. marks[j] - marks[i] >= (j - i) * RetryInterval
        BY <3>1, <4>1, <2>3 DEF SpacedInv, n
      <4> QED
        BY <4>1, <4>2
    <3>2. CASE i = n + 1
      BY <3>2, <2>1, <2>3
    <3>3. CASE j = n + 1 /\ i \in 1..n
      <4>1. n \in 1..n /\ i <= n /\ LastMark = marks[n] /\ marks # <<>>
        BY <3>3, <2>1 DEF LastMark, n
      <4>2. marks[n] - marks[i] >= (n - i) * RetryInterval
        BY <3>3, <4>1 DEF SpacedInv, n
      <4>3. now >= marks[n] + RetryInterval
        BY <1>1, <4>1 DEF SpacedInv, RunEnds
      <4>4. (j - i) * RetryInterval = (n - i) * RetryInterval + RetryInterval
        BY <3>3, <2>1
      <4>5. (n - i) * RetryInterval \in Int
        BY <3>3, <2>1
      <4> QED
        BY <3>3, <4>1, <4>2, <4>3, <4>4, <4>5, <2>1
    <3> QED
      BY <3>1, <3>2, <3>3, <2>1, <2>3
  <2>4. fut' # "Polling" /\ (fut' = "Waiting" => deadline' = now + RetryInterval)
    BY <1>1 DEF RunEnds
  <2> QED
    BY <2>1, <2>2, <2>3, <2>4 DEF SpacedInv
<1>2. CASE Tick
  <2>1. LastMark' = LastMark /\ (marks # <<>> => LastMark \in Int)
    BY <1>2, ElementOfSeq DEF Tick, LastMark, TypeOK
  <2> QED
    BY <1>2, <2>1 DEF Tick, SpacedInv, TypeOK
<1>3. CASE SleepOver
  <2>1. LastMark' = LastMark /\ (marks # <<>> => LastMark \in Int)
    BY <1>3, ElementOfSeq DEF SleepOver, LastMark, TypeOK
  <2> QED
    BY <1>3, <2>1 DEF SleepOver, SpacedInv, TypeOK
<1>4. CASE UNCHANGED vars
  BY <1>4 DEF vars, SpacedInv, LastMark
<1> QED
  BY <1>1, <1>2, <1>3, <1>4 DEF Next

LEMMA RoomFromSpacing ==
    ASSUME TypeOK, IInv, LimitInv, SpacedInv, fut = "Ready" => marks # <<>>
    PROVE  GiveUpNeedsRoom
<1> USE RetryAssumption, RetryLoopAssumption
<1> SUFFICES ASSUME fut = "Ready", ToleranceCount >= 2
             PROVE  (ToleranceCount - 1) * RetryInterval <= ToleranceInterval
  BY DEF GiveUpNeedsRoom
<1> DEFINE n == Len(marks)
           r == Len(retries)
<1>1. n \in Nat /\ r \in Nat /\ r <= n /\ r >= ToleranceCount
  BY DEF TypeOK, IInv, WindowExact, LimitInv
<1>2. \A i \in 1..n : marks[i] \in Int
  BY ElementOfSeq DEF TypeOK
<1>3. marks[n - r + 1] >= marks[n] - ToleranceInterval
  <2>1. n - r + 1 \in 1..n /\ n \in 1..n /\ ~(n - r + 1 <= n - r)
    BY <1>1
  <2>2. ~(marks[n - r + 1] < LastMark - ToleranceInterval)
    BY <2>1 DEF IInv, WindowExact
  <2>3. marks[n] \in Int /\ marks[n - r + 1] \in Int /\ LastMark = marks[n]
    BY <2>1, <1>2 DEF LastMark
  <2> QED
    BY <2>2, <2>3
<1>4. marks[n] - marks[n - r + 1] >= (r - 1) * RetryInterval
  <2>1. n - r + 1 \in 1..n /\ n \in 1..n /\ n - r + 1 <= n /\ n - (n - r + 1) = r - 1
    BY <1>1
  <2> QED
    BY <2>1 DEF SpacedInv
<1> HIDE DEF n, r
<1>5. (r - 1) * RetryInterval >= (ToleranceCount - 1) * RetryInterval
  BY <1>1
<1>6. (r - 1) * RetryInterval <= ToleranceInterval
  <2>1. n - r + 1 \in 1..n /\ n \in 1..n /\ (r - 1) * RetryInterval \in Int
    BY <1>1
  <2> QED
    BY <2>1, <1>2, <1>3, <1>4
<1> QED
  BY <1>1, <1>5, <1>6

(***************************************************************************)
(* Theorem: a program of which ToleranceCount runs with the delays between *)
(* them do not fit into a window is never given up, however fast it fails. *)
(***************************************************************************)
THEOREM GivingUpNeedsRoom == Spec => []GiveUpNeedsRoom
<1> DEFINE Started == fut = "Ready" => marks # <<>>
<1>1. Init => LimitInv /\ SpacedInv /\ Started
  BY DEF Init, LimitInv, SpacedInv
<1>2. TypeOK /\ Started /\ [Next]_vars => Started'
  BY DEF Next, RunEnds, Tick, SleepOver, vars, Started, TypeOK
<1>3. Spec => [](LimitInv /\ SpacedInv /\ Started)
  BY <1>1, <1>2, TypeCorrect, LimitStep, SpacedStep, PTL DEF Spec
<1>4. TypeOK /\ IInv /\ LimitInv /\ SpacedInv /\ Started => GiveUpNeedsRoom
  BY RoomFromSpacing
<1> QED
  BY <1>3, <1>4, Invariant, PTL
=============================================================================
