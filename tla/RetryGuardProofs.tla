-------------------------- MODULE RetryGuardProofs --------------------------
(***************************************************************************)
(* Lemmas about the deque of RetryGuard, for the proofs about the modules  *)
(* that use it.                                                            *)
(***************************************************************************)
EXTENDS RetryGuard, FiniteSetTheorems, SequenceTheorems, TLAPS

Sorted(s) == \A i, j \in 1..Len(s) : i <= j => s[i] <= s[j]

(***************************************************************************)
(* On a sorted deque the elements older than `b' are a prefix, and the     *)
(* count that evict() drains is the length of that prefix.                 *)
(***************************************************************************)
LEMMA OlderIsPrefix ==
    ASSUME NEW s \in Seq(Int), NEW b \in Int
    PROVE  /\ Cardinality(Older(s, b)) \in 0..Len(s)
           /\ Sorted(s) => \A i \in 1..Len(s) :
                             s[i] < b <=> i <= Cardinality(Older(s, b))
<1> DEFINE old == Older(s, b)
           k == Cardinality(old)
<1>1. old \subseteq 1..Len(s) /\ \A i \in 1..Len(s) : i \in old <=> s[i] < b
  BY DEF Older
<1>2. \A n \in 0..Len(s) : IsFiniteSet(1..n) /\ Cardinality(1..n) = n
  BY FS_Interval
<1>3. IsFiniteSet(old) /\ k \in 0..Len(s)
  <2>1. IsFiniteSet(1..Len(s)) /\ Cardinality(1..Len(s)) = Len(s)
    BY <1>2
  <2>2. IsFiniteSet(old) /\ k <= Len(s)
    BY <1>1, <2>1, FS_Subset
  <2> QED
    BY <2>2, FS_CardinalityType
<1>4. ASSUME Sorted(s), NEW i \in 1..Len(s)
      PROVE  s[i] < b <=> i <= k
  <2>1. CASE s[i] < b
    <3>1. 1..i \subseteq old
      BY <1>1, <1>4, <2>1 DEF Sorted
    <3>2. Cardinality(1..i) <= k
      BY <3>1, <1>3, FS_Subset
    <3> QED
      BY <3>2, <1>2, <2>1
  <2>2. CASE ~(s[i] < b)
    <3>1. old \subseteq 1..(i - 1)
      BY <1>1, <1>4, <2>2 DEF Sorted
    <3>2. IsFiniteSet(1..(i - 1)) /\ Cardinality(1..(i - 1)) = i - 1
      BY <1>2
    <3>3. k <= i - 1
      BY <3>1, <3>2, FS_Subset
    <3> QED
      BY <3>3, <1>3, <2>2
  <2> QED
    BY <2>1, <2>2
<1> QED
  BY <1>3, <1>4

(***************************************************************************)
(* What mark() leaves: a suffix of the deque with the present instant      *)
(* appended.  On a deque sorted up to `t', exactly what is not older than  *)
(* the window stays.                                                       *)
(***************************************************************************)
LEMMA MarkSuffix ==
    ASSUME NEW S \in SUBSET Int, NEW s \in Seq(S), NEW t \in S
    PROVE  LET full == Append(s, t)
               k == Cardinality(Older(full, t - ToleranceInterval))
           IN  /\ k \in 0..Len(full)
               /\ mark(s, t) \in Seq(S)
               /\ Len(mark(s, t)) = Len(full) - k
               /\ \A i \in 1..Len(mark(s, t)) : mark(s, t)[i] = full[k + i]
               /\ Sorted(full) => \A i \in 1..Len(full) :
                                    full[i] < t - ToleranceInterval <=> i <= k
<1> DEFINE full == Append(s, t)
           b == t - ToleranceInterval
           k == Cardinality(Older(full, b))
<1>1. full \in Seq(Int) /\ full \in Seq(S) /\ b \in Int
  <2>1. full \in Seq(S)
    OBVIOUS
  <2>2. full \in Seq(Int)
    BY <2>1, SeqMonotonic
  <2>3. b \in Int
    BY RetryAssumption
  <2> QED
    BY <2>1, <2>2, <2>3
<1>2. /\ k \in 0..Len(full)
      /\ Sorted(full) => \A i \in 1..Len(full) : full[i] < b <=> i <= k
  BY <1>1, OlderIsPrefix
<1>3. mark(s, t) = SubSeq(full, k + 1, Len(full))
  BY DEF mark, evict
<1> HIDE DEF full, k
<1>5. \A i \in (k + 1)..Len(full) : full[i] \in S
  BY <1>1, <1>2
<1>4. /\ mark(s, t) \in Seq(S)
      /\ Len(mark(s, t)) = Len(full) - k
      /\ \A i \in 1..Len(mark(s, t)) : mark(s, t)[i] = full[k + i]
  BY <1>1, <1>2, <1>3, <1>5, SubSeqProperties
<1> QED
  BY <1>2, <1>4 DEF full, k
=============================================================================
