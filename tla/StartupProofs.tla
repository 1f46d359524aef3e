---------------------------- MODULE StartupProofs ----------------------------
(***************************************************************************)
(* Join comes first: for any number of programs, the Wait of Join has been *)
(* handled by a caretaker before its Daemon future sees a RunResult; and   *)
(* the supervisor comes last, after the first poll of every caretaker.     *)
(***************************************************************************)
EXTENDS Startup, FiniteSetTheorems, TLAPS

LEMMA Constants ==
    /\ N \in Nat
    /\ JoinTask \in Tasks /\ Supervisor \in Tasks /\ Programs \subseteq Tasks
    /\ JoinTask # Supervisor /\ JoinTask \notin Programs /\ Supervisor \notin Programs
  BY StartupAssumption DEF JoinTask, Supervisor, Programs, Tasks
-----------------------------------------------------------------------------
(* Types.                                                                  *)

\* What the supervisor wakes is a sequence of programs.
LEMMA InOrderType ==
    ASSUME NEW set \in SUBSET Programs, NEW s \in InOrder(set)
    PROVE  s \in Seq(Programs)
<1>1. IsFiniteSet(set)
  <2>1. IsFiniteSet(1..N)
    BY FS_Interval, StartupAssumption
  <2> QED
    BY <2>1, FS_Subset DEF Programs
<1>2. Cardinality(set) \in Nat
  BY <1>1, FS_CardinalityType
<1>3. s \in [1..Cardinality(set) -> Programs]
  BY DEF InOrder
<1> QED
  BY <1>2, <1>3

\* Nobody is woken when there is nothing to send.
LEMMA InOrderEmpty == \A s \in InOrder({}) : s = <<>>
<1> SUFFICES ASSUME NEW s \in InOrder({}) PROVE s = <<>>
  OBVIOUS
<1>1. Cardinality({}) = 0
  BY FS_EmptySet
<1>2. s \in [1..0 -> {}]
  BY <1>1 DEF InOrder
<1> QED
  BY <1>2

LEMMA TurnType ==
    ASSUME TypeOK, NEW t \in Tasks, NEW woken \in Seq(Tasks), Turn(t, woken)
    PROVE  local' \in Seq(Tasks) /\ remote' \in Seq(Programs \cup {Supervisor})
<1>1. \A s \in Seq(Tasks) : s \o woken \in Seq(Tasks)
  OBVIOUS
<1>2. CASE local # <<>> /\ local' = Tail(local) \o woken /\ UNCHANGED remote
  <2>1. Tail(local) \in Seq(Tasks)
    BY <1>2 DEF TypeOK
  <2> QED
    BY <1>1, <1>2, <2>1 DEF TypeOK
<1>3. CASE remote # <<>> /\ remote' = Tail(remote) /\ local' = local \o woken
  <2> DEFINE S == Programs \cup {Supervisor}
  <2>1. \A s \in Seq(S) : s # <<>> => Tail(s) \in Seq(S)
    OBVIOUS
  <2> QED
    BY <1>1, <1>3, <2>1 DEF TypeOK
<1> QED
  BY <1>2, <1>3 DEF Turn

LEMMA DrainType ==
    ASSUME TypeOK, NEW c \in Programs, DrainMailbox(c)
    PROVE  wait' \in [Programs -> {"none", "sent", "subscribed"}]
  BY DEF TypeOK, DrainMailbox

LEMMA TypeStep ==
    ASSUME TypeOK, [Next]_vars
    PROVE  TypeOK'
<1> USE Constants
<1>1. CASE PollJoinTask
  <2>1. /\ <<>> \in Seq(Tasks) /\ <<Supervisor>> \in Seq(Tasks)
        /\ (IF Queued(Supervisor) THEN <<>> ELSE <<Supervisor>>) \in Seq(Tasks)
    OBVIOUS
  <2>2. local' \in Seq(Tasks) /\ remote' \in Seq(Programs \cup {Supervisor})
    BY <1>1, <2>1, TurnType DEF PollJoinTask
  <2> QED
    BY <1>1, <2>2 DEF TypeOK, PollJoinTask
<1>2. CASE PollSupervisor
  <2>1. PICK woken \in InOrder(IF mail = {} THEN {} ELSE Idle) : Turn(Supervisor, woken)
    BY <1>2 DEF PollSupervisor
  <2>2. (IF mail = {} THEN {} ELSE Idle) \in SUBSET Programs
    BY DEF Idle
  <2>3. woken \in Seq(Programs)
    BY <2>1, <2>2, InOrderType
  <2>4. woken \in Seq(Tasks)
    BY <2>3
  <2>5. local' \in Seq(Tasks) /\ remote' \in Seq(Programs \cup {Supervisor})
    BY <2>1, <2>4, TurnType
  <2> QED
    BY <1>2, <2>5 DEF TypeOK, PollSupervisor
<1>3. ASSUME NEW c \in Programs, PollCaretaker(c)
      PROVE  TypeOK'
  <2>1. <<>> \in Seq(Tasks) /\ <<c>> \in Seq(Tasks)
    OBVIOUS
  <2>2. DrainMailbox(c) /\ UNCHANGED mail
    BY <1>3 DEF PollCaretaker, PollEmpty, PollRun, PollEnded, PollNothing, PollSleepOver
  <2>3. Turn(c, <<>>) \/ Turn(c, <<c>>)
    <3>1. ASSUME NEW over \in BOOLEAN, Turn(c, IF over THEN <<c>> ELSE <<>>)
          PROVE  Turn(c, <<>>) \/ Turn(c, <<c>>)
      BY <3>1
    <3> QED
      BY <1>3, <3>1 DEF PollCaretaker, PollEmpty, PollRun, PollEnded, PollNothing, PollSleepOver
  <2>4. local' \in Seq(Tasks) /\ remote' \in Seq(Programs \cup {Supervisor})
    BY <2>1, <2>3, TurnType
  <2>5. stage' \in [Programs -> Stage]
    BY <1>3 DEF TypeOK, PollCaretaker, PollEmpty, PollRun, PollEnded, PollNothing,
                PollSleepOver, Stage
  <2> QED
    BY <2>2, <2>4, <2>5, DrainType DEF TypeOK
<1>4. ASSUME NEW c \in Programs, WakeCaretaker(c)
      PROVE  TypeOK'
  BY <1>4 DEF TypeOK, WakeCaretaker
<1>5. CASE StatusRequest
  BY <1>5 DEF TypeOK, StatusRequest
<1>6. CASE UNCHANGED vars
  BY <1>6 DEF TypeOK, vars
<1> QED
  BY <1>1, <1>2, <1>3, <1>4, <1>5, <1>6 DEF Next

LEMMA TypeInit == Init => TypeOK
<1> SUFFICES ASSUME Init PROVE TypeOK
  OBVIOUS
<1>1. local \in Seq(Tasks)
  <2>1. N + 2 \in Nat
    BY StartupAssumption
  <2>2. local \in [1..(N + 2) -> Tasks]
    BY DEF Init, Tasks
  <2> QED
    BY <2>1, <2>2
<1>2. remote \in Seq(Programs \cup {Supervisor}) /\ mail \subseteq {"Join", "GetStatusAll"}
  BY DEF Init
<1>3. stage \in [Programs -> Stage] /\ wait \in [Programs -> {"none", "sent", "subscribed"}]
  BY DEF Init, Stage
<1> QED
  BY <1>1, <1>2, <1>3 DEF TypeOK

(***************************************************************************)
(* Theorem: the types of the queues, the mailbox and the stages.           *)
(***************************************************************************)
THEOREM TypeCorrect == Spec => []TypeOK
  BY TypeInit, TypeStep, PTL DEF Spec
-----------------------------------------------------------------------------
(* The order of the queues.                                                *)

Unique(q) == \A i, j \in 1..Len(q) : q[i] = q[j] => i = j

\* Wherever u and v stand in q, u stands in front.
Before(u, v, q) == \A i, j \in 1..Len(q) : q[i] = u /\ q[j] = v => i < j

\* No task is queued twice.
Distinct ==
    /\ Unique(local)
    /\ Unique(remote)
    /\ \A t \in Tasks : ~(In(t, local) /\ In(t, remote))

\* Woken on the arbiter's thread, and not in front of t.
Behind(c, t) == In(c, local) /\ Before(t, c, local)

(***************************************************************************)
(* As long as the Wait is not forwarded, no caretaker is further than t    *)
(* lets it be, where t is the task that has to come first: the one that    *)
(* sends Join, then the supervisor.                                        *)
(***************************************************************************)
BeforeJoin ==
    /\ mail = {}
    /\ \A c \in Programs : stage[c] \in {"New", "Empty", "RunSent"}
    /\ \A c \in Programs : stage[c] = "RunSent" => Behind(c, JoinTask)

JoinSent ==
    /\ mail = {"Join"}
    /\ In(Supervisor, local)
    /\ \A c \in Programs : stage[c] \in {"New", "Empty", "RunSent", "Running", "Ended"}
    /\ \A c \in Programs : stage[c] = "Ended" => Behind(c, Supervisor)

Ordered ==
    /\ Distinct
    /\ ~In(Supervisor, remote)
    /\ In(JoinTask, local) => BeforeJoin
    /\ ~In(JoinTask, local) => JoinSent

Forwarded == \A c \in Programs : wait[c] # "none"

IInv ==
    /\ ~JoinForwarded => Ordered
    /\ JoinForwarded => Forwarded
    /\ JoinBeforeResult

\* The first of a queue is queued, and what is left keeps its order.
LEMMA Taken ==
    ASSUME NEW S, NEW q \in Seq(S), q # <<>>, Unique(q)
    PROVE  /\ Head(q) \in S /\ In(Head(q), q)
           /\ Unique(Tail(q))
           /\ \A u : In(u, Tail(q)) <=> In(u, q) /\ u # Head(q)
           /\ \A u, v : Before(u, v, q) => Before(u, v, Tail(q))
           /\ \A u : Before(u, Head(q), q) => ~In(u, q)
<1> DEFINE r == Tail(q)
<1>1. /\ Len(q) \in Nat \ {0} /\ Len(r) = Len(q) - 1 /\ Head(q) = q[1]
      /\ DOMAIN q = 1..Len(q) /\ DOMAIN r = 1..Len(r)
      /\ \A i \in 1..Len(r) : r[i] = q[i + 1]
      /\ \A i \in 1..Len(q) : q[i] \in S
  OBVIOUS
<1>2. \A i \in 1..Len(r) : i + 1 \in 1..Len(q)
  BY <1>1
<1>3. \A i \in 1..Len(q) : i # 1 => i - 1 \in 1..Len(r) /\ q[i] = r[i - 1]
  BY <1>1
<1> HIDE DEF r
<1>4. Head(q) \in S /\ In(Head(q), q)
  BY <1>1 DEF In
<1>5. Unique(r)
  BY <1>1, <1>2 DEF Unique
<1>6. ASSUME NEW u
      PROVE  In(u, r) <=> In(u, q) /\ u # Head(q)
  BY <1>1, <1>2, <1>3 DEF In, Unique
<1>7. ASSUME NEW u, NEW v, Before(u, v, q)
      PROVE  Before(u, v, r)
  <2> SUFFICES ASSUME NEW i \in 1..Len(r), NEW j \in 1..Len(r), r[i] = u, r[j] = v
               PROVE  i < j
    BY DEF Before
  <2>1. i + 1 < j + 1
    BY <1>1, <1>2, <1>7 DEF Before
  <2> QED
    BY <2>1, <1>1
<1>8. ASSUME NEW u, Before(u, Head(q), q), In(u, q)
      PROVE  FALSE
  BY <1>1, <1>8 DEF Before, In
<1> QED
  BY <1>4, <1>5, <1>6, <1>7, <1>8 DEF r

\* A task that is woken comes last.
LEMMA Woken ==
    ASSUME NEW S, NEW q \in Seq(S), NEW w, ~In(w, q), Unique(q)
    PROVE  /\ Unique(q \o <<w>>)
           /\ \A u : In(u, q \o <<w>>) <=> In(u, q) \/ u = w
           /\ \A u, v : Before(u, v, q) /\ u # w /\ v # w => Before(u, v, q \o <<w>>)
           /\ \A u : u # w => Before(u, w, q \o <<w>>)
<1> DEFINE r == q \o <<w>>
<1>1. /\ Len(q) \in Nat /\ Len(r) = Len(q) + 1 /\ r[Len(r)] = w
      /\ DOMAIN q = 1..Len(q) /\ DOMAIN r = 1..Len(r)
      /\ \A i \in 1..Len(q) : r[i] = q[i]
  OBVIOUS
<1> HIDE DEF r
<1>2. \A i \in 1..Len(r) : i \in 1..Len(q) \/ i = Len(r)
  BY <1>1
<1>3. \A i \in 1..Len(q) : q[i] # w
  BY <1>1 DEF In
<1>4. Unique(r)
  BY <1>1, <1>2, <1>3 DEF Unique
<1>5. ASSUME NEW u
      PROVE  In(u, r) <=> In(u, q) \/ u = w
  BY <1>1, <1>2 DEF In
<1>6. ASSUME NEW u, NEW v, Before(u, v, q), u # w, v # w
      PROVE  Before(u, v, r)
  BY <1>1, <1>2, <1>6 DEF Before
<1>7. ASSUME NEW u, u # w
      PROVE  Before(u, w, r)
  <2> SUFFICES ASSUME NEW i \in 1..Len(r), NEW j \in 1..Len(r), r[i] = u, r[j] = w
               PROVE  i < j
    BY DEF Before
  <2>1. i \in 1..Len(q) /\ j = Len(r)
    BY <1>1, <1>2, <1>3, <1>7
  <2> QED
    BY <2>1, <1>1
<1> QED
  BY <1>4, <1>5, <1>6, <1>7 DEF r

\* Only a queued task has a turn.
LEMMA TurnQueued ==
    ASSUME TypeOK, NEW t \in Tasks, NEW woken, Turn(t, woken)
    PROVE  Queued(t)
<1>1. \A q : q \in Seq(Tasks) \cup Seq(Programs \cup {Supervisor}) /\ q # <<>>
               => 1 \in DOMAIN q /\ Head(q) = q[1]
  OBVIOUS
<1> QED
  BY <1>1 DEF TypeOK, Turn, Queued, In

(***************************************************************************)
(* A turn takes the task out of its queue, in front of the woken ones, and *)
(* does so only if nobody it has to be behind is still queued.             *)
(***************************************************************************)
LEMMA Turned ==
    ASSUME TypeOK, Distinct, NEW t \in Tasks, NEW woken, Turn(t, woken)
    PROVE  /\ \E q \in Seq(Tasks) :
                 /\ local' = q \o woken
                 /\ Unique(q) /\ ~In(t, q)
                 /\ \A u : u # t => (In(u, q) <=> In(u, local))
                 /\ \A u, v : Before(u, v, local) => Before(u, v, q)
           /\ Unique(remote') /\ ~In(t, remote')
           /\ \A u : u # t => (In(u, remote)' <=> In(u, remote))
           /\ \A u : Behind(t, u) => ~In(u, local)
<1>1. CASE local # <<>> /\ t = Head(local) /\ local' = Tail(local) \o woken /\ UNCHANGED remote
  <2>1. local \in Seq(Tasks) /\ Tail(local) \in Seq(Tasks) /\ Unique(local)
    BY <1>1 DEF TypeOK, Distinct
  <2>2. /\ In(t, local) /\ Unique(Tail(local))
        /\ \A u : In(u, Tail(local)) <=> In(u, local) /\ u # t
        /\ \A u, v : Before(u, v, local) => Before(u, v, Tail(local))
        /\ \A u : Before(u, t, local) => ~In(u, local)
    BY <1>1, <2>1, Taken
  <2>3. Unique(remote) /\ ~In(t, remote) /\ remote' = remote
    BY <1>1, <2>2 DEF Distinct
  <2>4. \A u : In(u, remote)' <=> In(u, remote)
    BY <2>3 DEF In
  <2> QED
    BY <1>1, <2>1, <2>2, <2>3, <2>4 DEF Behind
<1>2. CASE remote # <<>> /\ t = Head(remote) /\ remote' = Tail(remote) /\ local' = local \o woken
  <2>1. remote \in Seq(Programs \cup {Supervisor}) /\ Unique(remote)
    BY DEF TypeOK, Distinct
  <2>2. /\ In(t, remote) /\ Unique(Tail(remote))
        /\ \A u : In(u, Tail(remote)) <=> In(u, remote) /\ u # t
    BY <1>2, <2>1, Taken
  <2>3. ~In(t, local) /\ Unique(local) /\ local \in Seq(Tasks)
    BY <2>2 DEF TypeOK, Distinct
  <2>4. \A u : In(u, remote)' <=> In(u, Tail(remote))
    BY <1>2 DEF In
  <2> QED
    BY <1>2, <2>2, <2>3, <2>4 DEF Behind
<1> QED
  BY <1>1, <1>2 DEF Turn

\* A turn that wakes nobody.
LEMMA TurnQuiet ==
    ASSUME TypeOK, Distinct, NEW t \in Tasks, Turn(t, <<>>)
    PROVE  /\ Distinct'
           /\ \A u : u # t => (In(u, local)' <=> In(u, local))
           /\ \A u : u # t => (In(u, remote)' <=> In(u, remote))
           /\ \A u, v : v # t /\ Behind(v, u) => Behind(v, u)'
<1>1. PICK q \in Seq(Tasks) :
         /\ local' = q \o <<>>
         /\ Unique(q) /\ ~In(t, q)
         /\ \A u : u # t => (In(u, q) <=> In(u, local))
         /\ \A u, v : Before(u, v, local) => Before(u, v, q)
  BY Turned
<1>2. local' = q
  BY <1>1
<1>3. /\ Unique(remote') /\ ~In(t, remote')
      /\ \A u : u # t => (In(u, remote)' <=> In(u, remote))
  BY Turned
<1>4. \A u : In(u, local)' <=> In(u, q)
  BY <1>2 DEF In
<1>5. Distinct'
  BY <1>1, <1>2, <1>3, <1>4 DEF Distinct
<1>6. \A u, v : v # t /\ Behind(v, u) => Behind(v, u)'
  BY <1>1, <1>2, <1>4 DEF Behind
<1> QED
  BY <1>1, <1>3, <1>4, <1>5, <1>6

\* A turn that wakes one task, itself or an idle one.
LEMMA TurnWakes ==
    ASSUME TypeOK, Distinct, NEW t \in Tasks, NEW w \in Tasks, w = t \/ ~Queued(w),
           Turn(t, <<w>>)
    PROVE  /\ Distinct'
           /\ In(w, local)'
           /\ t # w => ~In(t, local)'
           /\ \A u : u # t /\ u # w => (In(u, local)' <=> In(u, local))
           /\ \A u : u # t => (In(u, remote)' <=> In(u, remote))
           /\ \A u : u # w => Behind(w, u)'
           /\ \A u, v : u # w /\ v # w /\ v # t /\ Behind(v, u) => Behind(v, u)'
<1>1. PICK q \in Seq(Tasks) :
         /\ local' = q \o <<w>>
         /\ Unique(q) /\ ~In(t, q)
         /\ \A u : u # t => (In(u, q) <=> In(u, local))
         /\ \A u, v : Before(u, v, local) => Before(u, v, q)
  BY Turned
<1>2. /\ Unique(remote') /\ ~In(t, remote')
      /\ \A u : u # t => (In(u, remote)' <=> In(u, remote))
  BY Turned
<1>3. ~In(w, q) /\ ~In(w, remote')
  BY <1>1, <1>2 DEF Queued
<1>4. /\ Unique(local')
      /\ \A u : In(u, local)' <=> In(u, q) \/ u = w
      /\ \A u, v : Before(u, v, q) /\ u # w /\ v # w => Before(u, v, local')
      /\ \A u : u # w => Before(u, w, local')
  BY <1>1, <1>3, Woken DEF In
<1>5. Distinct'
  BY <1>1, <1>2, <1>3, <1>4 DEF Distinct
<1>6. ASSUME NEW u, u # w
      PROVE  Behind(w, u)'
  BY <1>4, <1>6 DEF Behind
<1>7. ASSUME NEW u, NEW v, u # w, v # w, v # t, Behind(v, u)
      PROVE  Behind(v, u)'
  BY <1>1, <1>4, <1>7 DEF Behind
<1> QED
  BY <1>1, <1>2, <1>4, <1>5, <1>6, <1>7
-----------------------------------------------------------------------------
(* The inductive step, one lemma per task.                                 *)

\* The sender of Join is polled before the first caretaker has run anything.
LEMMA JoinTaskStep ==
    ASSUME TypeOK, IInv, PollJoinTask
    PROVE  IInv'
<1> USE Constants
<1>1. In(JoinTask, local)
  <2>1. Queued(JoinTask)
    BY TurnQueued DEF PollJoinTask
  <2>2. ~In(JoinTask, remote)
    BY DEF TypeOK, In
  <2> QED
    BY <2>1, <2>2 DEF Queued
<1>2. Ordered /\ BeforeJoin
  BY <1>1 DEF IInv, JoinForwarded, Ordered
<1>3. Distinct /\ ~In(Supervisor, remote)
  BY <1>2 DEF Ordered
<1>4. /\ Distinct' /\ In(Supervisor, local)' /\ ~In(JoinTask, local)'
      /\ ~In(Supervisor, remote)'
  <2>1. CASE Queued(Supervisor)
    <3>1. Turn(JoinTask, <<>>)
      BY <2>1 DEF PollJoinTask
    <3>2. /\ Distinct' /\ In(Supervisor, local)' /\ ~In(Supervisor, remote)'
      BY <1>3, <2>1, <3>1, TurnQuiet DEF Queued
    <3>3. PICK q : local' = q \o <<>> /\ q \in Seq(Tasks) /\ ~In(JoinTask, q)
      BY <1>3, <3>1, Turned
    <3>4. local' = q
      BY <3>3
    <3> QED
      BY <3>2, <3>3, <3>4 DEF In
  <2>2. CASE ~Queued(Supervisor)
    <3>1. Turn(JoinTask, <<Supervisor>>)
      BY <2>2 DEF PollJoinTask
    <3> QED
      BY <1>3, <2>2, <3>1, TurnWakes
  <2> QED
    BY <2>1, <2>2
<1>5. mail' = {"Join"} /\ stage' = stage /\ wait' = wait
  BY <1>2 DEF PollJoinTask, BeforeJoin
<1>6. JoinSent'
  BY <1>2, <1>4, <1>5 DEF JoinSent, BeforeJoin
<1>7. Ordered' /\ ~JoinForwarded'
  BY <1>3, <1>4, <1>5, <1>6 DEF Ordered, JoinForwarded
<1>8. JoinBeforeResult'
  BY <1>5 DEF IInv, JoinBeforeResult
<1> QED
  BY <1>7, <1>8 DEF IInv

\* Tasks that are not JoinTask leave it where it is.
LEMMA JoinTaskStays ==
    ASSUME TypeOK, NEW t \in Tasks, NEW woken \in Seq(Programs), Turn(t, woken),
           ~In(JoinTask, local)
    PROVE  ~In(JoinTask, local)'
<1> USE Constants
<1>1. \A q \in Seq(Tasks) : ~In(JoinTask, q) => ~In(JoinTask, q \o woken)
  <2> SUFFICES ASSUME NEW q \in Seq(Tasks), ~In(JoinTask, q),
                      NEW i \in DOMAIN (q \o woken), (q \o woken)[i] = JoinTask
               PROVE  FALSE
    BY DEF In
  <2>1. CASE i <= Len(q)
    BY <2>1 DEF In
  <2>2. CASE i > Len(q)
    BY <2>2
  <2> QED
    BY <2>1, <2>2
<1>2. CASE local # <<>> /\ local' = Tail(local) \o woken
  <2>1. Tail(local) \in Seq(Tasks) /\ ~In(JoinTask, Tail(local))
    BY <1>2 DEF TypeOK, In
  <2>2. ~In(JoinTask, Tail(local) \o woken)
    BY <1>1, <2>1
  <2> QED
    BY <1>2, <2>2 DEF In
<1>3. CASE local' = local \o woken
  <2>1. ~In(JoinTask, local \o woken)
    BY <1>1 DEF TypeOK
  <2> QED
    BY <1>3, <2>1 DEF In
<1> QED
  BY <1>2, <1>3 DEF Turn

\* The supervisor forwards Join before any caretaker has seen a result.
LEMMA SupervisorStep ==
    ASSUME TypeOK, IInv, PollSupervisor
    PROVE  IInv'
<1> USE Constants
<1>1. PICK woken \in InOrder(IF mail = {} THEN {} ELSE Idle) : Turn(Supervisor, woken)
  BY DEF PollSupervisor
<1>2. woken \in Seq(Programs)
  <2>1. (IF mail = {} THEN {} ELSE Idle) \in SUBSET Programs
    BY DEF Idle
  <2> QED
    BY <1>1, <2>1, InOrderType
<1>3. mail' = {} /\ stage' = stage
  BY DEF PollSupervisor
<1>4. CASE In(JoinTask, local)
  <2>1. Ordered /\ BeforeJoin /\ Distinct /\ ~In(Supervisor, remote)
    BY <1>4 DEF IInv, JoinForwarded, Ordered
  <2>2. woken = <<>>
    <3>1. woken \in InOrder({})
      BY <1>1, <2>1 DEF BeforeJoin
    <3> QED
      BY <3>1, InOrderEmpty
  <2>3. Turn(Supervisor, <<>>)
    BY <1>1, <2>2
  <2>4. /\ Distinct' /\ In(JoinTask, local)'
        /\ \A c \in Programs : Behind(c, JoinTask) => Behind(c, JoinTask)'
    BY <1>4, <2>1, <2>3, TurnQuiet
  <2>5. ~In(Supervisor, remote)'
    BY <2>1, <2>3, Turned DEF In
  <2>6. BeforeJoin'
    BY <1>3, <2>1, <2>4 DEF BeforeJoin
  <2>7. wait' = wait
    BY <2>1 DEF PollSupervisor, BeforeJoin
  <2>8. ~JoinForwarded' /\ Ordered'
    BY <2>4, <2>5, <2>6 DEF JoinForwarded, Ordered
  <2>9. JoinBeforeResult'
    BY <1>3, <2>7 DEF IInv, JoinBeforeResult
  <2> QED
    BY <2>8, <2>9 DEF IInv
<1>5. CASE ~In(JoinTask, local)
  <2>1. ~In(JoinTask, local)'
    BY <1>1, <1>2, <1>5, JoinTaskStays
  <2>2. JoinForwarded'
    BY <1>3, <2>1 DEF JoinForwarded
  <2>3. CASE "Join" \in mail
    <3>1. JoinSent
      BY <1>5, <2>3 DEF IInv, JoinForwarded, Ordered
    <3>2. Forwarded' /\ JoinBeforeResult'
      BY <1>3, <2>3, <3>1 DEF PollSupervisor, Forwarded, JoinBeforeResult, JoinSent
    <3> QED
      BY <2>2, <3>2 DEF IInv
  <2>4. CASE "Join" \notin mail
    <3>1. Forwarded /\ JoinBeforeResult
      BY <1>5, <2>4 DEF IInv, JoinForwarded
    <3>2. wait' = wait
      BY <2>4 DEF PollSupervisor
    <3>3. Forwarded' /\ JoinBeforeResult'
      BY <1>3, <3>1, <3>2 DEF Forwarded, JoinBeforeResult
    <3> QED
      BY <2>2, <3>3 DEF IInv
  <2> QED
    BY <2>3, <2>4
<1> QED
  BY <1>4, <1>5

\* A caretaker gets no further than the task it is behind allows.
LEMMA CaretakerStep ==
    ASSUME TypeOK, IInv, NEW c \in Programs, PollCaretaker(c)
    PROVE  IInv'
<1> USE Constants
<1>1. mail' = mail /\ DrainMailbox(c)
  BY DEF PollCaretaker, PollEmpty, PollRun, PollEnded, PollNothing, PollSleepOver
<1>2. PICK woken \in {<<>>, <<c>>} : Turn(c, woken)
  <2>1. ASSUME NEW over \in BOOLEAN, Turn(c, IF over THEN <<c>> ELSE <<>>)
        PROVE  Turn(c, <<>>) \/ Turn(c, <<c>>)
    BY <2>1
  <2> QED
    BY <2>1 DEF PollCaretaker, PollEmpty, PollRun, PollEnded, PollNothing, PollSleepOver
<1>3. CASE JoinForwarded
  <2>1. Forwarded /\ JoinBeforeResult
    BY <1>3 DEF IInv
  <2>2. woken \in Seq(Programs)
    <3>1. <<>> \in Seq(Programs) /\ <<c>> \in Seq(Programs)
      OBVIOUS
    <3> QED
      BY <1>2, <3>1
  <2>3. JoinForwarded'
    BY <1>1, <1>2, <1>3, <2>2, JoinTaskStays DEF JoinForwarded
  <2>4. wait'[c] = "subscribed" /\ \A d \in Programs : d # c => wait'[d] = wait[d]
    BY <1>1, <2>1 DEF DrainMailbox, Forwarded, TypeOK
  <2>5. Forwarded'
    BY <2>1, <2>4 DEF Forwarded
  <2>6. \A d \in Programs : d # c => stage'[d] = stage[d]
    BY DEF TypeOK, PollCaretaker, PollEmpty, PollRun, PollEnded, PollNothing, PollSleepOver
  <2>7. JoinBeforeResult'
    BY <2>1, <2>4, <2>6 DEF JoinBeforeResult
  <2> QED
    BY <2>3, <2>5, <2>7 DEF IInv
<1>4. CASE ~JoinForwarded
  <2>1. Ordered /\ Distinct /\ ~In(Supervisor, remote)
    BY <1>4 DEF IInv, Ordered
  <2>2. stage[c] \in {"New", "Empty", "RunSent", "Running", "Ended"}
    BY <2>1 DEF Ordered, BeforeJoin, JoinSent
  <2>3. \A u : Behind(c, u) => ~In(u, local)
    BY <1>2, <2>1, Turned
  <2>4. /\ Distinct'
        /\ In(JoinTask, local)' <=> In(JoinTask, local)
        /\ In(Supervisor, local)' <=> In(Supervisor, local)
        /\ ~In(Supervisor, remote)'
        /\ \A d \in Programs, u \in {JoinTask, Supervisor} :
              d # c /\ Behind(d, u) => Behind(d, u)'
    <3>1. CASE woken = <<>>
      BY <1>2, <2>1, <3>1, TurnQuiet
    <3>2. CASE woken = <<c>>
      BY <1>2, <2>1, <3>2, TurnWakes
    <3> QED
      BY <1>2, <3>1, <3>2
  <2>5. ~JoinForwarded'
    BY <1>1, <1>4, <2>4 DEF JoinForwarded
  <2>6. CASE PollEmpty(c)
    <3>1. stage' = [stage EXCEPT ![c] = "RunSent"] /\ Turn(c, <<c>>)
      BY <2>6 DEF PollEmpty
    <3>2. \A u \in {JoinTask, Supervisor} : Behind(c, u)'
      BY <2>1, <3>1, TurnWakes
    <3>3. In(JoinTask, local) => BeforeJoin'
      BY <1>1, <2>1, <2>4, <3>1, <3>2 DEF Ordered, BeforeJoin, TypeOK
    <3>4. ~In(JoinTask, local) => JoinSent'
      BY <1>1, <2>1, <2>4, <3>1, <3>2 DEF Ordered, JoinSent, TypeOK
    <3>5. JoinBeforeResult'
      BY <2>1, <3>1, <3>3, <3>4 DEF JoinBeforeResult, BeforeJoin, JoinSent
    <3> QED
      BY <2>1, <2>4, <2>5, <3>3, <3>4, <3>5 DEF IInv, Ordered
  <2>7. CASE PollRun(c)
    <3>1. PICK over \in BOOLEAN :
             /\ Turn(c, IF over THEN <<c>> ELSE <<>>)
             /\ stage' = [stage EXCEPT ![c] = IF over THEN "Ended" ELSE "Running"]
      BY <2>7 DEF PollRun
    <3>2. ~In(JoinTask, local)
      BY <2>1, <2>3, <2>7 DEF PollRun, Ordered, BeforeJoin
    <3>3. JoinSent
      BY <2>1, <3>2 DEF Ordered
    <3>4. over => Behind(c, Supervisor)'
      BY <2>1, <3>1, TurnWakes
    <3>5. JoinSent'
      BY <1>1, <2>4, <3>1, <3>3, <3>4 DEF JoinSent, TypeOK
    <3>6. JoinBeforeResult'
      BY <3>5 DEF JoinSent, JoinBeforeResult
    <3> QED
      BY <2>1, <2>4, <2>5, <3>2, <3>5, <3>6 DEF IInv, Ordered
  <2>8. ~PollEnded(c)
    BY <2>1, <2>3 DEF PollEnded, Ordered, BeforeJoin, JoinSent
  <2>9. ~PollNothing(c) /\ ~PollSleepOver(c)
    BY <2>2 DEF PollNothing, PollSleepOver
  <2> QED
    BY <2>6, <2>7, <2>8, <2>9 DEF PollCaretaker
<1> QED
  BY <1>3, <1>4

\* Nor does a task that is woken from outside stand in two queues.
LEMMA WakeDistinct ==
    ASSUME TypeOK, Distinct, NEW c \in Programs, WakeCaretaker(c)
    PROVE  Distinct' /\ \A u : In(u, remote)' <=> In(u, remote) \/ u = c
<1>1. local' = local /\ remote' = remote \o <<c>>
      /\ remote \in Seq(Programs \cup {Supervisor})
  BY DEF WakeCaretaker, TypeOK
<1>2. Unique(remote) /\ ~In(c, remote) /\ ~In(c, local)
  BY DEF WakeCaretaker, Queued, Distinct
<1>3. Unique(remote \o <<c>>) /\ \A u : In(u, remote \o <<c>>) <=> In(u, remote) \/ u = c
  BY <1>1, <1>2, Woken
<1>4. Unique(remote') /\ \A u : In(u, remote)' <=> In(u, remote) \/ u = c
  BY <1>1, <1>3 DEF In
<1> QED
  BY <1>1, <1>2, <1>4 DEF Distinct, In

\* Children, timers and requests do not reorder what is queued.
LEMMA WakeStep ==
    ASSUME TypeOK, IInv, ~EarlyRequests,
           (\E c \in Programs : WakeCaretaker(c)) \/ StatusRequest
    PROVE  IInv'
<1> USE Constants
<1>1. ASSUME NEW c \in Programs, WakeCaretaker(c)
      PROVE  IInv'
  <2>1. UNCHANGED <<local, mail, stage, wait>> /\ ~Queued(c)
    BY <1>1 DEF WakeCaretaker
  <2>3. /\ \A u : In(u, local)' <=> In(u, local)
        /\ \A u, v : Behind(u, v)' <=> Behind(u, v)
    BY <2>1 DEF In, Behind, Before
  <2>4. Ordered => Ordered'
    <3> SUFFICES ASSUME Ordered PROVE Ordered'
      OBVIOUS
    <3>1. Distinct /\ ~In(Supervisor, remote)
      BY DEF Ordered
    <3>3. Distinct' /\ ~In(Supervisor, remote)'
      BY <1>1, <3>1, WakeDistinct
    <3>4. (BeforeJoin => BeforeJoin') /\ (JoinSent => JoinSent')
      BY <2>1, <2>3 DEF BeforeJoin, JoinSent
    <3> QED
      BY <2>3, <3>3, <3>4 DEF Ordered
  <2>5. JoinForwarded' <=> JoinForwarded
    BY <2>1, <2>3 DEF JoinForwarded
  <2>6. (Forwarded => Forwarded') /\ (JoinBeforeResult => JoinBeforeResult')
    BY <2>1 DEF Forwarded, JoinBeforeResult
  <2> QED
    BY <2>4, <2>5, <2>6 DEF IInv
<1>2. CASE StatusRequest
  <2>1. JoinForwarded /\ UNCHANGED <<local, stage, wait>> /\ "Join" \notin mail'
    BY <1>2 DEF StatusRequest, JoinForwarded
  <2>2. JoinForwarded'
    BY <2>1 DEF JoinForwarded, In
  <2>3. Forwarded' /\ JoinBeforeResult'
    BY <2>1 DEF IInv, Forwarded, JoinBeforeResult
  <2> QED
    BY <2>2, <2>3 DEF IInv
<1> QED
  BY <1>1, <1>2

LEMMA IInvStep ==
    ASSUME TypeOK, IInv, ~EarlyRequests, [Next]_vars
    PROVE  IInv'
<1>1. CASE UNCHANGED vars
  <2>1. UNCHANGED <<local, remote, mail, stage, wait>>
    BY <1>1 DEF vars
  <2> QED
    BY <2>1 DEF IInv, JoinForwarded, Forwarded, JoinBeforeResult, Ordered, BeforeJoin,
                JoinSent, Behind, Distinct, In
<1> QED
  BY <1>1, JoinTaskStep, SupervisorStep, CaretakerStep, WakeStep DEF Next

LEMMA IInvInit == Init => IInv
<1> SUFFICES ASSUME Init PROVE IInv
  OBVIOUS
<1> USE Constants
<1>1. /\ local = [t \in Tasks |-> t] /\ Tasks = 1..(N + 2) /\ Len(local) = N + 2
      /\ remote = <<>> /\ Len(remote) = 0
  <2>1. local \in Seq(Tasks)
    BY TypeInit DEF TypeOK
  <2> QED
    BY <2>1 DEF Init, Tasks
<1>2. Unique(local) /\ Unique(remote) /\ \A t : ~In(t, remote)
  BY <1>1 DEF Unique, In
<1>3. In(JoinTask, local)
  BY <1>1 DEF In
<1>4. BeforeJoin
  BY DEF Init, BeforeJoin
<1>5. Ordered /\ ~JoinForwarded
  BY <1>2, <1>3, <1>4 DEF Ordered, Distinct, JoinForwarded
<1>6. JoinBeforeResult
  BY DEF Init, JoinBeforeResult
<1> QED
  BY <1>5, <1>6 DEF IInv

(***************************************************************************)
(* Theorem: unless a request of the server overtakes it, Join is handled   *)
(* by every caretaker before the result of its first run, for any number   *)
(* of programs and however fast they end.                                  *)
(***************************************************************************)
THEOREM JoinComesFirst == ~EarlyRequests => (Spec => []JoinBeforeResult)
<1> SUFFICES ASSUME ~EarlyRequests PROVE Spec => []JoinBeforeResult
  OBVIOUS
<1>1. TypeOK /\ IInv /\ [Next]_vars => IInv'
  BY IInvStep
<1>2. IInv => JoinBeforeResult
  BY DEF IInv
<1> QED
  BY <1>1, <1>2, IInvInit, TypeCorrect, PTL DEF Spec
-----------------------------------------------------------------------------
(* The first polls.                                                        *)

\* A caretaker that is not started stands in front of the supervisor.
FrontInv ==
    \A c \in Programs : stage[c] = "New" =>
        Distinct /\ In(c, local) /\ Behind(Supervisor, c) /\ ~In(Supervisor, remote)

LEMMA FrontInit == Init => FrontInv
<1> SUFFICES ASSUME Init PROVE FrontInv
  OBVIOUS
<1> USE Constants
<1>1. /\ local = [t \in Tasks |-> t] /\ Tasks = 1..(N + 2) /\ Len(local) = N + 2
      /\ remote = <<>> /\ Len(remote) = 0
  <2>1. local \in Seq(Tasks)
    BY TypeInit DEF TypeOK
  <2> QED
    BY <2>1 DEF Init, Tasks
<1>2. Distinct
  BY <1>1 DEF Distinct, Unique, In
<1>3. ~In(Supervisor, remote) /\ In(Supervisor, local)
  BY <1>1 DEF In
<1>4. ASSUME NEW c \in Programs PROVE In(c, local) /\ Before(c, Supervisor, local)
  <2>1. In(c, local)
    BY <1>1 DEF In
  <2>2. c < Supervisor
    BY DEF Programs, Supervisor
  <2> QED
    BY <1>1, <2>1, <2>2 DEF Before
<1> QED
  BY <1>2, <1>3, <1>4 DEF FrontInv, Behind

\* The supervisor has no turn while a caretaker stands in front of it.
LEMMA FrontFirst ==
    ASSUME TypeOK, FrontInv, PollSupervisor, NEW c \in Programs
    PROVE  stage[c] # "New"
<1>1. PICK woken : Turn(Supervisor, woken)
  BY DEF PollSupervisor
<1>2. ASSUME stage[c] = "New" PROVE FALSE
  <2>1. Distinct /\ In(c, local) /\ Behind(Supervisor, c)
    BY <1>2 DEF FrontInv
  <2>2. \A u : Behind(Supervisor, u) => ~In(u, local)
    BY <1>1, <2>1, Turned, Constants
  <2> QED
    BY <2>1, <2>2
<1> QED
  BY <1>2

LEMMA FrontStep ==
    ASSUME TypeOK, FrontInv, [Next]_vars
    PROVE  FrontInv'
<1> USE Constants
<1> SUFFICES ASSUME NEW c \in Programs, (stage[c] = "New")'
             PROVE  (Distinct /\ In(c, local) /\ Behind(Supervisor, c) /\ ~In(Supervisor, remote))'
  BY DEF FrontInv
<1>1. stage[c] = "New"
  BY DEF Next, PollJoinTask, PollSupervisor, PollCaretaker, PollEmpty, PollRun, PollEnded,
         PollNothing, PollSleepOver, WakeCaretaker, StatusRequest, vars, TypeOK
<1>2. Distinct /\ In(c, local) /\ Behind(Supervisor, c) /\ ~In(Supervisor, remote)
  BY <1>1 DEF FrontInv
<1>3. In(Supervisor, local) /\ c # Supervisor /\ c # JoinTask
  BY <1>2 DEF Behind
<1>4. CASE PollJoinTask
  <2>1. Turn(JoinTask, <<>>)
    BY <1>3, <1>4 DEF PollJoinTask, Queued
  <2> QED
    BY <1>2, <1>3, <2>1, TurnQuiet
<1>5. ~PollSupervisor
  BY <1>1, FrontFirst
<1>6. ASSUME NEW d \in Programs, PollCaretaker(d)
      PROVE  (Distinct /\ In(c, local) /\ Behind(Supervisor, c) /\ ~In(Supervisor, remote))'
  <2>1. PICK woken \in {<<>>, <<d>>} : Turn(d, woken)
    <3>1. ASSUME NEW over \in BOOLEAN, Turn(d, IF over THEN <<d>> ELSE <<>>)
          PROVE  Turn(d, <<>>) \/ Turn(d, <<d>>)
      BY <3>1
    <3> QED
      BY <1>6, <3>1 DEF PollCaretaker, PollEmpty, PollRun, PollEnded, PollNothing, PollSleepOver
  <2>2. c # d
    BY <1>1, <1>6 DEF PollCaretaker, PollEmpty, PollRun, PollEnded, PollNothing, PollSleepOver,
                      TypeOK
  <2>3. CASE woken = <<>>
    BY <1>2, <1>3, <2>1, <2>2, <2>3, TurnQuiet
  <2>4. CASE woken = <<d>>
    BY <1>2, <1>3, <2>1, <2>2, <2>4, TurnWakes
  <2> QED
    BY <2>1, <2>3, <2>4
<1>7. ASSUME NEW d \in Programs, WakeCaretaker(d)
      PROVE  (Distinct /\ In(c, local) /\ Behind(Supervisor, c) /\ ~In(Supervisor, remote))'
  <2>1. Distinct' /\ \A u : In(u, remote)' <=> In(u, remote) \/ u = d
    BY <1>2, <1>7, WakeDistinct
  <2> QED
    BY <1>2, <1>7, <2>1 DEF WakeCaretaker, In, Behind, Before
<1>8. CASE StatusRequest \/ UNCHANGED vars
  <2>1. local' = local /\ remote' = remote
    BY <1>3, <1>8 DEF StatusRequest, Queued, vars
  <2> QED
    BY <1>2, <2>1 DEF Distinct, In, Behind, Before
<1> QED
  BY <1>4, <1>5, <1>6, <1>7, <1>8 DEF Next

(***************************************************************************)
(* Theorem: the supervisor is polled only after every caretaker has been,  *)
(* for any number of programs and whatever requests the server makes: the  *)
(* guard Started of module Caretaker.                                      *)
(***************************************************************************)
THEOREM SupervisorComesLast == Spec => SupervisorLast
<1>1. TypeOK /\ FrontInv /\ [Next]_vars => FrontInv'
  BY FrontStep
<1>2. TypeOK /\ FrontInv => [PollSupervisor => \A c \in Programs : stage[c] # "New"]_vars
  BY FrontFirst
<1> QED
  BY <1>1, <1>2, FrontInit, TypeCorrect, PTL DEF Spec, SupervisorLast
=============================================================================
