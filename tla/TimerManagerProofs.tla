------------------------- MODULE TimerManagerProofs -------------------------
(***************************************************************************)
(* TLAPS proofs about TimerManager, for every period, every set of         *)
(* terminals and any number of ticks and application timers.               *)
(***************************************************************************)
EXTENDS TimerManager, FiniteSetTheorems, SequenceTheorems, WellFoundedInduction, TLAPS

USE TimerAssumption

\* A concatenation, element by element.
LEMMA ConcatParts ==
  ASSUME NEW S, NEW a \in Seq(S), NEW b \in Seq(S)
  PROVE  /\ a \o b \in Seq(S) /\ Len(a) \in Nat /\ Len(b) \in Nat /\ Len(a \o b) = Len(a) + Len(b)
         /\ \A i \in 1 .. Len(a) + Len(b) : (a \o b)[i] = IF i <= Len(a) THEN a[i] ELSE b[i - Len(a)]
<1>1. Len(a) \in Nat /\ Len(b) \in Nat
  BY LenProperties
<1>2. /\ a \o b \in Seq(S) /\ Len(a \o b) = Len(a) + Len(b)
      /\ \A i \in 1 .. Len(a) + Len(b) : (a \o b)[i] = IF i <= Len(a) THEN a[i] ELSE b[i - Len(a)]
  BY ConcatProperties
<1> QED BY <1>1, <1>2

\* The part of the invariant about timers_: ticks recorded in it lie in the
\* past, and PopOrders ranges over sequences only for finite sets.
TimersInv ==
  /\ IsFiniteSet(timers_)
  /\ \A x \in timers_ : x.added <= tick_
  /\ NoTimerOverdue
  /\ TaskTimerArmed

\* The part about the queues.
QueuesInv ==
  /\ \A t \in Tasks : \A i \in 1 .. Len(msgs_[t]) : msgs_[t][i].sent <= tick_
  /\ SentOnTime
  /\ SentInOrder

\* What makes the properties inductive: a timer that Tick finds expired was
\* due on this very tick or was added since the last one (NoTimerOverdue).
Inv == TypeOK /\ TimersInv /\ QueuesInv

-----------------------------------------------------------------------------
(* Sequences and the record of a timer. *)

\* A timer in timers_ has the fields its type says.
LEMMA TimerFields ==
  ASSUME NEW x \in Timers
  PROVE  /\ x.timeout \in Nat /\ x.value \in Values /\ x.task \in Tasks
         /\ x.chain \in Chains /\ x.added \in Nat
BY DEF Timers

\* An order of popping a finite set is a sequence of its elements.
LEMMA PopOrderIsSeq ==
  ASSUME NEW S, IsFiniteSet(S), NEW o \in PopOrders(S)
  PROVE  /\ o \in Seq(S)
         /\ Len(o) = Cardinality(S) /\ Len(o) \in Nat
         /\ \A i \in 1 .. Len(o) : o[i] \in S
         /\ \A i, j \in 1 .. Len(o) : i < j => o[i].timeout <= o[j].timeout
         /\ \A i, j \in 1 .. Len(o) : o[i] = o[j] => i = j
         /\ \A x \in S : \E i \in 1 .. Len(o) : o[i] = x
<1>1. Cardinality(S) \in Nat
  BY FS_CardinalityType
<1>2. o \in [1 .. Cardinality(S) -> S]
  BY DEF PopOrders
<1>3. o \in Seq(S) /\ Len(o) = Cardinality(S)
  BY <1>1, <1>2
<1>4. \A i, j \in 1 .. Cardinality(S) : o[i] = o[j] => i = j
  BY <1>1 DEF PopOrders
<1>5. ASSUME NEW x \in S, \A i \in 1 .. Cardinality(S) : o[i] # x PROVE FALSE
  <2>1. IsFiniteSet(S \ {x}) /\ Cardinality(S \ {x}) = Cardinality(S) - 1
    BY FS_RemoveElement
  <2>2. IsFiniteSet(1 .. Cardinality(S)) /\ Cardinality(1 .. Cardinality(S)) = Cardinality(S)
    BY <1>1, FS_Interval
  <2>3. o \in [1 .. Cardinality(S) -> S \ {x}]
    BY <1>2, <1>5
  <2>4. Cardinality(S \ {x}) < Cardinality(1 .. Cardinality(S))
    BY <1>1, <2>1, <2>2
  <2>5. \E i, j \in 1 .. Cardinality(S) : i # j /\ o[i] = o[j]
    <3> DEFINE D == 1 .. Cardinality(S)
               R == S \ {x}
    <3>1. /\ IsFiniteSet(D) /\ IsFiniteSet(R) /\ Cardinality(R) < Cardinality(D)
          /\ o \in [D -> R]
      BY <2>1, <2>2, <2>3, <2>4
    <3> HIDE DEF D, R
    <3>2. \E i, j \in D : i # j /\ o[i] = o[j]
      BY <3>1, FS_PigeonHole
    <3> QED BY <3>2 DEF D
  <2> QED BY <1>4, <2>5
<1> QED BY <1>1, <1>2, <1>3, <1>4, <1>5 DEF PopOrders

\* The queue of task t after the messages of one Tick.
LEMMA SentMessages ==
  ASSUME Inv, NEW now \in Nat, Send(now), NEW t \in Tasks
  PROVE  LET q == msgs_[t]
             r == msgs_'[t]
         IN  /\ r \in Seq(Messages)
             /\ Len(q) \in Nat /\ Len(r) \in Nat /\ Len(q) <= Len(r)
             /\ \A i \in 1 .. Len(q) : r[i] = q[i]
             /\ \A i \in Len(q) + 1 .. Len(r) :
                  r[i].timer \in Batch(t, now) /\ r[i].sent = now
             /\ \A i, j \in Len(q) + 1 .. Len(r) :
                  i < j => r[i].timer.timeout <= r[j].timer.timeout
             /\ \A i, j \in Len(q) + 1 .. Len(r) : r[i].timer = r[j].timer => i = j
             /\ \A x \in Batch(t, now) : \E i \in Len(q) + 1 .. Len(r) : r[i].timer = x
<1> DEFINE B == Batch(t, now)
<1>1. PICK order \in [Tasks -> UNION {PopOrders(Batch(u, now)) : u \in Tasks}] :
        /\ \A u \in Tasks : order[u] \in PopOrders(Batch(u, now))
        /\ msgs_' = [u \in Tasks |->
             msgs_[u] \o [i \in 1 .. Len(order[u]) |-> [timer |-> order[u][i], sent |-> now]]]
  BY Zenon DEF Send
<1> DEFINE o == order[t]
           s == [i \in 1 .. Len(o) |-> [timer |-> o[i], sent |-> now]]
<1>2. IsFiniteSet(B) /\ B \subseteq Timers
  <2>1. B \subseteq timers_
    BY DEF Batch, Expired
  <2> QED BY <2>1, FS_Subset DEF Inv, TypeOK, TimersInv
<1>3. o \in PopOrders(B)
  BY <1>1
<1> HIDE DEF o, B
<1>4. /\ Len(o) \in Nat
      /\ \A i \in 1 .. Len(o) : o[i] \in B
      /\ \A i, j \in 1 .. Len(o) : i < j => o[i].timeout <= o[j].timeout
  BY <1>2, <1>3, PopOrderIsSeq
<1>5. /\ \A i, j \in 1 .. Len(o) : o[i] = o[j] => i = j
      /\ \A x \in B : \E i \in 1 .. Len(o) : o[i] = x
  BY <1>2, <1>3, PopOrderIsSeq
<1>6. \A i \in 1 .. Len(o) : [timer |-> o[i], sent |-> now] \in Messages
  BY <1>2, <1>4 DEF Messages
<1>7. s \in Seq(Messages) /\ Len(s) = Len(o)
  BY <1>4, <1>6
<1>8. msgs_[t] \in Seq(Messages)
  BY DEF Inv, TypeOK
<1>9. msgs_'[t] = msgs_[t] \o s
  BY <1>1 DEF o
<1>10. \A i \in 1 .. Len(o) : s[i].timer = o[i] /\ s[i].sent = now
  OBVIOUS
<1> HIDE DEF s
<1> DEFINE q == msgs_[t]
           r == msgs_'[t]
<1>11. q \in Seq(Messages) /\ r = q \o s
  BY <1>8, <1>9
<1> HIDE DEF q, r
<1>12. /\ r \in Seq(Messages)
       /\ Len(q) \in Nat /\ Len(r) = Len(q) + Len(s)
       /\ \A i \in 1 .. Len(r) : r[i] = IF i <= Len(q) THEN q[i] ELSE s[i - Len(q)]
  <2>1. /\ q \o s \in Seq(Messages)
        /\ Len(q) \in Nat /\ Len(s) \in Nat
        /\ Len(q \o s) = Len(q) + Len(s)
        /\ \A i \in 1 .. Len(q) + Len(s) :
             (q \o s)[i] = IF i <= Len(q) THEN q[i] ELSE s[i - Len(q)]
    BY <1>7, <1>11, ConcatParts, ZenonT(60)
  <2> QED BY <1>11, <2>1, Zenon
<1>13. \A i \in Len(q) + 1 .. Len(r) :
         i - Len(q) \in 1 .. Len(o) /\ r[i] = s[i - Len(q)]
  BY <1>4, <1>7, <1>12
<1>14. \A i \in Len(q) + 1 .. Len(r) :
         r[i].timer = o[i - Len(q)] /\ r[i].sent = now
  BY <1>10, <1>13
<1>15. \A i \in Len(q) + 1 .. Len(r) : r[i].timer \in B
  BY <1>4, <1>13, <1>14
<1>16. \A i, j \in Len(q) + 1 .. Len(r) :
         i < j => r[i].timer.timeout <= r[j].timer.timeout
  <2> SUFFICES ASSUME NEW i \in Len(q) + 1 .. Len(r), NEW j \in Len(q) + 1 .. Len(r), i < j
               PROVE  r[i].timer.timeout <= r[j].timer.timeout
    OBVIOUS
  <2>1. i - Len(q) < j - Len(q)
    BY <1>12
  <2> QED BY <2>1, <1>4, <1>13, <1>14
<1>17. /\ Len(r) \in Nat /\ Len(q) <= Len(r)
       /\ \A i \in 1 .. Len(q) : r[i] = q[i]
  BY <1>4, <1>7, <1>12
<1>18. \A i, j \in Len(q) + 1 .. Len(r) : r[i].timer = r[j].timer => i = j
  <2> SUFFICES ASSUME NEW i \in Len(q) + 1 .. Len(r), NEW j \in Len(q) + 1 .. Len(r),
                      r[i].timer = r[j].timer
               PROVE  i = j
    OBVIOUS
  <2> DEFINE k == i - Len(q)
             l == j - Len(q)
  <2>1. k \in 1 .. Len(o) /\ l \in 1 .. Len(o)
    BY <1>13
  <2>2. o[k] = o[l]
    BY <1>14
  <2>3. k = l
    <3> HIDE DEF k, l
    <3> QED BY <1>5, <2>1, <2>2
  <2> QED BY <2>3, <1>12
<1>19. ASSUME NEW x \in B PROVE \E i \in Len(q) + 1 .. Len(r) : r[i].timer = x
  <2>1. PICK k \in 1 .. Len(o) : o[k] = x
    BY <1>5
  <2>2. k + Len(q) \in Len(q) + 1 .. Len(r) /\ (k + Len(q)) - Len(q) = k
    BY <1>4, <1>7, <1>12
  <2> QED BY <1>14, <2>1, <2>2
<1> QED BY <1>12, <1>14, <1>15, <1>16, <1>17, <1>18, <1>19 DEF q, r, B

-----------------------------------------------------------------------------
(* The initial state. *)

\* The timers of main.cpp and InitializeTask satisfy the invariant.
LEMMA InitInv == Init => Inv
<1> SUFFICES ASSUME Init PROVE Inv
  OBVIOUS
<1> DEFINE boot == [timeout |-> 120 * kTimer05Sec, value |-> "one", task |-> Main,
                    chain |-> BootChain, added |-> 0]
           textbox == [timeout |-> kTimer05Sec, value |-> "kTextboxCursorTimer",
                       task |-> Main, chain |-> TextboxChain, added |-> 0]
           task == [timeout |-> kTaskTimerPeriod, value |-> "kTaskTimerValue",
                    task |-> Main, chain |-> TaskChain, added |-> 0]
<1>1. tick_ = 0 /\ timers_ = {boot, textbox, task}
  BY DEF Init
<1>2. Main \in Tasks /\ 0 \in 0 .. MaxAppTimers
  BY DEF Tasks, Main
<1>3. /\ BootChain \in Chains /\ TextboxChain \in Chains /\ TaskChain \in Chains
  BY <1>2 DEF Chains, BootChain, TextboxChain, TaskChain, Values
<1>4. boot \in Timers /\ textbox \in Timers /\ task \in Timers
  BY <1>2, <1>3 DEF Timers, Values
<1>5. /\ boot.added = 0 /\ textbox.added = 0 /\ task.added = 0
      /\ boot.value # "kTaskTimerValue" /\ textbox.value # "kTaskTimerValue"
      /\ task.value = "kTaskTimerValue" /\ task.timeout = kTaskTimerPeriod
  OBVIOUS
<1> HIDE DEF boot, textbox, task
<1>6. IsFiniteSet({boot, textbox, task})
  <2>1. IsFiniteSet({boot})
    BY FS_Singleton
  <2>2. IsFiniteSet({boot} \cup {textbox})
    BY <2>1, FS_AddElement
  <2>3. IsFiniteSet(({boot} \cup {textbox}) \cup {task})
    BY <2>2, FS_AddElement
  <2>4. ({boot} \cup {textbox}) \cup {task} = {boot, textbox, task}
    OBVIOUS
  <2> QED BY <2>3, <2>4
<1>7. TypeOK
  <2>1. \A t \in Tasks : <<>> \in Seq(Messages)
    OBVIOUS
  <2> QED BY <1>1, <1>4, <2>1 DEF Init, TypeOK
<1>8. TaskTimerArmed
  <2>1. task.timeout \in tick_ + 1 .. tick_ + kTaskTimerPeriod
    BY <1>1, <1>5
  <2>2. \A y \in timers_ : y.value = "kTaskTimerValue" <=> y = task
    BY <1>1, <1>5
  <2> QED BY <1>1, <2>1, <2>2 DEF TaskTimerArmed
<1>9. TimersInv
  BY <1>1, <1>5, <1>6, <1>8 DEF TimersInv, NoTimerOverdue
<1>10. QueuesInv
  BY DEF Init, QueuesInv, SentOnTime, SentInOrder
<1> QED BY <1>7, <1>9, <1>10 DEF Inv

-----------------------------------------------------------------------------
(* What the steps of the tasks do to the two parts. *)

\* AddTimer of anything but a task timer.
LEMMA AddTimerKeeps ==
  ASSUME Inv, NEW x \in Timers, x.added = tick_, x.value # "kTaskTimerValue",
         AddTimer(x), tick_' = tick_
  PROVE  TimersInv' /\ timers_' \subseteq Timers
<1>1. timers_' = timers_ \cup {x} /\ timers_ \subseteq Timers
  BY DEF AddTimer, Inv, TypeOK
<1>2. IsFiniteSet(timers_')
  BY <1>1, FS_AddElement DEF Inv, TimersInv
<1>3. \A y \in timers_' : y.added <= tick_'
  BY <1>1, TimerFields DEF Inv, TimersInv
<1>4. NoTimerOverdue'
  BY <1>1 DEF Inv, TimersInv, NoTimerOverdue
<1>5. TaskTimerArmed'
  BY <1>1 DEF Inv, TimersInv, TaskTimerArmed
<1> QED BY <1>1, <1>2, <1>3, <1>4, <1>5 DEF TimersInv

\* ReceiveMessage: the front of a queue is a timer message, and the others
\* move up.
LEMMA ReceiveKeeps ==
  ASSUME Inv, NEW t \in Tasks, msgs_[t] # <<>>,
         msgs_' = [msgs_ EXCEPT ![t] = Tail(msgs_[t])], tick_' = tick_
  PROVE  /\ Head(msgs_[t]).timer \in Timers
         /\ msgs_' \in [Tasks -> Seq(Messages)]
         /\ QueuesInv'
<1>1. msgs_ \in [Tasks -> Seq(Messages)]
  BY DEF Inv, TypeOK
<1> DEFINE q == msgs_[t]
<1>2. /\ Len(q) \in Nat \ {0} /\ Head(q) = q[1] /\ q[1] \in Messages
      /\ Tail(q) \in Seq(Messages) /\ Len(Tail(q)) = Len(q) - 1
      /\ \A i \in 1 .. Len(Tail(q)) : Tail(q)[i] = q[i + 1]
  <2>1. q \in Seq(Messages) /\ q # <<>>
    BY <1>1
  <2> HIDE DEF q
  <2>2. Len(q) \in Nat \ {0}
    BY <2>1, EmptySeq
  <2> QED BY <2>1, <2>2, HeadTailProperties
<1>3. msgs_' \in [Tasks -> Seq(Messages)]
  BY <1>1, <1>2
<1>4. \A u \in Tasks : \A i \in 1 .. Len(msgs_'[u]) :
        \E k \in 1 .. Len(msgs_[u]) :
          k = (IF u = t THEN i + 1 ELSE i) /\ msgs_'[u][i] = msgs_[u][k]
  <2> SUFFICES ASSUME NEW u \in Tasks, NEW i \in 1 .. Len(msgs_'[u])
               PROVE  \E k \in 1 .. Len(msgs_[u]) :
                        k = (IF u = t THEN i + 1 ELSE i) /\ msgs_'[u][i] = msgs_[u][k]
    OBVIOUS
  <2>1. CASE u = t
    BY <1>1, <1>2, <2>1
  <2>2. CASE u # t
    BY <1>1, <2>2
  <2> QED BY <2>1, <2>2
<1>5. \A u \in Tasks : \A i \in 1 .. Len(msgs_'[u]) : msgs_'[u][i].sent <= tick_'
  BY <1>4 DEF Inv, QueuesInv
<1>6. SentOnTime'
  BY <1>4 DEF Inv, QueuesInv, SentOnTime
<1>7. SentInOrder'
  <2> SUFFICES ASSUME NEW u \in Tasks, NEW i \in 1 .. Len(msgs_'[u]),
                      NEW j \in 1 .. Len(msgs_'[u]), i < j
               PROVE  LET m == msgs_'[u][i]
                          n == msgs_'[u][j]
                      IN  \/ m.sent < n.sent
                          \/ m.sent = n.sent /\ m.timer.timeout <= n.timer.timeout
    BY DEF SentInOrder
  <2>1. PICK k \in 1 .. Len(msgs_[u]) :
          k = (IF u = t THEN i + 1 ELSE i) /\ msgs_'[u][i] = msgs_[u][k]
    BY <1>4
  <2>2. PICK l \in 1 .. Len(msgs_[u]) :
          l = (IF u = t THEN j + 1 ELSE j) /\ msgs_'[u][j] = msgs_[u][l]
    BY <1>4
  <2>3. i \in Int /\ j \in Int
    OBVIOUS
  <2>4. k < l
    BY <2>1, <2>2, <2>3
  <2> QED BY <2>1, <2>2, <2>4 DEF Inv, QueuesInv, SentInOrder
<1> QED BY <1>2, <1>3, <1>5, <1>6, <1>7 DEF QueuesInv, Messages

\* Finish: the task's queue is destroyed.
LEMMA ClearKeeps ==
  ASSUME Inv, NEW t \in Tasks, msgs_' = [msgs_ EXCEPT ![t] = <<>>], tick_' = tick_
  PROVE  msgs_' \in [Tasks -> Seq(Messages)] /\ QueuesInv'
<1>1. msgs_ \in [Tasks -> Seq(Messages)]
  BY DEF Inv, TypeOK
<1>2. msgs_' \in [Tasks -> Seq(Messages)]
  BY <1>1
<1>3. \A u \in Tasks : msgs_'[u] = msgs_[u] \/ msgs_'[u] = <<>>
  BY <1>1
<1>4. \A u \in Tasks : \A i \in 1 .. Len(msgs_'[u]) : msgs_'[u] = msgs_[u]
  BY <1>3
<1> QED BY <1>2, <1>4 DEF Inv, QueuesInv, SentOnTime, SentInOrder

\* Steps that leave timers, queues and the clock alone.
LEMMA UntouchedKeep ==
  ASSUME Inv, UNCHANGED tick_
  PROVE  /\ UNCHANGED timers_ => TimersInv'
         /\ UNCHANGED msgs_ => QueuesInv'
<1>1. UNCHANGED timers_ => TimersInv'
  BY DEF Inv, TimersInv, NoTimerOverdue, TaskTimerArmed
<1>2. UNCHANGED msgs_ => QueuesInv'
  BY DEF Inv, QueuesInv, SentOnTime, SentInOrder
<1> QED BY <1>1, <1>2

\* The part of the type that speaks of the timers tasks have received.
HeldOK ==
  /\ held \in [Tasks -> SUBSET Timers]
  /\ \A t \in Tasks : \A x, y \in held[t] : x = y

\* A task receives a timer, or arms the one it has.
LEMMA HeldKeeps ==
  ASSUME Inv, NEW t \in Tasks,
         \/ UNCHANGED held \/ held' = [held EXCEPT ![t] = {}]
         \/ \E x \in Timers : held' = [held EXCEPT ![t] = {x}]
  PROVE  HeldOK'
<1>1. held \in [Tasks -> SUBSET Timers] /\ \A u \in Tasks : \A x, y \in held[u] : x = y
  BY DEF Inv, TypeOK
<1>2. CASE UNCHANGED held
  BY <1>1, <1>2 DEF HeldOK
<1>3. CASE held' = [held EXCEPT ![t] = {}]
  BY <1>1, <1>3 DEF HeldOK
<1>4. CASE \E x \in Timers : held' = [held EXCEPT ![t] = {x}]
  BY <1>1, <1>4 DEF HeldOK
<1> QED BY <1>2, <1>3, <1>4

-----------------------------------------------------------------------------
(* The interrupt. *)

\* Tick takes out what expired and arms the task timer again.
LEMMA TickTimers ==
  ASSUME Inv, Tick
  PROVE  TimersInv' /\ timers_' \subseteq Timers
<1> DEFINE now == tick_ + 1
<1>1. /\ now \in Nat /\ tick_ \in Nat /\ tick_' = now
      /\ timers_' = (timers_ \ Expired(now)) \cup Rearmed(now)
      /\ timers_ \subseteq Timers
  BY DEF Tick, Inv, TypeOK
<1>2. PICK x \in timers_ :
        /\ \A y \in timers_ : y.value = "kTaskTimerValue" <=> y = x
        /\ x.timeout \in tick_ + 1 .. tick_ + kTaskTimerPeriod
  BY DEF Inv, TimersInv, TaskTimerArmed
<1> DEFINE next == [timeout |-> now + kTaskTimerPeriod, value |-> x.value, task |-> Main,
                    chain |-> x.chain, added |-> now]
<1>3. /\ next \in Timers /\ next.added = now /\ next.value = "kTaskTimerValue"
      /\ next.timeout = now + kTaskTimerPeriod
  BY <1>1, <1>2, TimerFields DEF Timers, Tasks
<1>4. Rearmed(now) = IF x.timeout <= now THEN {next} ELSE {}
  BY <1>2 DEF Rearmed, Expired
<1> HIDE DEF next
<1>5. \A y \in timers_' : y = next \/ (y \in timers_ /\ y.timeout > now)
  BY <1>1, <1>4, TimerFields DEF Expired
<1>6. timers_' \subseteq Timers
  BY <1>1, <1>3, <1>5
<1>7. IsFiniteSet(timers_')
  <2>1. IsFiniteSet(timers_ \ Expired(now))
    BY FS_Difference DEF Inv, TimersInv
  <2>2. CASE x.timeout <= now
    BY <1>1, <1>4, <2>1, <2>2, FS_AddElement
  <2>3. CASE ~(x.timeout <= now)
    BY <1>1, <1>4, <2>1, <2>3
  <2> QED BY <2>2, <2>3
<1>8. \A y \in timers_' : y.added <= tick_'
  <2> SUFFICES ASSUME NEW y \in timers_' PROVE y.added <= tick_'
    OBVIOUS
  <2>1. CASE y = next
    BY <1>1, <1>3, <2>1
  <2>2. CASE y \in timers_
    BY <1>1, <2>2, TimerFields DEF Inv, TimersInv
  <2> QED BY <1>5, <2>1, <2>2
<1>9. NoTimerOverdue'
  BY <1>1, <1>3, <1>5 DEF NoTimerOverdue
<1>10. TaskTimerArmed'
  <2>1. CASE x.timeout <= now
    <3>1. next \in timers_'
      BY <1>1, <1>4, <2>1
    <3>2. \A y \in timers_' : y.value = "kTaskTimerValue" <=> y = next
      BY <1>2, <1>3, <1>5, <2>1, TimerFields
    <3>3. next.timeout \in tick_' + 1 .. tick_' + kTaskTimerPeriod
      BY <1>1, <1>3
    <3> QED BY <3>1, <3>2, <3>3 DEF TaskTimerArmed
  <2>2. CASE ~(x.timeout <= now)
    <3>1. timers_' = timers_ \ Expired(now) /\ x \in timers_'
      BY <1>1, <1>4, <2>2 DEF Expired
    <3>2. x.timeout \in tick_' + 1 .. tick_' + kTaskTimerPeriod
      BY <1>1, <1>2, <2>2, TimerFields
    <3> QED BY <1>2, <3>1, <3>2 DEF TaskTimerArmed
  <2> QED BY <2>1, <2>2
<1> QED BY <1>6, <1>7, <1>8, <1>9, <1>10 DEF TimersInv

\* A timer that Tick pops is on time.
LEMMA PoppedOnTime ==
  ASSUME Inv, NEW x \in Expired(tick_ + 1)
  PROVE  tick_ + 1 = IF x.timeout > x.added THEN x.timeout ELSE x.added + 1
<1>1. /\ x \in timers_ /\ x \in Timers /\ x.timeout <= tick_ + 1 /\ tick_ \in Nat
      /\ x.added <= tick_ /\ (x.timeout > tick_ \/ x.added = tick_)
  BY DEF Expired, Inv, TypeOK, TimersInv, NoTimerOverdue
<1> QED BY <1>1, TimerFields

\* Tick appends its messages on time and in order.
LEMMA TickQueues ==
  ASSUME Inv, Tick
  PROVE  msgs_' \in [Tasks -> Seq(Messages)] /\ QueuesInv'
<1> DEFINE now == tick_ + 1
<1>1. now \in Nat /\ tick_ \in Nat /\ tick_' = now /\ tick_ < now /\ Send(now)
  BY DEF Tick, Inv, TypeOK
<1> HIDE DEF now
<1>2. \A t \in Tasks :
        /\ msgs_'[t] \in Seq(Messages)
        /\ Len(msgs_[t]) \in Nat /\ Len(msgs_'[t]) \in Nat
        /\ Len(msgs_[t]) <= Len(msgs_'[t])
        /\ \A i \in 1 .. Len(msgs_[t]) : msgs_'[t][i] = msgs_[t][i]
        /\ \A i \in Len(msgs_[t]) + 1 .. Len(msgs_'[t]) :
             msgs_'[t][i].timer \in Batch(t, now) /\ msgs_'[t][i].sent = now
        /\ \A i, j \in Len(msgs_[t]) + 1 .. Len(msgs_'[t]) :
             i < j => msgs_'[t][i].timer.timeout <= msgs_'[t][j].timer.timeout
  BY <1>1, SentMessages
<1>3. msgs_' \in [Tasks -> Seq(Messages)]
  <2>1. PICK order : msgs_' = [u \in Tasks |-> msgs_[u] \o
          [i \in 1 .. Len(order[u]) |-> [timer |-> order[u][i], sent |-> now]]]
    BY <1>1 DEF Send
  <2>2. DOMAIN msgs_' = Tasks /\ msgs_' = [u \in Tasks |-> msgs_'[u]]
    BY <2>1
  <2> QED BY <1>2, <2>2
<1>4. \A t \in Tasks : \A i \in 1 .. Len(msgs_'[t]) : msgs_'[t][i].sent <= tick_'
  <2> SUFFICES ASSUME NEW t \in Tasks, NEW i \in 1 .. Len(msgs_'[t])
               PROVE  msgs_'[t][i].sent <= tick_'
    OBVIOUS
  <2>1. CASE i \in 1 .. Len(msgs_[t])
    <3>1. msgs_[t][i].sent <= tick_ /\ msgs_[t][i] \in Messages
      BY <2>1, ElementOfSeq DEF Inv, QueuesInv, TypeOK
    <3> QED BY <1>1, <1>2, <2>1, <3>1 DEF Messages
  <2>2. CASE i \in Len(msgs_[t]) + 1 .. Len(msgs_'[t])
    BY <1>1, <1>2, <2>2
  <2> QED BY <1>2, <2>1, <2>2
<1>5. SentOnTime'
  <2> SUFFICES ASSUME NEW t \in Tasks, NEW i \in 1 .. Len(msgs_'[t])
               PROVE  LET m == msgs_'[t][i]
                      IN  IF m.timer.timeout > m.timer.added THEN m.sent = m.timer.timeout
                          ELSE m.sent = m.timer.added + 1
    BY DEF SentOnTime
  <2>1. CASE i \in 1 .. Len(msgs_[t])
    BY <1>2, <2>1 DEF Inv, QueuesInv, SentOnTime
  <2>2. CASE i \in Len(msgs_[t]) + 1 .. Len(msgs_'[t])
    <3>1. msgs_'[t][i].timer \in Expired(tick_ + 1) /\ msgs_'[t][i].sent = tick_ + 1
      BY <1>2, <2>2 DEF Batch, now
    <3> QED BY <3>1, PoppedOnTime
  <2> QED BY <1>2, <2>1, <2>2
<1>6. SentInOrder'
  <2> SUFFICES ASSUME NEW t \in Tasks, NEW i \in 1 .. Len(msgs_'[t]),
                      NEW j \in 1 .. Len(msgs_'[t]), i < j
               PROVE  LET m == msgs_'[t][i]
                          n == msgs_'[t][j]
                      IN  \/ m.sent < n.sent
                          \/ m.sent = n.sent /\ m.timer.timeout <= n.timer.timeout
    BY DEF SentInOrder
  <2>1. CASE j \in 1 .. Len(msgs_[t])
    <3>1. i \in 1 .. Len(msgs_[t])
      BY <1>2, <2>1
    <3> QED BY <1>2, <2>1, <3>1 DEF Inv, QueuesInv, SentInOrder
  <2>2. CASE i \in 1 .. Len(msgs_[t]) /\ j \in Len(msgs_[t]) + 1 .. Len(msgs_'[t])
    <3>1. msgs_[t][i].sent <= tick_ /\ msgs_[t][i] \in Messages
      BY <2>2, ElementOfSeq DEF Inv, QueuesInv, TypeOK
    <3>2. msgs_'[t][i] = msgs_[t][i] /\ msgs_'[t][j].sent = now
      BY <1>2, <2>2
    <3>3. msgs_[t][i].sent \in Nat
      BY <3>1 DEF Messages
    <3>4. msgs_'[t][i].sent < msgs_'[t][j].sent
      BY <1>1, <3>1, <3>2, <3>3
    <3> QED BY <3>4
  <2>3. CASE i \in Len(msgs_[t]) + 1 .. Len(msgs_'[t])
    <3>1. j \in Len(msgs_[t]) + 1 .. Len(msgs_'[t])
      BY <1>2, <2>3
    <3> QED BY <1>2, <2>3, <3>1
  <2> QED BY <1>2, <2>1, <2>2, <2>3
<1> QED BY <1>3, <1>4, <1>5, <1>6 DEF QueuesInv

-----------------------------------------------------------------------------
(* Induction. *)

\* Every step of the system preserves the invariant.
LEMMA NextInv == Inv /\ [Next]_vars => Inv'
<1> SUFFICES ASSUME Inv, [Next]_vars PROVE Inv'
  OBVIOUS
<1>1. CASE Tick
  <2>1. TypeOK'
    BY <1>1, TickTimers, TickQueues DEF Tick, Inv, TypeOK
  <2> QED BY <1>1, <2>1, TickTimers, TickQueues DEF Inv
<1>2. CASE MainReceive \/ MainRearm
  <2>1. Main \in Tasks
    BY DEF Tasks
  <2>2. ASSUME MainReceive PROVE Inv'
    <3>1. /\ msgs_[Main] # <<>> /\ UNCHANGED <<tick_, timers_>>
          /\ msgs_' = [msgs_ EXCEPT ![Main] = Tail(msgs_[Main])]
      BY <2>2 DEF MainReceive, ReceiveMessage
    <3> DEFINE x == Head(msgs_[Main]).timer
    <3>2. x \in Timers /\ msgs_' \in [Tasks -> Seq(Messages)] /\ QueuesInv'
      BY <2>1, <3>1, ReceiveKeeps
    <3>3. held' = held \/ held' = [held EXCEPT ![Main] = {x}]
      BY <2>2 DEF MainReceive
    <3>4. HeldOK'
      BY <2>1, <3>2, <3>3, HeldKeeps
    <3>5. TypeOK'
      BY <2>2, <3>1, <3>2, <3>4 DEF MainReceive, Inv, TypeOK, HeldOK
    <3> QED BY <3>1, <3>2, <3>5, UntouchedKeep DEF Inv
  <2>3. ASSUME MainRearm PROVE Inv'
    <3>1. PICK x \in held[Main] :
            AddTimer(Timer(x.timeout + kTimer05Sec, "kTextboxCursorTimer", Main, x.chain))
      BY <2>3 DEF MainRearm
    <3> DEFINE y == Timer(x.timeout + kTimer05Sec, "kTextboxCursorTimer", Main, x.chain)
    <3>2. x \in Timers
      BY <2>1, <3>1 DEF Inv, TypeOK
    <3>3. y \in Timers /\ y.added = tick_ /\ y.value # "kTaskTimerValue"
      BY <2>1, <3>2, TimerFields DEF Timer, Timers, Values, Inv, TypeOK
    <3>4. TimersInv' /\ timers_' \subseteq Timers
      BY <2>3, <3>1, <3>3, AddTimerKeeps DEF MainRearm
    <3>5. HeldOK'
      BY <2>1, <2>3, HeldKeeps DEF MainRearm
    <3>6. TypeOK'
      BY <2>3, <3>4, <3>5 DEF MainRearm, Inv, TypeOK, HeldOK
    <3> QED BY <2>3, <3>4, <3>6, UntouchedKeep DEF MainRearm, Inv
  <2> QED BY <1>2, <2>2, <2>3
<1>3. ASSUME NEW t \in Terminals, TerminalStart(t) PROVE Inv'
  <2> DEFINE y == Timer(tick_ + kTimer05Sec, "one", t, BlinkChain(t))
  <2>1. t \in Tasks /\ AddTimer(y) /\ UNCHANGED <<tick_, msgs_>>
    BY <1>3 DEF TerminalStart, Tasks
  <2>2. BlinkChain(t) \in Chains
    BY <2>1 DEF BlinkChain, Chains, Values
  <2>3. y \in Timers /\ y.added = tick_ /\ y.value # "kTaskTimerValue"
    BY <2>1, <2>2 DEF Timer, Timers, Values, Inv, TypeOK
  <2>4. TimersInv' /\ timers_' \subseteq Timers
    BY <2>1, <2>3, AddTimerKeeps
  <2>5. TypeOK'
    BY <1>3, <2>4 DEF TerminalStart, Inv, TypeOK
  <2> QED BY <2>1, <2>4, <2>5, UntouchedKeep DEF Inv
<1>4. ASSUME NEW t \in Terminals, TerminalReceive(t) \/ TerminalRearm(t) PROVE Inv'
  <2>1. t \in Tasks
    BY DEF Tasks
  <2>2. ASSUME TerminalReceive(t) PROVE Inv'
    <3>1. /\ msgs_[t] # <<>> /\ UNCHANGED <<tick_, timers_>>
          /\ msgs_' = [msgs_ EXCEPT ![t] = Tail(msgs_[t])]
      BY <2>2 DEF TerminalReceive, ReceiveMessage
    <3> DEFINE x == Head(msgs_[t]).timer
    <3>2. x \in Timers /\ msgs_' \in [Tasks -> Seq(Messages)] /\ QueuesInv'
      BY <2>1, <3>1, ReceiveKeeps
    <3>3. held' = [held EXCEPT ![t] = {x}]
      BY <2>2 DEF TerminalReceive
    <3>4. HeldOK'
      BY <2>1, <3>2, <3>3, HeldKeeps
    <3>5. TypeOK'
      BY <2>2, <3>1, <3>2, <3>4 DEF TerminalReceive, Inv, TypeOK, HeldOK
    <3> QED BY <3>1, <3>2, <3>5, UntouchedKeep DEF Inv
  <2>3. ASSUME TerminalRearm(t) PROVE Inv'
    <3>1. PICK x \in held[t] : AddTimer(Timer(x.timeout + kTimer05Sec, "one", t, x.chain))
      BY <2>3 DEF TerminalRearm
    <3> DEFINE y == Timer(x.timeout + kTimer05Sec, "one", t, x.chain)
    <3>2. x \in Timers
      BY <2>1, <3>1 DEF Inv, TypeOK
    <3>3. y \in Timers /\ y.added = tick_ /\ y.value # "kTaskTimerValue"
      BY <2>1, <3>2, TimerFields DEF Timer, Timers, Values, Inv, TypeOK
    <3>4. TimersInv' /\ timers_' \subseteq Timers
      BY <2>3, <3>1, <3>3, AddTimerKeeps DEF TerminalRearm
    <3>5. HeldOK'
      BY <2>1, <2>3, HeldKeeps DEF TerminalRearm
    <3>6. TypeOK'
      BY <2>3, <3>4, <3>5 DEF TerminalRearm, Inv, TypeOK, HeldOK
    <3> QED BY <2>3, <3>4, <3>6, UntouchedKeep DEF TerminalRearm, Inv
  <2> QED BY <1>4, <2>2, <2>3
<1>5. ASSUME NEW t \in Terminals, StartApp(t) \/ ExitApp(t) PROVE Inv'
  <2>1. TypeOK'
    BY <1>5 DEF StartApp, ExitApp, Inv, TypeOK
  <2> QED BY <1>5, <2>1, UntouchedKeep DEF StartApp, ExitApp, Inv
<1>6. ASSUME NEW t \in Terminals, CreateTimerAdd(t) PROVE Inv'
  <2> DEFINE y == Timer(pending[t], "app", t, AppChain(t, created))
  <2>1. /\ t \in Tasks /\ AddTimer(y) /\ UNCHANGED <<tick_, msgs_>>
        /\ pending[t] \in Nat
    BY <1>6 DEF CreateTimerAdd, Tasks, Inv, TypeOK
  <2>2. AppChain(t, created) \in Chains
    BY <2>1 DEF AppChain, Chains, Values, Inv, TypeOK
  <2>3. y \in Timers /\ y.added = tick_ /\ y.value # "kTaskTimerValue"
    BY <2>1, <2>2 DEF Timer, Timers, Values, Inv, TypeOK
  <2>4. TimersInv' /\ timers_' \subseteq Timers
    BY <2>1, <2>3, AddTimerKeeps
  <2>5. TypeOK'
    BY <1>6, <2>4 DEF CreateTimerAdd, Inv, TypeOK
  <2> QED BY <2>1, <2>4, <2>5, UntouchedKeep DEF Inv
<1>7. ASSUME NEW t \in Terminals, Read(t) \/ ReadEvent(t) PROVE Inv'
  <2>0. Discard(t)
    BY <1>7 DEF Read, ReadEvent
  <2>1. /\ t \in Tasks /\ msgs_[t] # <<>> /\ UNCHANGED <<tick_, timers_>>
        /\ msgs_' = [msgs_ EXCEPT ![t] = Tail(msgs_[t])]
    BY <2>0 DEF Discard, ReceiveMessage, Tasks
  <2>2. msgs_' \in [Tasks -> Seq(Messages)] /\ QueuesInv'
    BY <2>1, ReceiveKeeps
  <2>3. TypeOK'
    BY <2>0, <2>2 DEF Discard, Inv, TypeOK
  <2> QED BY <2>1, <2>2, <2>3, UntouchedKeep DEF Inv
<1>8. ASSUME NEW t \in Terminals, Finish(t) PROVE Inv'
  <2>1. /\ t \in Tasks /\ UNCHANGED <<tick_, timers_>>
        /\ msgs_' = [msgs_ EXCEPT ![t] = <<>>]
    BY <1>8 DEF Finish, Tasks
  <2>2. msgs_' \in [Tasks -> Seq(Messages)] /\ QueuesInv'
    BY <2>1, ClearKeeps
  <2>3. TypeOK'
    BY <1>8, <2>2 DEF Finish, Inv, TypeOK
  <2> QED BY <2>1, <2>2, <2>3, UntouchedKeep DEF Inv
<1>9. ASSUME NEW t \in Terminals, NEW arg \in Arguments, NEW relative \in BOOLEAN,
             CreateTimer(t, arg, relative)
      PROVE  Inv'
  <2>1. tick_ \in Nat /\ arg \in Nat /\ pending \in [Tasks -> Nat \cup {-1}]
    BY DEF Inv, TypeOK
  <2>2. (IF relative THEN arg + tick_ ELSE arg) \in Nat
    BY <2>1
  <2>3. pending' \in [Tasks -> Nat \cup {-1}]
    BY <1>9, <2>1, <2>2 DEF CreateTimer
  <2>4. created' \in 0 .. MaxAppTimers
    BY <1>9 DEF CreateTimer, Inv, TypeOK
  <2>5. TypeOK'
    BY <1>9, <2>3, <2>4 DEF CreateTimer, Inv, TypeOK
  <2> QED BY <1>9, <2>5, UntouchedKeep DEF CreateTimer, Inv
<1>10. CASE UNCHANGED vars
  <2>1. TypeOK'
    BY <1>10 DEF vars, Inv, TypeOK
  <2> QED BY <1>10, <2>1, UntouchedKeep DEF vars, Inv
<1> QED BY <1>1, <1>2, <1>3, <1>4, <1>5, <1>6, <1>7, <1>8, <1>9, <1>10 DEF Next

\* The inductive invariant holds in every reachable state.
LEMMA SpecInv == Spec => []Inv
BY InitInv, NextInv, PTL DEF Spec

-----------------------------------------------------------------------------
(* The chains of the two cursors. *)

Armed(c) == {x \in timers_ : x.chain = c}
Waiting(c, t) == {i \in 1 .. Len(msgs_[t]) : msgs_[t][i].timer.chain = c}

Holding(c, t) == {x \in held[t] : x.chain = c}

NoLink(c, t) == Armed(c) = {} /\ Waiting(c, t) = {} /\ Holding(c, t) = {}
OneLink(c, t) ==
  \/ /\ Waiting(c, t) = {} /\ Holding(c, t) = {}
     /\ \E x \in Armed(c) : Armed(c) = {x}
  \/ /\ Armed(c) = {} /\ Holding(c, t) = {}
     /\ \E i \in Waiting(c, t) : Waiting(c, t) = {i}
  \/ /\ Armed(c) = {} /\ Waiting(c, t) = {}
     /\ \E x \in Holding(c, t) : Holding(c, t) = {x}

\* What a timer's value and task say of its chain.
Tagged(x) ==
  /\ x.value = "kTaskTimerValue" <=> x.chain = TaskChain
  /\ x.value = "kTextboxCursorTimer" <=> x.chain = TextboxChain
  /\ x.value \in {"kTaskTimerValue", "kTextboxCursorTimer"} => x.task = Main
  /\ \A t \in Terminals : x.chain = BlinkChain(t) => x.task = t

TagsInv ==
  /\ \A x \in timers_ : Tagged(x)
  /\ \A t \in Tasks : \A i \in 1 .. Len(msgs_[t]) :
       Tagged(msgs_[t][i].timer) /\ msgs_[t][i].timer.task = t
  /\ \A t \in Tasks : \A x \in held[t] : Tagged(x) /\ x.task = t

BlinkInv(t) ==
  /\ t \notin started => NoLink(BlinkChain(t), t)
  /\ t \in started \cap live =>
       IF t \in dropped THEN NoLink(BlinkChain(t), t) ELSE OneLink(BlinkChain(t), t)

CInv ==
  /\ TagsInv
  /\ Main \in live /\ app \subseteq started
  /\ dropped \subseteq started /\ \A x \in held[Main] : x.chain = TextboxChain
  /\ OneLink(TextboxChain, Main)
  /\ \A t \in Terminals : BlinkInv(t)

\* The chains of different users differ.
LEMMA ChainsDiffer ==
  /\ TaskChain # TextboxChain
  /\ \A t \in Terminals :
       /\ BlinkChain(t) # TaskChain /\ BlinkChain(t) # TextboxChain
       /\ \A u \in Terminals : BlinkChain(u) = BlinkChain(t) => u = t
       /\ \A n : /\ AppChain(t, n) # TaskChain /\ AppChain(t, n) # TextboxChain
                 /\ \A u \in Terminals : AppChain(t, n) # BlinkChain(u)
BY DEF TaskChain, TextboxChain, BlinkChain, AppChain, Main

\* Tick turns a timer of a live task into one message.
LEMMA TickLinks ==
  ASSUME Inv, Tick, NEW t \in Tasks, NEW c, c # TaskChain, TagsInv
  PROVE  /\ NoLink(c, t) => NoLink(c, t)'
         /\ t \in live /\ (\A x \in Armed(c) : x.task = t) /\ OneLink(c, t) => OneLink(c, t)'
<1> DEFINE now == tick_ + 1
           q == msgs_[t]
           r == msgs_'[t]
<1>1. now \in Nat /\ Send(now) /\ timers_' = (timers_ \ Expired(now)) \cup Rearmed(now)
  BY DEF Tick, Inv, TypeOK
<1> HIDE DEF now
<1>2. /\ Len(q) \in Nat /\ Len(r) \in Nat /\ Len(q) <= Len(r)
      /\ \A i \in 1 .. Len(q) : r[i] = q[i]
      /\ \A i \in Len(q) + 1 .. Len(r) : r[i].timer \in Batch(t, now)
      /\ \A i, j \in Len(q) + 1 .. Len(r) : r[i].timer = r[j].timer => i = j
      /\ \A x \in Batch(t, now) : \E i \in Len(q) + 1 .. Len(r) : r[i].timer = x
  BY <1>1, SentMessages
<1>3. \A x \in Rearmed(now) : x.chain = TaskChain
  BY DEF Rearmed, Expired, TagsInv, Tagged
<1>4. Armed(c)' = Armed(c) \ Expired(now)
  BY <1>1, <1>3 DEF Armed
<1>5. Waiting(c, t)' = Waiting(c, t) \cup {i \in Len(q) + 1 .. Len(r) : r[i].timer.chain = c}
  <2>1. Waiting(c, t)' = {i \in 1 .. Len(r) : r[i].timer.chain = c}
    BY DEF Waiting
  <2>2. Waiting(c, t) = {i \in 1 .. Len(q) : r[i].timer.chain = c}
    BY <1>2 DEF Waiting
  <2>3. 1 .. Len(r) = (1 .. Len(q)) \cup (Len(q) + 1 .. Len(r))
    BY <1>2
  <2> QED BY <2>1, <2>2, <2>3
<1>6. \A i \in Len(q) + 1 .. Len(r) :
        r[i].timer.chain = c => r[i].timer \in Armed(c) /\ r[i].timer \in Expired(now)
  BY <1>2 DEF Batch, Expired, Armed
<1> HIDE DEF q, r
<1>0. Holding(c, t)' = Holding(c, t)
  BY DEF Tick, Holding
<1>7. Armed(c) = {} => Armed(c)' = {} /\ Waiting(c, t)' = Waiting(c, t)
  BY <1>4, <1>5, <1>6
<1>8. ASSUME t \in live, \A x \in Armed(c) : x.task = t, NEW x, Armed(c) = {x}, Waiting(c, t) = {},
             Holding(c, t) = {}
      PROVE  OneLink(c, t)'
  <2>1. CASE x \notin Expired(now)
    <3>1. Armed(c)' = {x} /\ Waiting(c, t)' = {}
      BY <1>4, <1>5, <1>6, <1>8, <2>1
    <3> QED BY <1>0, <1>8, <3>1 DEF OneLink
  <2>2. CASE x \in Expired(now)
    <3>1. Armed(c)' = {}
      BY <1>4, <1>8, <2>2
    <3>2. x \in timers_ /\ x.chain = c /\ x.task = t /\ x.value # "kTaskTimerValue"
      BY <1>8 DEF Armed, TagsInv, Tagged
    <3>3. x \in Batch(t, now)
      BY <1>8, <2>2, <3>2 DEF Batch
    <3>4. PICK i \in Len(q) + 1 .. Len(r) : r[i].timer = x
      BY <1>2, <3>3
    <3>5. \A j \in Len(q) + 1 .. Len(r) : r[j].timer.chain = c => j = i
      BY <1>2, <1>6, <1>8, <3>4
    <3>6. Waiting(c, t)' = {i}
      BY <1>5, <1>8, <3>2, <3>4, <3>5
    <3> QED BY <1>0, <1>8, <3>1, <3>6 DEF OneLink
  <2> QED BY <2>1, <2>2
<1> QED BY <1>0, <1>7, <1>8 DEF NoLink, OneLink

\* AddTimer of a timer of another chain, and steps that leave all timers alone.
LEMMA AddOtherLinks ==
  ASSUME NEW c, NEW t \in Tasks, msgs_'[t] = msgs_[t],
         UNCHANGED timers_ \/ \E x : AddTimer(x) /\ x.chain # c,
         held'[t] = held[t] \/ \A x \in held[t] \cup held'[t] : x.chain # c
  PROVE  (NoLink(c, t) => NoLink(c, t)') /\ (OneLink(c, t) => OneLink(c, t)')
<1>1. Armed(c)' = Armed(c)
  BY DEF AddTimer, Armed
<1>2. Waiting(c, t)' = Waiting(c, t)
  BY DEF Waiting
<1>3. Holding(c, t)' = Holding(c, t)
  BY DEF Holding
<1> QED BY <1>1, <1>2, <1>3 DEF NoLink, OneLink

\* A task that arms the timer it has received keeps its chain's links.
LEMMA RearmLinks ==
  ASSUME NEW c, NEW t \in Tasks, msgs_'[t] = msgs_[t], NEW x, NEW y,
         held[t] = {x}, held'[t] = {}, AddTimer(y), y.chain = x.chain
  PROVE  (NoLink(c, t) => NoLink(c, t)') /\ (OneLink(c, t) => OneLink(c, t)')
<1>1. Waiting(c, t)' = Waiting(c, t) /\ Holding(c, t)' = {}
  BY DEF Waiting, Holding
<1>2. CASE x.chain = c
  <2>1. Holding(c, t) = {x} /\ Armed(c)' = Armed(c) \cup {y}
    BY <1>2 DEF Holding, Armed, AddTimer
  <2> QED BY <1>1, <2>1 DEF NoLink, OneLink
<1>3. CASE x.chain # c
  <2>1. Holding(c, t) = {} /\ Armed(c)' = Armed(c)
    BY <1>3 DEF Holding, Armed, AddTimer
  <2> QED BY <1>1, <2>1 DEF NoLink, OneLink
<1> QED BY <1>2, <1>3

\* The message at the front of a queue, and where the others are afterwards.
LEMMA Received ==
  ASSUME Inv, NEW t \in Tasks, msgs_[t] # <<>>,
         msgs_' = [msgs_ EXCEPT ![t] = Tail(msgs_[t])]
  PROVE  /\ Len(msgs_[t]) \in Nat \ {0} /\ Head(msgs_[t]) = msgs_[t][1]
         /\ Len(msgs_'[t]) = Len(msgs_[t]) - 1
         /\ \A i \in 1 .. Len(msgs_'[t]) : msgs_'[t][i] = msgs_[t][i + 1]
         /\ \A u \in Tasks : u # t => msgs_'[u] = msgs_[u]
<1> DEFINE q == msgs_[t]
<1>1. msgs_ \in [Tasks -> Seq(Messages)] /\ q \in Seq(Messages) /\ q # <<>>
  BY DEF Inv, TypeOK
<1>2. msgs_'[t] = Tail(q) /\ \A u \in Tasks : u # t => msgs_'[u] = msgs_[u]
  BY <1>1
<1> HIDE DEF q
<1>3. Len(q) \in Nat \ {0}
  BY <1>1, EmptySeq
<1>4. /\ Head(q) = q[1] /\ Len(Tail(q)) = Len(q) - 1
      /\ \A i \in 1 .. Len(Tail(q)) : Tail(q)[i] = q[i + 1]
  BY <1>1, <1>3, HeadTailProperties
<1> QED BY <1>2, <1>3, <1>4 DEF q

\* A task that takes a message of a chain and keeps its timer, or takes one of
\* another chain, leaves the chain with as many links; one that takes a message
\* of the chain and drops it leaves it with one less.
LEMMA ReceiveLinks ==
  ASSUME Inv, NEW t \in Tasks, msgs_[t] # <<>>, NEW c, UNCHANGED timers_,
         msgs_' = [msgs_ EXCEPT ![t] = Tail(msgs_[t])],
         LET h == Head(msgs_[t]).timer
         IN  held'[t] = held[t] \/ (held[t] = {} /\ held'[t] = {h})
  PROVE  LET h == Head(msgs_[t]).timer
             kept == held'[t] # held[t] \/ h.chain # c
         IN  /\ NoLink(c, t) => h.chain # c /\ NoLink(c, t)'
             /\ OneLink(c, t) /\ kept => OneLink(c, t)'
             /\ OneLink(c, t) /\ ~kept => NoLink(c, t)'
<1> DEFINE q == msgs_[t]
           r == msgs_'[t]
<1>1. /\ Len(q) \in Nat \ {0} /\ Head(q) = q[1] /\ Len(r) = Len(q) - 1
      /\ \A i \in 1 .. Len(r) : r[i] = q[i + 1]
  BY Received
<1>2. Waiting(c, t) = {i \in 1 .. Len(q) : q[i].timer.chain = c}
  BY DEF Waiting
<1>3. Waiting(c, t)' = {i \in 1 .. Len(r) : r[i].timer.chain = c}
  BY DEF Waiting
<1>4. Armed(c)' = Armed(c)
  BY DEF Armed
<1> DEFINE h == q[1].timer
<1>9. held'[t] = held[t] \/ (held[t] = {} /\ held'[t] = {h})
  BY <1>1
<1> HIDE DEF q, r
<1>5. 1 \in 1 .. Len(q) /\ \A i \in 1 .. Len(r) : i + 1 \in 1 .. Len(q)
  BY <1>1
<1>6. \A k \in 1 .. Len(q) : k # 1 => k - 1 \in 1 .. Len(r) /\ (k - 1) + 1 = k
  BY <1>1
<1> HIDE DEF h
<1>7. ASSUME h.chain # c
      PROVE  (NoLink(c, t) => NoLink(c, t)') /\ (OneLink(c, t) => OneLink(c, t)')
  <2>1. Holding(c, t)' = Holding(c, t)
    BY <1>7, <1>9 DEF Holding
  <2>2. \A i \in 1 .. Len(r) : i \in Waiting(c, t)' <=> i + 1 \in Waiting(c, t)
    BY <1>1, <1>2, <1>3, <1>5
  <2>3. Waiting(c, t) = {} => Waiting(c, t)' = {}
    BY <1>3, <2>2
  <2>4. ASSUME NEW k, Waiting(c, t) = {k} PROVE \E i : Waiting(c, t)' = {i}
    <3>1. k \in 1 .. Len(q) /\ k # 1
      BY <1>2, <1>7, <2>4 DEF h
    <3>2. k - 1 \in Waiting(c, t)'
      BY <1>6, <2>2, <2>4, <3>1
    <3>3. \A i \in Waiting(c, t)' : i = k - 1
      <4> SUFFICES ASSUME NEW i \in Waiting(c, t)' PROVE i = k - 1
        OBVIOUS
      <4>1. i \in 1 .. Len(r) /\ i + 1 = k
        BY <1>3, <2>2, <2>4
      <4> QED BY <1>1, <4>1
    <3> QED BY <3>2, <3>3
  <2> QED BY <1>4, <2>1, <2>3, <2>4 DEF NoLink, OneLink
<1>8. ASSUME h.chain = c
      PROVE  /\ ~NoLink(c, t)
             /\ OneLink(c, t) => IF held'[t] = held[t] THEN NoLink(c, t)' ELSE OneLink(c, t)'
  <2>1. 1 \in Waiting(c, t)
    BY <1>2, <1>5, <1>8 DEF h
  <2>2. ASSUME OneLink(c, t)
        PROVE  IF held'[t] = held[t] THEN NoLink(c, t)' ELSE OneLink(c, t)'
    <3>1. Waiting(c, t) = {1} /\ Armed(c) = {} /\ Holding(c, t) = {}
      BY <2>1, <2>2 DEF OneLink
    <3>2. \A i \in 1 .. Len(r) : i \notin Waiting(c, t)'
      <4> SUFFICES ASSUME NEW i \in 1 .. Len(r), i \in Waiting(c, t)' PROVE FALSE
        OBVIOUS
      <4>1. i + 1 \in Waiting(c, t)
        BY <1>1, <1>2, <1>3, <1>5
      <4> QED BY <1>1, <3>1, <4>1
    <3>3. Waiting(c, t)' = {} /\ Armed(c)' = {}
      BY <1>3, <1>4, <3>1, <3>2
    <3>4. CASE held'[t] = held[t]
      <4>1. Holding(c, t)' = {}
        BY <3>1, <3>4 DEF Holding
      <4> QED BY <3>3, <3>4, <4>1 DEF NoLink
    <3>5. CASE held'[t] # held[t]
      <4>1. Holding(c, t)' = {h}
        BY <1>8, <1>9, <3>5 DEF Holding
      <4> QED BY <3>3, <3>5, <4>1 DEF OneLink
    <3> QED BY <3>4, <3>5
  <2> QED BY <2>1, <2>2 DEF NoLink
<1> QED BY <1>1, <1>7, <1>8 DEF h, q

\* Timers and messages keep their tags when each is an old one, a timer that
\* has become a message of its task, or a tagged new timer.
LEMMA TagsStep ==
  ASSUME TagsInv,
         \A x \in timers_' : x \in timers_ \/ Tagged(x),
         \A t \in Tasks : \A i \in 1 .. Len(msgs_'[t]) :
           \/ \E k \in 1 .. Len(msgs_[t]) : msgs_'[t][i] = msgs_[t][k]
           \/ msgs_'[t][i].timer \in timers_ /\ msgs_'[t][i].timer.task = t,
         \A t \in Tasks : \A x \in held'[t] :
           \/ x \in held[t]
           \/ \E k \in 1 .. Len(msgs_[t]) : x = msgs_[t][k].timer
  PROVE  TagsInv'
<1>1. \A x \in timers_' : Tagged(x)
  BY DEF TagsInv
<1>2. ASSUME NEW t \in Tasks, NEW i \in 1 .. Len(msgs_'[t])
      PROVE  Tagged(msgs_'[t][i].timer) /\ msgs_'[t][i].timer.task = t
  BY DEF TagsInv
<1>3. ASSUME NEW t \in Tasks, NEW x \in held'[t] PROVE Tagged(x) /\ x.task = t
  BY DEF TagsInv
<1> QED BY <1>1, <1>2, <1>3 DEF TagsInv, Tagged

\* main.cpp has armed the text box's timer, and no terminal has started.
LEMMA InitCInv == Init => CInv
<1> SUFFICES ASSUME Init PROVE CInv
  OBVIOUS
<1> DEFINE boot == [timeout |-> 120 * kTimer05Sec, value |-> "one", task |-> Main,
                    chain |-> BootChain, added |-> 0]
           textbox == [timeout |-> kTimer05Sec, value |-> "kTextboxCursorTimer",
                       task |-> Main, chain |-> TextboxChain, added |-> 0]
           task == [timeout |-> kTaskTimerPeriod, value |-> "kTaskTimerValue",
                    task |-> Main, chain |-> TaskChain, added |-> 0]
<1>1. timers_ = {boot, textbox, task} /\ \A t \in Tasks : msgs_[t] = <<>> /\ held[t] = {}
  BY DEF Init
<1>2. /\ boot.value = "one" /\ boot.chain = BootChain
      /\ textbox.value = "kTextboxCursorTimer" /\ textbox.chain = TextboxChain
      /\ task.value = "kTaskTimerValue" /\ task.chain = TaskChain
      /\ textbox.task = Main /\ task.task = Main
  OBVIOUS
<1> HIDE DEF boot, textbox, task
<1>3. /\ BootChain # TextboxChain /\ BootChain # TaskChain
      /\ \A t \in Terminals : BlinkChain(t) # BootChain
  BY DEF BootChain, TextboxChain, TaskChain, BlinkChain, Main
<1>4. \A x \in timers_ : Tagged(x)
  BY <1>1, <1>2, <1>3, ChainsDiffer DEF Tagged
<1>5. \A t \in Tasks : \A c : Waiting(c, t) = {} /\ Holding(c, t) = {}
  BY <1>1 DEF Waiting, Holding
<1>6. Armed(TextboxChain) = {textbox} /\ \A t \in Terminals : Armed(BlinkChain(t)) = {}
  BY <1>1, <1>2, <1>3, ChainsDiffer DEF Armed
<1>7. TagsInv
  BY <1>1, <1>4 DEF TagsInv
<1>8. Main \in Tasks /\ Terminals \subseteq Tasks
  BY DEF Tasks
<1>9. OneLink(TextboxChain, Main) /\ \A t \in Terminals : NoLink(BlinkChain(t), t)
  BY <1>5, <1>6, <1>8 DEF OneLink, NoLink
<1> QED BY <1>1, <1>7, <1>8, <1>9 DEF CInv, BlinkInv, Init

\* A timeout keeps both cursors' chains: the timer becomes a message.
LEMMA TickCursor == ASSUME Inv, CInv, Tick PROVE CInv'
<1> DEFINE now == tick_ + 1
<1>1. /\ now \in Nat /\ Send(now) /\ timers_' = (timers_ \ Expired(now)) \cup Rearmed(now)
      /\ UNCHANGED <<live, held, started, app, dropped>>
  BY DEF Tick, Inv, TypeOK
<1> HIDE DEF now
<1>2. TagsInv'
  <2>1. \A x \in Rearmed(now) : Tagged(x)
    <3> SUFFICES ASSUME NEW x \in Rearmed(now) PROVE Tagged(x)
      OBVIOUS
    <3>1. PICK y \in timers_ : y.value = "kTaskTimerValue" /\ Tagged(y) /\
            x = [timeout |-> now + kTaskTimerPeriod, value |-> y.value, task |-> Main,
                 chain |-> y.chain, added |-> now]
      BY DEF Rearmed, Expired, CInv, TagsInv
    <3>2. x.value = "kTaskTimerValue" /\ x.chain = TaskChain /\ x.task = Main
      BY <3>1 DEF Tagged
    <3> QED BY <3>2, ChainsDiffer DEF Tagged
  <2>2. \A x \in timers_' : x \in timers_ \/ Tagged(x)
    BY <1>1, <2>1
  <2>3. ASSUME NEW t \in Tasks, NEW i \in 1 .. Len(msgs_'[t])
        PROVE  \/ \E k \in 1 .. Len(msgs_[t]) : msgs_'[t][i] = msgs_[t][k]
               \/ msgs_'[t][i].timer \in timers_ /\ msgs_'[t][i].timer.task = t
    <3>1. /\ Len(msgs_[t]) \in Nat /\ Len(msgs_'[t]) \in Nat
          /\ \A k \in 1 .. Len(msgs_[t]) : msgs_'[t][k] = msgs_[t][k]
          /\ \A k \in Len(msgs_[t]) + 1 .. Len(msgs_'[t]) : msgs_'[t][k].timer \in Batch(t, now)
      BY <1>1, SentMessages
    <3>2. i \in 1 .. Len(msgs_[t]) \/ i \in Len(msgs_[t]) + 1 .. Len(msgs_'[t])
      BY <3>1
    <3> QED BY <3>1, <3>2 DEF Batch, Expired
  <2> QED BY <1>1, <2>2, <2>3, TagsStep DEF CInv
<1>3. OneLink(TextboxChain, Main)'
  <2>1. \A x \in Armed(TextboxChain) : x.task = Main
    BY DEF Armed, CInv, TagsInv, Tagged
  <2> QED BY <2>1, TickLinks, ChainsDiffer DEF CInv, Tasks
<1>4. ASSUME NEW t \in Terminals PROVE BlinkInv(t)'
  <2>1. \A x \in Armed(BlinkChain(t)) : x.task = t
    BY DEF Armed, CInv, TagsInv, Tagged
  <2>2. t \in Tasks /\ BlinkChain(t) # TaskChain /\ TagsInv /\ BlinkInv(t)
    BY ChainsDiffer DEF Tasks, CInv
  <2>3. /\ NoLink(BlinkChain(t), t) => NoLink(BlinkChain(t), t)'
        /\ t \in live /\ OneLink(BlinkChain(t), t) => OneLink(BlinkChain(t), t)'
    BY <2>1, <2>2, TickLinks
  <2> QED BY <1>1, <2>2, <2>3 DEF BlinkInv
<1> QED BY <1>1, <1>2, <1>3, <1>4 DEF CInv

\* A step in which task t takes a message: the tags of its queue move up.
LEMMA ReceiveTags ==
  ASSUME Inv, CInv, NEW t \in Tasks, msgs_[t] # <<>>, UNCHANGED timers_,
         msgs_' = [msgs_ EXCEPT ![t] = Tail(msgs_[t])],
         UNCHANGED held \/ held' = [held EXCEPT ![t] = {Head(msgs_[t]).timer}]
  PROVE  /\ TagsInv'
         /\ Tagged(Head(msgs_[t]).timer) /\ Head(msgs_[t]).timer.task = t
<1>1. /\ Len(msgs_[t]) \in Nat \ {0} /\ Head(msgs_[t]) = msgs_[t][1]
      /\ Len(msgs_'[t]) = Len(msgs_[t]) - 1
      /\ \A i \in 1 .. Len(msgs_'[t]) : msgs_'[t][i] = msgs_[t][i + 1]
      /\ \A u \in Tasks : u # t => msgs_'[u] = msgs_[u]
  BY Received
<1>2. ASSUME NEW u \in Tasks, NEW i \in 1 .. Len(msgs_'[u])
      PROVE  \E k \in 1 .. Len(msgs_[u]) : msgs_'[u][i] = msgs_[u][k]
  <2>1. CASE u = t
    <3>1. i + 1 \in 1 .. Len(msgs_[t]) /\ msgs_'[t][i] = msgs_[t][i + 1]
      BY <1>1, <2>1
    <3> QED BY <2>1, <3>1
  <2>2. CASE u # t
    BY <1>1, <2>2
  <2> QED BY <2>1, <2>2
<1>5. 1 \in 1 .. Len(msgs_[t])
  BY <1>1
<1>3. ASSUME NEW u \in Tasks, NEW x \in held'[u]
      PROVE  x \in held[u] \/ \E k \in 1 .. Len(msgs_[u]) : x = msgs_[u][k].timer
  <2>1. held \in [Tasks -> SUBSET Timers]
    BY DEF Inv, TypeOK
  <2>2. x \in held[u] \/ (u = t /\ x = msgs_[t][1].timer)
    BY <1>1, <1>3, <2>1
  <2> QED BY <1>5, <2>2
<1>4. TagsInv'
  BY <1>2, <1>3, TagsStep DEF CInv
<1>6. Tagged(msgs_[t][1].timer) /\ msgs_[t][1].timer.task = t
  BY <1>5 DEF CInv, TagsInv
<1> QED BY <1>1, <1>4, <1>6

\* Every step keeps one timer or undelivered timeout per cursor.
LEMMA NextCInv == ASSUME Inv, CInv, [Next]_vars PROVE CInv'
<1> USE DEF CInv
<1>1. Main \in Tasks /\ Terminals \subseteq Tasks /\ Main \notin Terminals
  BY DEF Tasks, Main
<1>2. msgs_ \in [Tasks -> Seq(Messages)] /\ held \in [Tasks -> SUBSET Timers]
  BY DEF Inv, TypeOK
<1>3. CASE Tick
  <2>1. UNCHANGED held
    BY <1>3 DEF Tick
  <2> QED BY <1>3, TickCursor
<1>4. CASE MainReceive
  <2> DEFINE h == Head(msgs_[Main]).timer
  <2>1. /\ msgs_[Main] # <<>> /\ msgs_' = [msgs_ EXCEPT ![Main] = Tail(msgs_[Main])]
        /\ UNCHANGED <<timers_, live, started, app, dropped>> /\ held[Main] = {}
        /\ IF h.value = "kTextboxCursorTimer" THEN held' = [held EXCEPT ![Main] = {h}]
           ELSE UNCHANGED held
    BY <1>4 DEF MainReceive, ReceiveMessage
  <2>2. TagsInv' /\ Tagged(h)
    BY <1>1, <2>1, ReceiveTags
  <2> HIDE DEF h
  <2>3. h.value = "kTextboxCursorTimer" <=> h.chain = TextboxChain
    BY <2>2 DEF Tagged
  <2>4. held'[Main] = IF h.value = "kTextboxCursorTimer" THEN {h} ELSE {}
    BY <1>1, <1>2, <2>1
  <2>5. \A x \in held'[Main] : x.chain = TextboxChain
    BY <2>3, <2>4
  <2>6. OneLink(TextboxChain, Main)'
    <3>1. held'[Main] # held[Main] \/ h.chain # TextboxChain
      BY <2>1, <2>3, <2>4
    <3>2. held'[Main] = held[Main] \/ (held[Main] = {} /\ held'[Main] = {h})
      BY <2>1, <2>4
    <3> QED BY <1>1, <2>1, <3>1, <3>2, ReceiveLinks DEF h
  <2>7. ASSUME NEW t \in Terminals PROVE BlinkInv(t)'
    <3>1. msgs_'[t] = msgs_[t] /\ held'[t] = held[t]
      BY <1>1, <1>2, <2>1
    <3> QED BY <1>1, <2>1, <3>1, AddOtherLinks DEF BlinkInv
  <2> QED BY <2>1, <2>2, <2>5, <2>6, <2>7
<1>13. CASE MainRearm
  <2>1. PICK x \in held[Main] :
          AddTimer(Timer(x.timeout + kTimer05Sec, "kTextboxCursorTimer", Main, x.chain))
    BY <1>13 DEF MainRearm
  <2> DEFINE y == Timer(x.timeout + kTimer05Sec, "kTextboxCursorTimer", Main, x.chain)
  <2>2. /\ held' = [held EXCEPT ![Main] = {}] /\ AddTimer(y)
        /\ UNCHANGED <<msgs_, live, started, app, dropped>>
    BY <1>13, <2>1 DEF MainRearm
  <2>3. held[Main] = {x} /\ held'[Main] = {} /\ \A u \in Terminals : held'[u] = held[u]
    BY <1>1, <1>2, <2>1, <2>2 DEF Inv, TypeOK
  <2>4. y.value = "kTextboxCursorTimer" /\ y.task = Main /\ y.chain = x.chain
    BY DEF Timer
  <2>5. x.chain = TextboxChain
    BY <2>1
  <2> HIDE DEF y
  <2>6. TagsInv'
    <3>1. Tagged(y)
      BY <2>4, <2>5, ChainsDiffer DEF Tagged
    <3>2. \A u \in Tasks : held'[u] \subseteq held[u]
      BY <1>2, <2>2
    <3> QED BY <2>2, <3>1, <3>2, TagsStep DEF AddTimer
  <2>7. OneLink(TextboxChain, Main)'
    BY <1>1, <2>2, <2>3, <2>4, RearmLinks
  <2>8. ASSUME NEW t \in Terminals PROVE BlinkInv(t)'
    <3>1. y.chain # BlinkChain(t)
      BY <2>4, <2>5, ChainsDiffer
    <3> QED BY <1>1, <2>2, <2>3, <3>1, AddOtherLinks DEF BlinkInv
  <2> QED BY <2>2, <2>3, <2>6, <2>7, <2>8
<1>5. ASSUME NEW t \in Terminals, TerminalStart(t) PROVE CInv'
  <2> DEFINE y == Timer(tick_ + kTimer05Sec, "one", t, BlinkChain(t))
  <2>1. /\ t \notin started /\ started' = started \cup {t} /\ AddTimer(y)
        /\ UNCHANGED <<msgs_, live, held, app, dropped>>
    BY <1>5 DEF TerminalStart
  <2>2. y.value = "one" /\ y.task = t /\ y.chain = BlinkChain(t)
    BY DEF Timer
  <2> HIDE DEF y
  <2>3. Tagged(y)
    BY <2>2, ChainsDiffer DEF Tagged
  <2>4. TagsInv'
    BY <2>1, <2>3, TagsStep DEF AddTimer
  <2>5. OneLink(TextboxChain, Main)'
    BY <1>1, <2>1, <2>2, ChainsDiffer, AddOtherLinks
  <2>6. OneLink(BlinkChain(t), t)'
    <3>1. NoLink(BlinkChain(t), t)
      BY <2>1 DEF BlinkInv
    <3>2. Armed(BlinkChain(t))' = {y}
      BY <2>1, <2>2, <3>1 DEF NoLink, Armed, AddTimer
    <3>3. Waiting(BlinkChain(t), t)' = {} /\ Holding(BlinkChain(t), t)' = {}
      BY <2>1, <3>1 DEF NoLink, Waiting, Holding
    <3> QED BY <3>2, <3>3 DEF OneLink
  <2>7. ASSUME NEW u \in Terminals PROVE BlinkInv(u)'
    <3>1. CASE u = t
      BY <2>1, <2>6, <3>1 DEF BlinkInv
    <3>2. CASE u # t
      <4>1. y.chain # BlinkChain(u)
        BY <2>2, <3>2, ChainsDiffer
      <4> QED BY <1>1, <2>1, <3>2, <4>1, AddOtherLinks DEF BlinkInv
    <3> QED BY <3>1, <3>2
  <2> QED BY <2>1, <2>4, <2>5, <2>7
<1>6. ASSUME NEW t \in Terminals, TerminalReceive(t) PROVE CInv'
  <2> DEFINE h == Head(msgs_[t]).timer
  <2>1. /\ t \in live \cap started
        /\ msgs_[t] # <<>> /\ msgs_' = [msgs_ EXCEPT ![t] = Tail(msgs_[t])]
        /\ held[t] = {} /\ held' = [held EXCEPT ![t] = {h}]
        /\ UNCHANGED <<timers_, live, started, app, dropped>>
    BY <1>6 DEF TerminalReceive, ReceiveMessage
  <2>2. TagsInv'
    BY <1>1, <2>1, ReceiveTags
  <2>3. held'[t] = {h} /\ \A u \in Tasks : u # t => held'[u] = held[u] /\ msgs_'[u] = msgs_[u]
    BY <1>1, <1>2, <2>1
  <2>4. OneLink(TextboxChain, Main)'
    BY <1>1, <2>1, <2>3, AddOtherLinks
  <2>5. ASSUME NEW u \in Terminals PROVE BlinkInv(u)'
    <3>1. CASE u = t
      <4>1. held'[t] # held[t]
        BY <2>1, <2>3
      <4>2. held[t] = {} /\ held'[t] = {Head(msgs_[t]).timer} /\ t \in Tasks
        BY <1>1, <2>1, <2>3
      <4>3. LET hd == Head(msgs_[t]).timer
                kept == held'[t] # held[t] \/ hd.chain # BlinkChain(t)
            IN  /\ NoLink(BlinkChain(t), t) => hd.chain # BlinkChain(t) /\ NoLink(BlinkChain(t), t)'
                /\ OneLink(BlinkChain(t), t) /\ kept => OneLink(BlinkChain(t), t)'
                /\ OneLink(BlinkChain(t), t) /\ ~kept => NoLink(BlinkChain(t), t)'
        BY <2>1, <4>2, ReceiveLinks
      <4>4. /\ NoLink(BlinkChain(t), t) => NoLink(BlinkChain(t), t)'
            /\ OneLink(BlinkChain(t), t) => OneLink(BlinkChain(t), t)'
        BY <4>1, <4>3
      <4> QED BY <2>1, <3>1, <4>4 DEF BlinkInv
    <3>2. CASE u # t
      BY <1>1, <2>1, <2>3, <3>2, AddOtherLinks DEF BlinkInv
    <3> QED BY <3>1, <3>2
  <2> QED BY <1>1, <2>1, <2>2, <2>3, <2>4, <2>5
<1>14. ASSUME NEW t \in Terminals, TerminalRearm(t) PROVE CInv'
  <2>1. PICK x \in held[t] : AddTimer(Timer(x.timeout + kTimer05Sec, "one", t, x.chain))
    BY <1>14 DEF TerminalRearm
  <2> DEFINE y == Timer(x.timeout + kTimer05Sec, "one", t, x.chain)
  <2>2. /\ held' = [held EXCEPT ![t] = {}] /\ AddTimer(y)
        /\ UNCHANGED <<msgs_, live, started, app, dropped>>
    BY <1>14, <2>1 DEF TerminalRearm
  <2>3. held[t] = {x} /\ held'[t] = {} /\ \A u \in Tasks : u # t => held'[u] = held[u]
    BY <1>1, <1>2, <2>1, <2>2 DEF Inv, TypeOK
  <2>4. y.value = "one" /\ y.task = t /\ y.chain = x.chain
    BY DEF Timer
  <2> HIDE DEF y
  <2>5. Tagged(x) /\ x.task = t
    BY <1>1, <2>1 DEF TagsInv
  <2>6. x.chain # TaskChain /\ x.chain # TextboxChain
    BY <1>1, <2>5 DEF Tagged
  <2>7. \A u \in Terminals : x.chain = BlinkChain(u) => u = t
    BY <2>5 DEF Tagged
  <2>8. TagsInv'
    <3>1. Tagged(y)
      BY <2>4, <2>6, <2>7 DEF Tagged
    <3>2. \A u \in Tasks : held'[u] \subseteq held[u]
      BY <1>2, <2>2
    <3> QED BY <2>2, <3>1, <3>2, TagsStep DEF AddTimer
  <2>9. OneLink(TextboxChain, Main)'
    BY <1>1, <2>2, <2>3, <2>4, <2>6, AddOtherLinks
  <2>10. ASSUME NEW u \in Terminals PROVE BlinkInv(u)'
    <3>1. CASE u = t
      BY <1>1, <2>2, <2>3, <2>4, <3>1, RearmLinks DEF BlinkInv
    <3>2. CASE u # t
      <4>1. y.chain # BlinkChain(u)
        BY <2>4, <2>7, <3>2
      <4> QED BY <1>1, <2>2, <2>3, <3>2, <4>1, AddOtherLinks DEF BlinkInv
    <3> QED BY <3>1, <3>2
  <2> QED BY <1>1, <2>2, <2>3, <2>8, <2>9, <2>10
<1>7. ASSUME UNCHANGED <<timers_, msgs_, live, held, started, dropped>>, app' \subseteq started
      PROVE  CInv'
  <2>1. TagsInv'
    BY <1>7, TagsStep
  <2>2. OneLink(TextboxChain, Main)'
    BY <1>1, <1>7, AddOtherLinks
  <2>3. ASSUME NEW u \in Terminals PROVE BlinkInv(u)'
    BY <1>1, <1>7, AddOtherLinks DEF BlinkInv
  <2> QED BY <1>7, <2>1, <2>2, <2>3
<1>8. ASSUME NEW t \in Terminals,
             \/ StartApp(t) \/ ExitApp(t)
             \/ \E arg \in Arguments, relative \in BOOLEAN : CreateTimer(t, arg, relative)
      PROVE  CInv'
  BY <1>7, <1>8 DEF StartApp, ExitApp, CreateTimer
<1>9. ASSUME NEW t \in Terminals, CreateTimerAdd(t) PROVE CInv'
  <2> DEFINE y == Timer(pending[t], "app", t, AppChain(t, created))
  <2>1. AddTimer(y) /\ UNCHANGED <<msgs_, live, held, started, app, dropped>>
    BY <1>9 DEF CreateTimerAdd
  <2>2. y.value = "app" /\ y.chain = AppChain(t, created)
    BY DEF Timer
  <2> HIDE DEF y
  <2>3. /\ y.chain # TaskChain /\ y.chain # TextboxChain
        /\ \A u \in Terminals : y.chain # BlinkChain(u)
    BY <2>2, ChainsDiffer
  <2>4. TagsInv'
    <3>1. Tagged(y)
      BY <2>2, <2>3 DEF Tagged
    <3> QED BY <2>1, <3>1, TagsStep DEF AddTimer
  <2>5. OneLink(TextboxChain, Main)'
    BY <1>1, <2>1, <2>3, AddOtherLinks
  <2>6. ASSUME NEW u \in Terminals PROVE BlinkInv(u)'
    BY <1>1, <2>1, <2>3, AddOtherLinks DEF BlinkInv
  <2> QED BY <2>1, <2>4, <2>5, <2>6
<1>10. ASSUME NEW t \in Terminals, Read(t) \/ ReadEvent(t) PROVE CInv'
  <2> DEFINE h == Head(msgs_[t]).timer
  <2>1. /\ t \in started
        /\ msgs_[t] # <<>> /\ msgs_' = [msgs_ EXCEPT ![t] = Tail(msgs_[t])]
        /\ UNCHANGED <<timers_, live, held, started, app>>
        /\ dropped' = IF h.chain = BlinkChain(t) THEN dropped \cup {t} ELSE dropped
    BY <1>10 DEF Read, ReadEvent, Discard, ReceiveMessage
  <2>2. TagsInv'
    BY <1>1, <2>1, ReceiveTags
  <2>3. \A u \in Tasks : u # t => msgs_'[u] = msgs_[u]
    BY <1>2, <2>1
  <2>4. OneLink(TextboxChain, Main)'
    BY <1>1, <2>1, <2>3, AddOtherLinks
  <2>5. ASSUME NEW u \in Terminals PROVE BlinkInv(u)'
    <3>1. CASE u = t
      <4>1. /\ NoLink(BlinkChain(t), t) => h.chain # BlinkChain(t) /\ NoLink(BlinkChain(t), t)'
            /\ OneLink(BlinkChain(t), t) /\ h.chain # BlinkChain(t) => OneLink(BlinkChain(t), t)'
            /\ OneLink(BlinkChain(t), t) /\ h.chain = BlinkChain(t) => NoLink(BlinkChain(t), t)'
        BY <1>1, <2>1, ReceiveLinks
      <4> HIDE DEF h
      <4>2. t \in dropped' <=> t \in dropped \/ h.chain = BlinkChain(t)
        BY <2>1
      <4>3. t \in live' => t \in live
        BY <2>1
      <4>4. t \in live => IF t \in dropped THEN NoLink(BlinkChain(t), t) ELSE OneLink(BlinkChain(t), t)
        BY <2>1 DEF BlinkInv
      <4>5. t \in started' /\ (t \in live' =>
              IF t \in dropped' THEN NoLink(BlinkChain(t), t)' ELSE OneLink(BlinkChain(t), t)')
        BY <2>1, <4>1, <4>2, <4>3, <4>4, Zenon
      <4> QED BY <3>1, <4>5 DEF BlinkInv
    <3>2. CASE u # t
      <4>1. u \in dropped' <=> u \in dropped
        BY <2>1, <3>2
      <4> QED BY <1>1, <2>1, <2>3, <3>2, <4>1, AddOtherLinks DEF BlinkInv
    <3> QED BY <3>1, <3>2
  <2> QED BY <2>1, <2>2, <2>4, <2>5
<1>11. ASSUME NEW t \in Terminals, Finish(t) PROVE CInv'
  <2>1. /\ live' = live \ {t} /\ msgs_' = [msgs_ EXCEPT ![t] = <<>>]
        /\ UNCHANGED <<timers_, held, started, app, dropped>>
    BY <1>11 DEF Finish
  <2>2. msgs_'[t] = <<>> /\ \A u \in Tasks : u # t => msgs_'[u] = msgs_[u]
    BY <1>1, <1>2, <2>1
  <2>3. TagsInv'
    <3>1. ASSUME NEW u \in Tasks, NEW i \in 1 .. Len(msgs_'[u])
          PROVE  \E k \in 1 .. Len(msgs_[u]) : msgs_'[u][i] = msgs_[u][k]
      BY <2>2
    <3> QED BY <2>1, <3>1, TagsStep
  <2>4. OneLink(TextboxChain, Main)'
    BY <1>1, <2>1, <2>2, AddOtherLinks
  <2>5. ASSUME NEW u \in Terminals PROVE BlinkInv(u)'
    <3>1. CASE u = t
      <4>1. NoLink(BlinkChain(t), t) => NoLink(BlinkChain(t), t)'
        BY <2>1, <2>2 DEF NoLink, Armed, Waiting, Holding
      <4> QED BY <2>1, <3>1, <4>1 DEF BlinkInv
    <3>2. CASE u # t
      BY <1>1, <2>1, <2>2, <3>2, AddOtherLinks DEF BlinkInv
    <3> QED BY <3>1, <3>2
  <2> QED BY <1>1, <2>1, <2>3, <2>4, <2>5
<1>12. CASE UNCHANGED vars
  BY <1>7, <1>12 DEF vars
<1> QED BY <1>3, <1>4, <1>5, <1>6, <1>8, <1>9, <1>10, <1>11, <1>12, <1>13, <1>14 DEF Next

-----------------------------------------------------------------------------
(* Theorems. *)

\* Type correctness of the timers and queues.
THEOREM TypeCorrect == Spec => []TypeOK
<1>1. Inv => TypeOK
  BY DEF Inv
<1> QED BY <1>1, SpecInv, PTL

\* Preemption: exactly one task timer is armed, for a tick of the next
\* period, whatever tasks and applications do with timers.
THEOREM PreemptionNeverStops == Spec => []TaskTimerArmed
<1>1. Inv => TaskTimerArmed
  BY DEF Inv, TimersInv
<1> QED BY <1>1, SpecInv, PTL

\* Timers fire on the tick they were set for, none stays behind and none is
\* early, and a task finds its timeouts in the order in which they expired.
THEOREM TimersAlwaysExact == Spec => []TimersExact
<1>1. Inv => NoTimerOverdue /\ SentOnTime
  BY DEF Inv, TimersInv, QueuesInv
<1>2. Inv => SentInOrder
  BY DEF Inv, QueuesInv
<1>3. Inv => TimersExact
  BY <1>1, <1>2 DEF TimersExact
<1> QED BY <1>3, SpecInv, PTL

\* NoLink and OneLink are what Links counts.
LEMMA LinksCounts ==
  ASSUME NEW c, NEW t \in Tasks
  PROVE  (NoLink(c, t) => Links(c, t) = 0) /\ (OneLink(c, t) => Links(c, t) = 1)
<1> DEFINE a == Cardinality(Armed(c))
           w == Cardinality(Waiting(c, t))
           h == Cardinality(Holding(c, t))
<1>1. Links(c, t) = a + w + h
  BY DEF Links, Armed, Waiting, Holding
<1>2. Cardinality({}) = 0 /\ \A x : Cardinality({x}) = 1
  BY FS_EmptySet, FS_Singleton
<1>3. OneLink(c, t) => \/ w = 0 /\ h = 0 /\ a = 1
                       \/ a = 0 /\ h = 0 /\ w = 1
                       \/ a = 0 /\ w = 0 /\ h = 1
  BY <1>2, Zenon DEF OneLink
<1>4. NoLink(c, t) => w = 0 /\ h = 0 /\ a = 0
  BY <1>2, Zenon DEF NoLink
<1> HIDE DEF a, w, h
<1> QED BY <1>1, <1>3, <1>4

\* The cursor of the text box never stops and never blinks twice as fast: its
\* chain always has one link, however late the main task handles it.  So has the
\* cursor of every live terminal until Read or ReadEvent takes its timeout, and
\* none from then on.
THEOREM CursorsNeverStop == Spec => []CursorTimerConserved
<1>1. Inv /\ CInv => CursorTimerConserved
  <2> SUFFICES ASSUME Inv, CInv PROVE CursorTimerConserved
    OBVIOUS
  <2>1. Main \in Tasks /\ Terminals \subseteq Tasks /\ started \subseteq Terminals
    BY DEF Tasks, Inv, TypeOK
  <2>2. Links(TextboxChain, Main) = 1
    BY <2>1, LinksCounts DEF CInv
  <2>3. ASSUME NEW t \in started \cap live
        PROVE  Links(BlinkChain(t), t) = IF t \in dropped THEN 0 ELSE 1
    <3>1. t \in Tasks /\ IF t \in dropped THEN NoLink(BlinkChain(t), t)
                                          ELSE OneLink(BlinkChain(t), t)
      BY <2>1 DEF CInv, BlinkInv
    <3> QED BY <3>1, LinksCounts
  <2> QED BY <2>2, <2>3 DEF CursorTimerConserved
<1>2. Inv /\ CInv /\ [Next]_vars => CInv'
  BY NextCInv
<1> QED BY <1>1, <1>2, InitCInv, SpecInv, PTL DEF Spec

=============================================================================
