-------------------------- MODULE TaskManagerProofs --------------------------
(***************************************************************************)
(* TLAPS proofs about TaskManager, for every number of tasks, levels and   *)
(* messages.                                                               *)
(***************************************************************************)
EXTENDS TaskManager, FiniteSetTheorems, SequenceTheorems, WellFoundedInduction, TLAPS

-----------------------------------------------------------------------------
(* Numbers *)

\* A nonempty set of numbers has a least element.
LEMMA LeastExists ==
  ASSUME NEW T \in SUBSET Nat, T # {}
  PROVE  \E m \in T : \A k \in T : m <= k
<1> DEFINE R == OpToRel(<, Nat)
<1>1. \E x \in T : \A y \in T : ~(<<y, x>> \in R)
  BY NatLessThanWellFounded, WFMin
<1>2. \A x, y \in T : <<y, x>> \notin R => ~(y < x)
  BY DEF OpToRel
<1>3. \E x \in T : \A y \in T : ~(y < x)
  BY <1>1, <1>2, Zenon
<1> QED BY <1>3

\* A nonempty set of numbers bounded by n has a largest element.
LEMMA LargestExists ==
  ASSUME NEW n \in Nat, NEW T \in SUBSET (0 .. n), T # {}
  PROVE  \E m \in T : \A k \in T : k <= m
<1> DEFINE S == {n - t : t \in T}
<1>1. S \in SUBSET Nat
  OBVIOUS
<1>2. S # {}
  OBVIOUS
<1>3. PICK s \in S : \A k \in S : s <= k
  <2> HIDE DEF S
  <2> QED BY <1>1, <1>2, LeastExists
<1> QED BY <1>3

USE LevelAssumption, BoundAssumption

-----------------------------------------------------------------------------
(* Queues. *)

\* What pop_front leaves of a nonempty queue.
LEMMA PoppedQueue ==
  ASSUME NEW q \in Seq(Ids), q # <<>>
  PROVE  /\ Len(q) \in Nat /\ Len(q) >= 1
         /\ Head(q) = q[1] /\ q[1] \in Ids
         /\ Tail(q) \in Seq(Ids)
         /\ Len(Tail(q)) = Len(q) - 1
         /\ \A i \in 1 .. Len(q) - 1 : Tail(q)[i] = q[i + 1]
<1>1. Len(q) \in Nat \ {0}
  BY EmptySeq
<1>2. Head(q) = q[1]
  OBVIOUS
<1> QED BY <1>1, <1>2, HeadTailProperties

\* The queue after pop_front and push_back of the same task.
LEMMA RotatedQueue ==
  ASSUME NEW q \in Seq(Ids), q # <<>>,
         NEW r, r = Append(Tail(q), Head(q))
  PROVE  /\ r \in Seq(Ids) /\ r # <<>>
         /\ Len(r) = Len(q)
         /\ \A i \in 1 .. Len(q) - 1 : r[i] = q[i + 1]
         /\ r[Len(q)] = q[1]
<1>1. /\ r \in Seq(Ids) /\ r # <<>>
      /\ Len(r) = Len(Tail(q)) + 1
      /\ \A i \in 1 .. Len(Tail(q)) : r[i] = Tail(q)[i]
      /\ r[Len(Tail(q)) + 1] = Head(q)
  BY PoppedQueue, AppendProperties
<1> QED BY <1>1, PoppedQueue

\* The queue after push_back.
LEMMA PushedQueue ==
  ASSUME NEW q \in Seq(Ids), NEW t \in Ids
  PROVE  /\ Append(q, t) \in Seq(Ids) /\ Append(q, t) # <<>>
         /\ Len(q) \in Nat
         /\ Len(Append(q, t)) = Len(q) + 1
         /\ \A i \in 1 .. Len(q) : Append(q, t)[i] = q[i]
         /\ Append(q, t)[Len(q) + 1] = t
BY AppendProperties, LenProperties

\* A queue with an entry is not empty.
LEMMA NonEmptyQueue ==
  ASSUME NEW q \in Seq(Ids), NEW i \in 1 .. Len(q)
  PROVE  q # <<>>
BY EmptySeq

\* The search of RotateCurrentRunQueue finds the highest nonempty queue, if
\* there is one.
LEMMA HighestNonEmptyIsHighest ==
  ASSUME NEW queues, NEW current, NEW l \in Levels, queues[l] # <<>>
  PROVE  LET h == HighestNonEmpty(queues, current)
         IN  /\ h \in Levels
             /\ queues[h] # <<>>
             /\ \A m \in Levels : m > h => queues[m] = <<>>
<1> DEFINE T == {lv \in Levels : queues[lv] # <<>>}
<1>1. T \in SUBSET (0 .. kMaxLevel) /\ T # {}
  BY DEF Levels
<1>2. \E h \in T : \A k \in T : k <= h
  <2> HIDE DEF T
  <2> QED BY <1>1, LargestExists
<1>3. \E h \in Levels : queues[h] # <<>> /\ \A m \in Levels : m > h => queues[m] = <<>>
  BY <1>2 DEF Levels
<1> QED BY <1>3 DEF HighestNonEmpty

-----------------------------------------------------------------------------
(* The scheduler's functions preserve the consistency of its five fields. *)

\* The inductive invariant of the scheduler alone.  The idle task keeps the
\* queue of level 0 from ever being empty, so a rotation finds a task.
SchedInv(s) ==
  /\ s \in Sched
  /\ QueuedIsRunning(s) /\ QueuedOnce(s) /\ RunningIsQueued(s)
  /\ s.running_[s.current_level_] # <<>>
  /\ HigherFlagged(s)
  /\ s.Running[Idle] /\ s.Level[Idle] = 0

\* Wakeup without a level: the task becomes running and nothing else changes.
LEMMA WakeupKeepsInv ==
  ASSUME NEW s, SchedInv(s), NEW t \in Ids
  PROVE  LET r == Wakeup(s, t, -1)
         IN  /\ SchedInv(r)
             /\ r.Running = [s.Running EXCEPT ![t] = TRUE]
             /\ r.Level = s.Level
             /\ CurrentTask(r) = CurrentTask(s)
<1> DEFINE r == Wakeup(s, t, -1)
           l == s.Level[t]
           q == s.running_[l]
<1>1. s \in Sched /\ l \in Levels /\ q \in Seq(Ids)
  BY DEF SchedInv, Sched
<1>2. CASE s.Running[t]
  <2>1. r = s
    BY <1>2 DEF Wakeup, ChangeLevelRunning
  <2>2. s.Running = [s.Running EXCEPT ![t] = TRUE]
    BY <1>1, <1>2 DEF Sched
  <2> QED BY <2>1, <2>2
<1>3. CASE ~s.Running[t]
  <2>2. /\ r.Level = s.Level
        /\ r.Running = [s.Running EXCEPT ![t] = TRUE]
        /\ r.running_ = [s.running_ EXCEPT ![l] = Append(q, t)]
        /\ r.level_changed_ = (s.level_changed_ \/ l > s.current_level_)
        /\ r.current_level_ = s.current_level_
    BY <1>1, <1>3 DEF Wakeup, Sched
  <2>3. r \in Sched
    BY <1>1, <1>3, PushedQueue DEF Wakeup, Sched
  <2>a. /\ r.running_[l] = Append(q, t)
        /\ \A lv \in Levels : lv # l => r.running_[lv] = s.running_[lv]
        /\ r.Running[t] /\ \A u \in Ids : u # t => r.Running[u] = s.Running[u]
    BY <1>1, <2>2 DEF Sched
  <2>b. /\ Len(q) \in Nat
        /\ Len(r.running_[l]) = Len(q) + 1
        /\ \A i \in 1 .. Len(q) : r.running_[l][i] = q[i]
        /\ r.running_[l][Len(q) + 1] = t
    <3>1. /\ Len(q) \in Nat
          /\ Len(Append(q, t)) = Len(q) + 1
          /\ \A i \in 1 .. Len(q) : Append(q, t)[i] = q[i]
          /\ Append(q, t)[Len(q) + 1] = t
      BY <1>1, PushedQueue
    <3> QED BY <2>a, <3>1
  <2>c. /\ \A k \in 1 .. Len(q) : q[k] \in Ids /\ q[k] # t /\ s.Running[q[k]] /\ s.Level[q[k]] = l
        /\ \A j, k \in 1 .. Len(q) : q[j] = q[k] => j = k
    BY <1>1, <1>3, ElementOfSeq DEF SchedInv, QueuedIsRunning, QueuedOnce
  <2> HIDE DEF r, q
  <2>4. QueuedIsRunning(r)
    <3> SUFFICES ASSUME NEW lv \in Levels, NEW i \in 1 .. Len(r.running_[lv])
                 PROVE  r.Running[r.running_[lv][i]] /\ r.Level[r.running_[lv][i]] = lv
      BY DEF QueuedIsRunning
    <3>1. CASE lv = l
      BY <2>2, <2>a, <2>b, <2>c, <3>1
    <3>2. CASE lv # l
      BY <1>1, <2>2, <2>a, <3>2, ElementOfSeq DEF SchedInv, QueuedIsRunning, Sched
    <3> QED BY <3>1, <3>2
  <2>5. QueuedOnce(r)
    <3> SUFFICES ASSUME NEW lv \in Levels, NEW i \in 1 .. Len(r.running_[lv]),
                        NEW j \in 1 .. Len(r.running_[lv]),
                        r.running_[lv][i] = r.running_[lv][j]
                 PROVE  i = j
      BY DEF QueuedOnce
    <3>2. CASE lv = l
      BY <2>b, <2>c, <3>2, SMTT(30)
    <3>3. CASE lv # l
      BY <1>1, <2>2, <3>3 DEF SchedInv, QueuedOnce, Sched
    <3> QED BY <3>2, <3>3
  <2>6. RunningIsQueued(r)
    <3> SUFFICES ASSUME NEW u \in Ids, r.Running[u]
                 PROVE  \E i \in 1 .. Len(r.running_[r.Level[u]]) : r.running_[r.Level[u]][i] = u
      BY DEF RunningIsQueued
    <3>1. CASE u = t
      BY <2>2, <2>b, <3>1
    <3>2. CASE u # t
      <4>1. s.Running[u]
        BY <1>1, <2>2, <3>2 DEF Sched
      <4>2. PICK i \in 1 .. Len(s.running_[s.Level[u]]) : s.running_[s.Level[u]][i] = u
        BY <4>1 DEF SchedInv, RunningIsQueued
      <4>3. CASE s.Level[u] = l
        BY <2>2, <2>b, <4>2, <4>3 DEF q
      <4>4. CASE s.Level[u] # l
        BY <1>1, <2>2, <2>a, <4>2, <4>4 DEF Sched
      <4> QED BY <4>3, <4>4
    <3> QED BY <3>1, <3>2
  <2>7. r.running_[r.current_level_] # <<>> /\ CurrentTask(r) = CurrentTask(s)
    <3>1. CASE l = s.current_level_
      BY <1>1, <2>2, <2>a, <3>1, PushedQueue, HeadTailAppend DEF SchedInv, Sched, CurrentTask, q
    <3>2. CASE l # s.current_level_
      BY <1>1, <2>2, <3>2 DEF SchedInv, Sched, CurrentTask
    <3> QED BY <3>1, <3>2
  <2>8. HigherFlagged(r)
    BY <1>1, <2>2 DEF SchedInv, HigherFlagged, Sched
  <2>9. r.Running[Idle] /\ r.Level[Idle] = 0
    BY <1>1, <2>2 DEF SchedInv, Sched, Ids, Idle
  <2> QED BY <2>2, <2>3, <2>4, <2>5, <2>6, <2>7, <2>8, <2>9 DEF SchedInv, r
<1> QED BY <1>2, <1>3

\* A record built from typed fields.
LEMMA SchedRecord ==
  ASSUME NEW queues \in [Levels -> Seq(Ids)], NEW cl \in Levels, NEW f \in BOOLEAN,
         NEW lvl \in [Ids -> Levels], NEW run \in [Ids -> BOOLEAN]
  PROVE  [running_ |-> queues, current_level_ |-> cl, level_changed_ |-> f,
          Level |-> lvl, Running |-> run] \in Sched
BY DEF Sched

\* The level that RotateCurrentRunQueue moves to is the highest with a task.
LEMMA LevelAfterRotation ==
  ASSUME NEW s \in Sched, HigherFlagged(s),
         NEW queues \in [Levels -> Seq(Ids)],
         \A lv \in Levels : lv # s.current_level_ => queues[lv] = s.running_[lv],
         queues[0] # <<>>,
         NEW cl,
         cl = IF s.level_changed_ \/ queues[s.current_level_] = <<>>
              THEN HighestNonEmpty(queues, s.current_level_)
              ELSE s.current_level_
  PROVE  /\ cl \in Levels
         /\ queues[cl] # <<>>
         /\ \A lv \in Levels : lv > cl => queues[lv] = <<>>
<1>1. 0 \in Levels /\ s.current_level_ \in Levels /\ s.level_changed_ \in BOOLEAN
  BY DEF Levels, Sched
<1>2. CASE s.level_changed_ \/ queues[s.current_level_] = <<>>
  BY <1>1, <1>2, HighestNonEmptyIsHighest
<1>3. CASE ~s.level_changed_ /\ queues[s.current_level_] # <<>>
  <2> SUFFICES ASSUME NEW lv \in Levels, lv > s.current_level_ PROVE queues[lv] = <<>>
    BY <1>1, <1>3
  <2>1. queues[lv] = s.running_[lv]
    BY <1>1 DEF Levels
  <2>2. s.running_[lv] = <<>>
    BY <1>3, Zenon DEF HigherFlagged
  <2> QED BY <2>1, <2>2
<1> QED BY <1>1, <1>2, <1>3

\* A timer switch keeps every flag and leaves the highest level running.
LEMMA RotateKeepsInv ==
  ASSUME NEW s, SchedInv(s)
  PROVE  LET r == RotateCurrentRunQueue(s, FALSE)
         IN  /\ SchedInv(r)
             /\ r.Running = s.Running /\ r.Level = s.Level
             /\ RunsHighest(r)
<1> DEFINE r == RotateCurrentRunQueue(s, FALSE)
           c == s.current_level_
           q == s.running_[c]
           rot == Append(Tail(q), Head(q))
<1>1. s \in Sched /\ c \in Levels /\ q \in Seq(Ids) /\ q # <<>>
  BY DEF SchedInv, Sched
<1>2. /\ rot \in Seq(Ids) /\ rot # <<>>
      /\ Len(rot) = Len(q) /\ Len(q) \in Nat /\ Len(q) >= 1
      /\ \A i \in 1 .. Len(q) - 1 : rot[i] = q[i + 1]
      /\ rot[Len(q)] = q[1]
  BY <1>1, RotatedQueue, PoppedQueue
<1>3. /\ \A k \in 1 .. Len(q) : q[k] \in Ids /\ s.Running[q[k]] /\ s.Level[q[k]] = c
      /\ \A j, k \in 1 .. Len(q) : q[j] = q[k] => j = k
  BY <1>1, ElementOfSeq DEF SchedInv, QueuedIsRunning, QueuedOnce
<1>4. /\ r.running_ = [s.running_ EXCEPT ![c] = rot]
      /\ r.level_changed_ = FALSE
      /\ r.Running = s.Running /\ r.Level = s.Level
      /\ r.current_level_ = IF s.level_changed_ \/ rot = <<>>
                            THEN HighestNonEmpty(r.running_, c) ELSE c
  BY DEF RotateCurrentRunQueue
<1>5. /\ r.running_ \in [Levels -> Seq(Ids)]
      /\ r.running_[c] = rot
      /\ \A lv \in Levels : lv # c => r.running_[lv] = s.running_[lv]
  BY <1>1, <1>2, <1>4 DEF Sched
<1>6. r = [running_ |-> r.running_, current_level_ |-> r.current_level_,
           level_changed_ |-> FALSE, Level |-> s.Level, Running |-> s.Running]
  BY DEF RotateCurrentRunQueue
<1> HIDE DEF r, rot
<1>7. QueuedIsRunning(r)
  <2> SUFFICES ASSUME NEW lv \in Levels, NEW i \in 1 .. Len(r.running_[lv])
               PROVE  r.Running[r.running_[lv][i]] /\ r.Level[r.running_[lv][i]] = lv
    BY DEF QueuedIsRunning
  <2>1. CASE lv = c
    <3> HIDE DEF q
    <3> QED BY <1>2, <1>3, <1>4, <1>5, <2>1
  <2>2. CASE lv # c
    BY <1>1, <1>4, <1>5, <2>2 DEF SchedInv, QueuedIsRunning
  <2> QED BY <2>1, <2>2
<1>8. QueuedOnce(r)
  <2> SUFFICES ASSUME NEW lv \in Levels, NEW i \in 1 .. Len(r.running_[lv]),
                      NEW j \in 1 .. Len(r.running_[lv]),
                      r.running_[lv][i] = r.running_[lv][j]
               PROVE  i = j
    BY DEF QueuedOnce
  <2>1. CASE lv = c
    <3> HIDE DEF q
    <3>1. i \in 1 .. Len(q) /\ j \in 1 .. Len(q) /\ rot[i] = rot[j]
      BY <1>2, <1>5, <2>1
    <3>2. CASE i = Len(q) \/ j = Len(q)
      BY <1>2, <1>3, <3>1, <3>2
    <3>3. CASE i # Len(q) /\ j # Len(q)
      BY <1>2, <1>3, <3>1, <3>3
    <3> QED BY <3>2, <3>3
  <2>2. CASE lv # c
    BY <1>5, <2>2 DEF SchedInv, QueuedOnce
  <2> QED BY <2>1, <2>2
<1>9. RunningIsQueued(r)
  <2> SUFFICES ASSUME NEW u \in Ids, s.Running[u]
               PROVE  \E i \in 1 .. Len(r.running_[s.Level[u]]) : r.running_[s.Level[u]][i] = u
    BY <1>4 DEF RunningIsQueued
  <2>1. PICK i \in 1 .. Len(s.running_[s.Level[u]]) : s.running_[s.Level[u]][i] = u
    BY DEF SchedInv, RunningIsQueued
  <2>2. CASE s.Level[u] = c
    <3>1. CASE i = 1
      BY <1>2, <1>5, <2>1, <2>2, <3>1
    <3>2. CASE i # 1
      <4>1. i - 1 \in 1 .. Len(q) - 1 /\ rot[i - 1] = q[i]
        BY <1>2, <2>2, <3>2
      <4> QED BY <1>2, <1>5, <2>1, <2>2, <4>1
    <3> QED BY <3>1, <3>2
  <2>3. CASE s.Level[u] # c
    BY <1>1, <1>5, <2>1, <2>3 DEF Sched
  <2> QED BY <2>2, <2>3
<1>10. r.running_[0] # <<>>
  <2>1. Idle \in Ids /\ 0 \in Levels
    BY DEF Idle, Ids, Levels
  <2>2. \E i \in 1 .. Len(r.running_[0]) : r.running_[0][i] = Idle
    BY <1>4, <1>9, <2>1 DEF SchedInv, RunningIsQueued
  <2> QED BY <1>5, <2>1, <2>2, NonEmptyQueue
<1>11. /\ r.current_level_ \in Levels
       /\ r.running_[r.current_level_] # <<>>
       /\ RunsHighest(r)
  <2>1. r.current_level_ = IF s.level_changed_ \/ r.running_[c] = <<>>
                           THEN HighestNonEmpty(r.running_, c) ELSE c
    BY <1>4, <1>5
  <2>2. HigherFlagged(s)
    BY DEF SchedInv
  <2>3. /\ r.current_level_ \in Levels
        /\ r.running_[r.current_level_] # <<>>
        /\ \A lv \in Levels : lv > r.current_level_ => r.running_[lv] = <<>>
    BY <1>1, <1>5, <1>10, <2>1, <2>2, LevelAfterRotation
  <2> QED BY <2>3 DEF RunsHighest
<1>12. r \in Sched
  <2>1. s.Level \in [Ids -> Levels] /\ s.Running \in [Ids -> BOOLEAN]
    BY <1>1 DEF Sched
  <2>2. FALSE \in BOOLEAN
    OBVIOUS
  <2>3. [running_ |-> r.running_, current_level_ |-> r.current_level_,
         level_changed_ |-> FALSE, Level |-> s.Level, Running |-> s.Running] \in Sched
    BY <1>5, <1>11, <2>1, <2>2, SchedRecord
  <2> QED BY <1>6, <2>3
<1>13. HigherFlagged(r)
  BY <1>11 DEF RunsHighest, HigherFlagged
<1> QED BY <1>4, <1>7, <1>8, <1>9, <1>11, <1>12, <1>13 DEF SchedInv, r

\* The current task goes to sleep: it leaves its queue, no other task is
\* affected, and the highest level with a task runs next.
LEMMA SleepKeepsInv ==
  ASSUME NEW s, SchedInv(s), CurrentTask(s) # Idle
  PROVE  LET t == CurrentTask(s)
             r == Sleep(s, t)
         IN  /\ SchedInv(r)
             /\ r.Running = [s.Running EXCEPT ![t] = FALSE] /\ r.Level = s.Level
             /\ RunsHighest(r)
             /\ t \in Ids /\ s.Running[t]
             /\ r = Leave(s, t)
<1> DEFINE t == CurrentTask(s)
           r == Sleep(s, t)
           c == s.current_level_
           q == s.running_[c]
           run == [s.Running EXCEPT ![t] = FALSE]
<1>1. s \in Sched /\ c \in Levels /\ q \in Seq(Ids) /\ q # <<>>
  BY DEF SchedInv, Sched
<1>2. /\ Len(q) \in Nat /\ Len(q) >= 1
      /\ t = q[1]
      /\ Tail(q) \in Seq(Ids)
      /\ Len(Tail(q)) = Len(q) - 1
      /\ \A i \in 1 .. Len(q) - 1 : Tail(q)[i] = q[i + 1]
  BY <1>1, PoppedQueue DEF CurrentTask
<1>3. /\ \A k \in 1 .. Len(q) : q[k] \in Ids /\ s.Running[q[k]] /\ s.Level[q[k]] = c
      /\ \A j, k \in 1 .. Len(q) : q[j] = q[k] => j = k
  BY <1>1, ElementOfSeq DEF SchedInv, QueuedIsRunning, QueuedOnce
<1>4. t \in Ids /\ s.Running[t] /\ s.Level[t] = c
  <2> HIDE DEF t, q
  <2> QED BY <1>2, <1>3
<1>5. /\ r = RotateCurrentRunQueue(SetRunning(s, t, FALSE), TRUE)
      /\ r = Leave(s, t)
  BY <1>1, <1>4 DEF Sleep, Leave, RotateCurrentRunQueue, SetRunning
<1>6. /\ r.running_ = [s.running_ EXCEPT ![c] = Tail(q)]
      /\ r.level_changed_ = FALSE
      /\ r.Running = run /\ r.Level = s.Level
      /\ r.current_level_ = IF s.level_changed_ \/ Tail(q) = <<>>
                            THEN HighestNonEmpty(r.running_, c) ELSE c
      /\ r = [running_ |-> r.running_, current_level_ |-> r.current_level_,
              level_changed_ |-> FALSE, Level |-> s.Level, Running |-> run]
  BY <1>5 DEF RotateCurrentRunQueue, SetRunning
<1>7. /\ r.running_ \in [Levels -> Seq(Ids)]
      /\ r.running_[c] = Tail(q)
      /\ \A lv \in Levels : lv # c => r.running_[lv] = s.running_[lv]
  BY <1>1, <1>2, <1>6 DEF Sched
<1>8. /\ run \in [Ids -> BOOLEAN] /\ ~run[t]
      /\ \A u \in Ids : u # t => run[u] = s.Running[u]
  BY <1>1, <1>4 DEF Sched
<1> HIDE DEF r, run, t
<1>9. QueuedIsRunning(r)
  <2> SUFFICES ASSUME NEW lv \in Levels, NEW i \in 1 .. Len(r.running_[lv])
               PROVE  run[r.running_[lv][i]] /\ s.Level[r.running_[lv][i]] = lv
    BY <1>6 DEF QueuedIsRunning
  <2>1. CASE lv = c
    <3>1. i \in 1 .. Len(q) - 1 /\ r.running_[lv][i] = q[i + 1]
      BY <1>2, <1>7, <2>1
    <3>2. q[i + 1] # t
      BY <1>2, <1>3, <3>1
    <3> HIDE DEF q
    <3> QED BY <1>3, <1>2, <1>8, <2>1, <3>1, <3>2
  <2>2. CASE lv # c
    <3>1. i \in 1 .. Len(s.running_[lv]) /\ r.running_[lv][i] = s.running_[lv][i]
      BY <1>7, <2>2
    <3>2. /\ s.running_[lv][i] \in Ids
          /\ s.Running[s.running_[lv][i]] /\ s.Level[s.running_[lv][i]] = lv
      BY <1>1, <3>1, ElementOfSeq DEF SchedInv, QueuedIsRunning, Sched
    <3> QED BY <1>4, <1>8, <2>2, <3>1, <3>2
  <2> QED BY <2>1, <2>2
<1>10. QueuedOnce(r)
  <2> SUFFICES ASSUME NEW lv \in Levels, NEW i \in 1 .. Len(r.running_[lv]),
                      NEW j \in 1 .. Len(r.running_[lv]),
                      r.running_[lv][i] = r.running_[lv][j]
               PROVE  i = j
    BY DEF QueuedOnce
  <2>1. CASE lv = c
    <3>1. /\ i \in 1 .. Len(q) - 1 /\ r.running_[lv][i] = q[i + 1]
          /\ j \in 1 .. Len(q) - 1 /\ r.running_[lv][j] = q[j + 1]
      BY <1>2, <1>7, <2>1
    <3>2. q[i + 1] = q[j + 1]
      BY <3>1
    <3> HIDE DEF q
    <3>3. i + 1 \in 1 .. Len(q) /\ j + 1 \in 1 .. Len(q)
      BY <1>2, <3>1
    <3> QED BY <1>3, <3>1, <3>2, <3>3, SMTT(30)
  <2>2. CASE lv # c
    BY <1>7, <2>2 DEF SchedInv, QueuedOnce
  <2> QED BY <2>1, <2>2
<1>11. RunningIsQueued(r)
  <2> SUFFICES ASSUME NEW u \in Ids, run[u]
               PROVE  \E i \in 1 .. Len(r.running_[s.Level[u]]) : r.running_[s.Level[u]][i] = u
    BY <1>6 DEF RunningIsQueued
  <2>1. u # t /\ s.Running[u]
    BY <1>8
  <2>2. PICK i \in 1 .. Len(s.running_[s.Level[u]]) : s.running_[s.Level[u]][i] = u
    BY <2>1 DEF SchedInv, RunningIsQueued
  <2>3. CASE s.Level[u] = c
    <3>1. i # 1
      BY <1>2, <2>1, <2>2, <2>3
    <3>2. i - 1 \in 1 .. Len(q) - 1 /\ Tail(q)[i - 1] = q[i]
      BY <1>2, <2>3, <3>1
    <3>3. r.running_[s.Level[u]] = Tail(q) /\ q[i] = u
      BY <1>7, <2>2, <2>3
    <3> QED BY <1>2, <3>2, <3>3
  <2>4. CASE s.Level[u] # c
    BY <1>1, <1>7, <2>2, <2>4 DEF Sched
  <2> QED BY <2>3, <2>4
<1>12. r.Running[Idle] /\ r.Level[Idle] = 0 /\ Idle \in Ids /\ 0 \in Levels
  BY <1>6, <1>8, SMTT(30) DEF SchedInv, Idle, Ids, Levels, t
<1>13. r.running_[0] # <<>>
  <2>1. \E i \in 1 .. Len(r.running_[0]) : r.running_[0][i] = Idle
    BY <1>11, <1>12 DEF RunningIsQueued
  <2> QED BY <1>7, <1>12, <2>1, NonEmptyQueue
<1>14. /\ r.current_level_ \in Levels
       /\ r.running_[r.current_level_] # <<>>
       /\ RunsHighest(r)
  <2>1. r.current_level_ = IF s.level_changed_ \/ r.running_[c] = <<>>
                           THEN HighestNonEmpty(r.running_, c) ELSE c
    BY <1>6, <1>7
  <2>2. HigherFlagged(s)
    BY DEF SchedInv
  <2>3. /\ r.current_level_ \in Levels
        /\ r.running_[r.current_level_] # <<>>
        /\ \A lv \in Levels : lv > r.current_level_ => r.running_[lv] = <<>>
    BY <1>1, <1>7, <1>13, <2>1, <2>2, LevelAfterRotation
  <2> QED BY <2>3 DEF RunsHighest
<1>15. r \in Sched
  <2>1. s.Level \in [Ids -> Levels] /\ FALSE \in BOOLEAN
    BY <1>1 DEF Sched
  <2>2. [running_ |-> r.running_, current_level_ |-> r.current_level_,
         level_changed_ |-> FALSE, Level |-> s.Level, Running |-> run] \in Sched
    BY <1>7, <1>8, <1>14, <2>1, SchedRecord
  <2> QED BY <1>6, <2>2
<1>16. HigherFlagged(r)
  BY <1>14 DEF RunsHighest, HigherFlagged
<1>17. SchedInv(r)
  BY <1>9, <1>10, <1>11, <1>12, <1>14, <1>15, <1>16 DEF SchedInv
<1> QED BY <1>4, <1>5, <1>6, <1>14, <1>17 DEF r, run, t

-----------------------------------------------------------------------------
(* The inductive invariant of the specification. *)

\* Ids are handed out in order, and only live tasks are running.
LiveTasks ==
  /\ tasks_ \subseteq 1 .. latest_id_
  /\ latest_id_ >= 2 /\ Main \in tasks_ /\ Idle \in tasks_
  /\ \A t \in Ids : sched.Running[t] => t \in tasks_
  /\ finish_tasks_ \subseteq (1 .. latest_id_) \ tasks_

\* What a task that is dead, or not yet born, has left behind: nothing.
DeadTasksHoldNothing ==
  \A t \in Ids \ tasks_ : msgs_[t] = 0 /\ subtask_id[t] = None /\ ~waiting[t]

\* A child is a later task with one parent, and WaitFinish is for a child.
ChildrenUnique ==
  /\ \A t \in Ids : subtask_id[t] <= latest_id_
  /\ \A t, u \in Ids : (subtask_id[t] # None /\ subtask_id[t] = subtask_id[u]) => t = u
  /\ \A t \in Ids : waiting[t] => subtask_id[t] # None
  /\ subtask_id[Idle] = None

Inv ==
  /\ TypeOK
  /\ SchedInv(sched)
  /\ LiveTasks
  /\ DeadTasksHoldNothing
  /\ ChildrenUnique
  /\ NoLostWakeup
  /\ SleepingWaiterRegistered
  /\ WaiterIsLive
  /\ ExitCodeKept


\* The constructor establishes the invariant.
LEMMA InitInv == Init => Inv
<1> SUFFICES ASSUME Init PROVE Inv
  OBVIOUS
<1> DEFINE queues == [lv \in Levels |-> IF lv = kMaxLevel THEN <<Main>>
                                        ELSE IF lv = 0 THEN <<Idle>> ELSE <<>>]
           lvl == [t \in Ids |-> IF t = Main THEN kMaxLevel
                                 ELSE IF t = Idle THEN 0 ELSE kDefaultLevel]
           run == [t \in Ids |-> t \in {Main, Idle}]
<1>1. /\ Main \in Ids /\ Idle \in Ids /\ Main # Idle
      /\ 0 \in Levels /\ kMaxLevel \in Levels /\ kMaxLevel # 0
  BY DEF Main, Idle, Ids, Levels
<1>2. queues \in [Levels -> Seq(Ids)] /\ lvl \in [Ids -> Levels] /\ run \in [Ids -> BOOLEAN]
  BY <1>1 DEF Levels
<1>3. /\ sched = [running_ |-> queues, current_level_ |-> kMaxLevel,
                  level_changed_ |-> FALSE, Level |-> lvl, Running |-> run]
      /\ sched.running_ = queues /\ sched.current_level_ = kMaxLevel
      /\ sched.level_changed_ = FALSE /\ sched.Level = lvl /\ sched.Running = run
  BY DEF Init
<1>4. sched \in Sched
  <2>1. FALSE \in BOOLEAN
    OBVIOUS
  <2> QED BY <1>1, <1>2, <1>3, <2>1, SchedRecord
<1>5. TypeOK
  BY <1>1, <1>4 DEF TypeOK, Init, Ids, IdOrNone, None, Main, Idle
<1>6. SchedInv(sched)
  <2>1. QueuedIsRunning(sched)
    <3> SUFFICES ASSUME NEW lv \in Levels, NEW i \in 1 .. Len(queues[lv])
                 PROVE  run[queues[lv][i]] /\ lvl[queues[lv][i]] = lv
      BY <1>3 DEF QueuedIsRunning
    <3>1. CASE lv = kMaxLevel
      <4>1. queues[lv] = <<Main>> /\ i = 1
        BY <3>1
      <4> QED BY <1>1, <3>1, <4>1
    <3>2. CASE lv = 0
      <4>1. queues[lv] = <<Idle>> /\ i = 1
        BY <1>1, <3>2
      <4> QED BY <1>1, <3>2, <4>1
    <3>3. CASE lv # kMaxLevel /\ lv # 0
      BY <3>3
    <3> QED BY <3>1, <3>2, <3>3
  <2>2. QueuedOnce(sched)
    BY <1>1, <1>3 DEF QueuedOnce
  <2>3. RunningIsQueued(sched)
    <3> SUFFICES ASSUME NEW t \in Ids, run[t]
                 PROVE  \E i \in 1 .. Len(queues[lvl[t]]) : queues[lvl[t]][i] = t
      BY <1>3 DEF RunningIsQueued
    <3>1. t \in {Main, Idle}
      OBVIOUS
    <3>2. CASE t = Main
      <4>1. queues[lvl[t]] = <<Main>>
        BY <1>1, <3>2
      <4> QED BY <3>2, <4>1
    <3>3. CASE t = Idle
      <4>1. queues[lvl[t]] = <<Idle>>
        BY <1>1, <3>3
      <4> QED BY <3>3, <4>1
    <3> QED BY <3>1, <3>2, <3>3
  <2>4. sched.running_[sched.current_level_] # <<>>
    BY <1>1, <1>3
  <2>5. HigherFlagged(sched)
    BY <1>1, <1>3 DEF HigherFlagged, Levels
  <2>6. sched.Running[Idle] /\ sched.Level[Idle] = 0
    BY <1>1, <1>3
  <2> QED BY <1>4, <2>1, <2>2, <2>3, <2>4, <2>5, <2>6 DEF SchedInv
<1>7. LiveTasks
  <2>1. \A t \in Ids : sched.Running[t] => t \in tasks_
    BY <1>3 DEF Init
  <2> QED BY <2>1 DEF LiveTasks, Init, Main, Idle
<1>8. DeadTasksHoldNothing /\ ChildrenUnique
  BY <1>1 DEF DeadTasksHoldNothing, ChildrenUnique, Init, None, Main, Idle
<1>9. NoLostWakeup /\ SleepingWaiterRegistered /\ WaiterIsLive /\ ExitCodeKept
  BY <1>1 DEF NoLostWakeup, SleepingWaiterRegistered, WaiterIsLive, ExitCodeKept, Init, Main, Idle
<1> QED BY <1>5, <1>6, <1>7, <1>8, <1>9 DEF Inv

\* The current task is running, hence alive.
LEMMA CurIsLive ==
  ASSUME Inv
  PROVE  Cur \in Ids /\ sched.Running[Cur] /\ Cur \in tasks_
<1> DEFINE q == sched.running_[sched.current_level_]
<1>1. sched \in Sched /\ sched.current_level_ \in Levels /\ q \in Seq(Ids) /\ q # <<>>
  BY DEF Inv, SchedInv, Sched
<1>2. Cur = q[1] /\ q[1] \in Ids /\ 1 \in 1 .. Len(q)
  BY <1>1, PoppedQueue DEF Cur, CurrentTask
<1>3. sched.Running[q[1]]
  BY <1>1, <1>2 DEF Inv, SchedInv, QueuedIsRunning
<1> QED BY <1>2, <1>3 DEF Inv, LiveTasks


\* What NewTask, InitContext and Wakeup do together: the id is fresh, its task
\* is live and running, and the other tasks are as they were.
LEMMA StartTaskStep ==
  ASSUME Inv, StartTask, UNCHANGED finish_tasks_
  PROVE  LET n == latest_id_ + 1
         IN  /\ n \in Ids /\ n \notin tasks_ /\ n # Idle /\ n # None
             /\ tasks_' = tasks_ \cup {n} /\ latest_id_' = n
             /\ SchedInv(sched')
             /\ sched'.Running[n]
             /\ \A t \in Ids : t # n => sched'.Running[t] = sched.Running[t]
             /\ LiveTasks'
<1> DEFINE n == latest_id_ + 1
<1>1. n \in Ids /\ n \notin tasks_ /\ n # Idle /\ n # None
  BY DEF Inv, LiveTasks, TypeOK, StartTask, Ids, Idle, None
<1>2. /\ SchedInv(sched')
      /\ sched'.Running = [sched.Running EXCEPT ![n] = TRUE]
  BY <1>1, WakeupKeepsInv DEF Inv, StartTask
<1>3. /\ sched'.Running[n]
      /\ \A t \in Ids : t # n => sched'.Running[t] = sched.Running[t]
  BY <1>1, <1>2 DEF Inv, SchedInv, Sched
<1>4. tasks_' = tasks_ \cup {n} /\ latest_id_' = n
  BY DEF StartTask
<1>5. LiveTasks'
  <2>1. 1 .. latest_id_ \subseteq 1 .. n /\ n \in 1 .. n /\ n \notin 1 .. latest_id_ /\ n >= 2
    BY DEF Inv, TypeOK, LiveTasks, Ids
  <2>2. tasks_' \subseteq 1 .. n /\ Main \in tasks_' /\ Idle \in tasks_'
    BY <1>4, <2>1 DEF Inv, LiveTasks
  <2>3. finish_tasks_' \subseteq (1 .. n) \ tasks_'
    BY <1>4, <2>1 DEF Inv, LiveTasks
  <2>4. \A t \in Ids : sched'.Running[t] => t \in tasks_'
    BY <1>3, <1>4 DEF Inv, LiveTasks
  <2> QED BY <1>4, <2>1, <2>2, <2>3, <2>4 DEF LiveTasks
<1> QED BY <1>1, <1>2, <1>3, <1>4, <1>5

\* NewTask: a fresh id, running, with nothing attached to it.
LEMMA NewTaskInv == Inv /\ NewTask => Inv'
<1> SUFFICES ASSUME Inv, NewTask PROVE Inv'
  OBVIOUS
<1> DEFINE n == latest_id_ + 1
<1>1. /\ n \in Ids /\ n \notin tasks_ /\ n # Idle /\ tasks_ \subseteq Ids
      /\ SchedInv(sched')
      /\ sched'.Running[n]
      /\ \A t \in Ids : t # n => sched'.Running[t] = sched.Running[t]
      /\ LiveTasks'
  BY StartTaskStep DEF Inv, TypeOK, NewTask
<1>4. /\ tasks_' = tasks_ \cup {n} /\ latest_id_' = n
      /\ UNCHANGED <<msgs_, finish_tasks_, finish_waiter_, subtask_id, waiting>>
  BY DEF NewTask, StartTask
<1>5. TypeOK'
  BY <1>1, <1>4 DEF Inv, TypeOK, SchedInv
<1>7. DeadTasksHoldNothing'
  BY <1>4 DEF Inv, DeadTasksHoldNothing
<1>8. ChildrenUnique'
  <2>1. \A t \in Ids : subtask_id[t] \in Int /\ subtask_id[t] <= latest_id_
    BY DEF Inv, ChildrenUnique, TypeOK, IdOrNone
  <2>2. latest_id_ \in Int
    BY DEF Inv, TypeOK, Ids
  <2>3. \A t \in Ids : subtask_id[t] <= n
    BY <2>1, <2>2
  <2> HIDE DEF n
  <2> QED BY <1>4, <2>3 DEF Inv, ChildrenUnique
<1>9. NoLostWakeup'
  BY <1>1, <1>4 DEF Inv, NoLostWakeup
<1>10. SleepingWaiterRegistered'
  BY <1>1, <1>4 DEF Inv, SleepingWaiterRegistered
<1>11. WaiterIsLive'
  BY <1>4 DEF Inv, WaiterIsLive
<1>12. ExitCodeKept'
  BY <1>1, <1>4 DEF Inv, ExitCodeKept, DeadTasksHoldNothing
<1> QED BY <1>1, <1>5, <1>7, <1>8, <1>9, <1>10, <1>11, <1>12 DEF Inv

\* NewSubtask: as NewTask, and the fresh id is nobody else's child.
LEMMA NewSubtaskInv == Inv /\ NewSubtask => Inv'
<1> SUFFICES ASSUME Inv, NewSubtask PROVE Inv'
  OBVIOUS
<1> DEFINE n == latest_id_ + 1
           c == Cur
<1>0. c \in Ids /\ sched.Running[c] /\ c \in tasks_ /\ ~waiting[c] /\ c # Idle
  BY CurIsLive DEF NewSubtask, Unmasked
<1>1. /\ n \in Ids /\ n \notin tasks_ /\ n # Idle /\ n # None /\ tasks_ \subseteq Ids
      /\ SchedInv(sched')
      /\ sched'.Running[n]
      /\ \A t \in Ids : t # n => sched'.Running[t] = sched.Running[t]
      /\ LiveTasks'
  BY StartTaskStep DEF Inv, TypeOK, NewSubtask
<1>2. n # c
  BY <1>0, <1>1
<1>4. /\ tasks_' = tasks_ \cup {n} /\ latest_id_' = n
      /\ subtask_id' = [subtask_id EXCEPT ![c] = n]
      /\ UNCHANGED <<msgs_, finish_tasks_, finish_waiter_, waiting>>
  BY DEF NewSubtask, StartTask
<1>5. /\ subtask_id'[c] = n /\ subtask_id[c] = None
      /\ \A t \in Ids : t # c => subtask_id'[t] = subtask_id[t]
  BY <1>0, <1>4 DEF Inv, TypeOK, NewSubtask
<1> HIDE DEF c
<1>6. TypeOK'
  <2>1. n \in IdOrNone
    BY <1>1 DEF Ids, IdOrNone
  <2> HIDE DEF n
  <2>2. subtask_id' \in [Ids -> IdOrNone]
    BY <1>0, <1>4, <2>1 DEF Inv, TypeOK
  <2> QED BY <1>1, <1>4, <2>2 DEF Inv, TypeOK, SchedInv
<1>8. DeadTasksHoldNothing'
  BY <1>0, <1>4, <1>5 DEF Inv, DeadTasksHoldNothing
<1>9. ChildrenUnique'
  <2>1. \A t \in Ids : subtask_id[t] \in Int /\ subtask_id[t] <= latest_id_ /\ latest_id_ \in Int
    BY DEF Inv, ChildrenUnique, TypeOK, Ids, IdOrNone
  <2>2. \A t \in Ids : subtask_id'[t] <= n
    BY <1>5, <2>1
  <2>3. \A t, u \in Ids : (subtask_id'[t] # None /\ subtask_id'[t] = subtask_id'[u]) => t = u
    <3>1. \A t \in Ids : subtask_id[t] # n
      BY <2>1
    <3> HIDE DEF n
    <3> QED BY <1>5, <3>1 DEF Inv, ChildrenUnique
  <2>4. \A t \in Ids : waiting'[t] => subtask_id'[t] # None
    BY <1>0, <1>4, <1>5 DEF Inv, ChildrenUnique
  <2>5. subtask_id'[Idle] = None
    BY <1>0, <1>5 DEF Inv, ChildrenUnique, Idle, Ids
  <2> QED BY <1>4, <2>2, <2>3, <2>4, <2>5 DEF ChildrenUnique
<1>10. NoLostWakeup'
  BY <1>1, <1>4 DEF Inv, NoLostWakeup
<1>11. SleepingWaiterRegistered'
  BY <1>0, <1>1, <1>2, <1>4, <1>5 DEF Inv, SleepingWaiterRegistered
<1>12. WaiterIsLive'
  <2> SUFFICES ASSUME NEW k \in Ids, finish_waiter_[k] # None
               PROVE  /\ finish_waiter_[k] \in tasks_' /\ waiting[finish_waiter_[k]]
                      /\ subtask_id'[finish_waiter_[k]] = k /\ k \in tasks_'
    BY <1>4 DEF WaiterIsLive
  <2>1. /\ finish_waiter_[k] \in tasks_ /\ waiting[finish_waiter_[k]]
        /\ subtask_id[finish_waiter_[k]] = k /\ k \in tasks_
    BY DEF Inv, WaiterIsLive
  <2> QED BY <1>0, <1>1, <1>4, <1>5, <2>1
<1>13. ExitCodeKept'
  BY <1>1, <1>4, <1>5 DEF Inv, ExitCodeKept, DeadTasksHoldNothing
<1> QED BY <1>1, <1>6, <1>8, <1>9, <1>10, <1>11, <1>12, <1>13 DEF Inv


\* A timer switch changes no flag, so only the scheduler's part is at stake.
LEMMA SwitchTaskInv == Inv /\ SwitchTask => Inv'
<1> SUFFICES ASSUME Inv, SwitchTask PROVE Inv'
  OBVIOUS
<1>1. SchedInv(sched') /\ sched'.Running = sched.Running
  BY RotateKeepsInv DEF Inv, SwitchTask
<1>2. UNCHANGED <<tasks_, latest_id_, msgs_, finish_tasks_, finish_waiter_, subtask_id, waiting>>
  BY DEF SwitchTask
<1>3. TypeOK'
  BY <1>1, <1>2 DEF Inv, TypeOK, SchedInv
<1>4. LiveTasks' /\ DeadTasksHoldNothing' /\ ChildrenUnique'
  BY <1>1, <1>2 DEF Inv, LiveTasks, DeadTasksHoldNothing, ChildrenUnique
<1>5. NoLostWakeup' /\ SleepingWaiterRegistered' /\ WaiterIsLive' /\ ExitCodeKept'
  BY <1>1, <1>2 DEF Inv, NoLostWakeup, SleepingWaiterRegistered, WaiterIsLive, ExitCodeKept
<1> QED BY <1>1, <1>3, <1>4, <1>5 DEF Inv

\* A message is pushed and its receiver is running afterwards.
LEMMA SendMessageInv == ASSUME NEW t \in Ids PROVE Inv /\ SendMessage(t) => Inv'
<1> SUFFICES ASSUME Inv, SendMessage(t) PROVE Inv'
  OBVIOUS
<1>1. SchedInv(sched') /\ sched'.Running = [sched.Running EXCEPT ![t] = TRUE]
  BY WakeupKeepsInv DEF Inv, SendMessage
<1>2. /\ sched'.Running[t]
      /\ \A u \in Ids : u # t => sched'.Running[u] = sched.Running[u]
  BY <1>1 DEF Inv, SchedInv, Sched
<1>3. /\ t \in tasks_ /\ tasks_ \subseteq Ids
      /\ msgs_' = [msgs_ EXCEPT ![t] = msgs_[t] + 1] /\ msgs_[t] < MaxMsgs
      /\ UNCHANGED <<tasks_, latest_id_, finish_tasks_, finish_waiter_, subtask_id, waiting>>
  BY DEF SendMessage, Inv, TypeOK
<1>4. /\ msgs_' \in [Ids -> 0 .. MaxMsgs]
      /\ \A u \in Ids : u # t => msgs_'[u] = msgs_[u]
  BY <1>3 DEF Inv, TypeOK
<1>5. TypeOK'
  BY <1>1, <1>3, <1>4 DEF Inv, TypeOK, SchedInv
<1>6. LiveTasks' /\ DeadTasksHoldNothing' /\ ChildrenUnique'
  BY <1>2, <1>3, <1>4 DEF Inv, LiveTasks, DeadTasksHoldNothing, ChildrenUnique
<1>7. NoLostWakeup' /\ SleepingWaiterRegistered'
  BY <1>2, <1>3, <1>4 DEF Inv, NoLostWakeup, SleepingWaiterRegistered
<1>8. WaiterIsLive' /\ ExitCodeKept'
  BY <1>3 DEF Inv, WaiterIsLive, ExitCodeKept
<1> QED BY <1>1, <1>5, <1>6, <1>7, <1>8 DEF Inv

\* Taking a message shortens one queue of messages.
LEMMA ReceiveMessageInv == Inv /\ ReceiveMessage => Inv'
<1> SUFFICES ASSUME Inv, ReceiveMessage PROVE Inv'
  OBVIOUS
<1> DEFINE c == Cur
<1>1. c \in Ids /\ sched.Running[c] /\ c \in tasks_
  BY CurIsLive
<1>2. /\ msgs_' = [msgs_ EXCEPT ![c] = msgs_[c] - 1] /\ msgs_[c] > 0
      /\ UNCHANGED <<sched, tasks_, latest_id_, finish_tasks_, finish_waiter_, subtask_id, waiting>>
  BY DEF ReceiveMessage
<1> HIDE DEF c
<1>3. /\ msgs_' \in [Ids -> 0 .. MaxMsgs]
      /\ \A u \in Ids : u # c => msgs_'[u] = msgs_[u]
  BY <1>1, <1>2 DEF Inv, TypeOK
<1>4. TypeOK' /\ SchedInv(sched)'
  BY <1>2, <1>3 DEF Inv, TypeOK
<1>5. LiveTasks' /\ DeadTasksHoldNothing' /\ ChildrenUnique'
  BY <1>1, <1>2, <1>3 DEF Inv, LiveTasks, DeadTasksHoldNothing, ChildrenUnique
<1>6. NoLostWakeup'
  BY <1>1, <1>2, <1>3 DEF Inv, NoLostWakeup, TypeOK
<1>7. SleepingWaiterRegistered' /\ WaiterIsLive' /\ ExitCodeKept'
  BY <1>2 DEF Inv, SleepingWaiterRegistered, WaiterIsLive, ExitCodeKept
<1> QED BY <1>4, <1>5, <1>6, <1>7 DEF Inv

\* The current task sleeps with an empty message queue and outside WaitFinish.
LEMMA SleepOnEmptyInv == Inv /\ SleepOnEmpty => Inv'
<1> SUFFICES ASSUME Inv, SleepOnEmpty PROVE Inv'
  OBVIOUS
<1> DEFINE c == Cur
<1>1. c \in Ids /\ c # Idle /\ ~waiting[c] /\ msgs_[c] = 0
  BY CurIsLive DEF SleepOnEmpty, Unmasked
<1>2. SchedInv(sched') /\ sched'.Running = [sched.Running EXCEPT ![c] = FALSE]
  BY <1>1, SleepKeepsInv DEF Inv, SleepOnEmpty, Cur
<1>3. UNCHANGED <<tasks_, latest_id_, msgs_, finish_tasks_, finish_waiter_, subtask_id, waiting>>
  BY DEF SleepOnEmpty
<1> HIDE DEF c
<1>4. ~sched'.Running[c] /\ \A u \in Ids : u # c => sched'.Running[u] = sched.Running[u]
  BY <1>1, <1>2 DEF Inv, SchedInv, Sched
<1>5. TypeOK'
  BY <1>2, <1>3 DEF Inv, TypeOK, SchedInv
<1>6. LiveTasks' /\ DeadTasksHoldNothing' /\ ChildrenUnique'
  BY <1>3, <1>4 DEF Inv, LiveTasks, DeadTasksHoldNothing, ChildrenUnique
<1>7. NoLostWakeup' /\ SleepingWaiterRegistered'
  BY <1>1, <1>3, <1>4 DEF Inv, NoLostWakeup, SleepingWaiterRegistered, TypeOK
<1>8. WaiterIsLive' /\ ExitCodeKept'
  BY <1>3 DEF Inv, WaiterIsLive, ExitCodeKept
<1> QED BY <1>2, <1>5, <1>6, <1>7, <1>8 DEF Inv


\* WaitFinish takes the code of a dead child, for which nobody is registered
\* any more, or registers with a live child before it sleeps.
LEMMA WaitFinishInv == Inv /\ WaitFinish => Inv'
<1> SUFFICES ASSUME Inv, WaitFinish PROVE Inv'
  OBVIOUS
<1> DEFINE c == Cur
           k == subtask_id[c]
<1>1. c \in Ids /\ sched.Running[c] /\ c \in tasks_ /\ tasks_ \subseteq Ids
  BY CurIsLive DEF Inv, TypeOK
<1>2. k # None /\ k \in Ids /\ c # Idle
  BY <1>1, SMTT(30) DEF WaitFinish, Inv, TypeOK, ChildrenUnique, Ids, IdOrNone, None
<1>3. \A t \in Ids : (t # c /\ subtask_id[t] # None) => subtask_id[t] # k
  BY <1>1, <1>2 DEF Inv, ChildrenUnique
<1>4. UNCHANGED <<tasks_, latest_id_, msgs_>>
  BY DEF WaitFinish
<1>5. CASE k \in finish_tasks_
  <2>1. /\ finish_tasks_' = finish_tasks_ \ {k}
        /\ subtask_id' = [subtask_id EXCEPT ![c] = None]
        /\ waiting' = [waiting EXCEPT ![c] = FALSE]
        /\ UNCHANGED <<sched, finish_waiter_>>
    BY <1>5 DEF WaitFinish
  <2>2. k \notin tasks_
    BY <1>5 DEF Inv, LiveTasks
  <2>3. \A j \in Ids : finish_waiter_[j] # c
    BY <1>1, <2>2 DEF Inv, WaiterIsLive, None, Ids
  <2> HIDE DEF c, k
  <2>4. /\ subtask_id' \in [Ids -> IdOrNone] /\ waiting' \in [Ids -> BOOLEAN]
        /\ subtask_id'[c] = None /\ ~waiting'[c]
        /\ \A t \in Ids : t # c => subtask_id'[t] = subtask_id[t] /\ waiting'[t] = waiting[t]
    BY <1>1, <2>1 DEF Inv, TypeOK, IdOrNone, None
  <2>5. TypeOK' /\ SchedInv(sched)'
    BY <1>4, <2>1, <2>4 DEF Inv, TypeOK
  <2>6. LiveTasks' /\ DeadTasksHoldNothing'
    BY <1>1, <1>4, <2>1, <2>4 DEF Inv, LiveTasks, DeadTasksHoldNothing
  <2>7. ChildrenUnique'
    <3>1. \A t \in Ids : subtask_id'[t] <= latest_id_'
      BY <1>4, <2>4 DEF Inv, ChildrenUnique, TypeOK, None, Ids
    <3>2. \A t, u \in Ids : (subtask_id'[t] # None /\ subtask_id'[t] = subtask_id'[u]) => t = u
      BY <2>4 DEF Inv, ChildrenUnique
    <3>3. \A t \in Ids : waiting'[t] => subtask_id'[t] # None
      BY <2>4 DEF Inv, ChildrenUnique
    <3>4. subtask_id'[Idle] = None
      BY <1>2, <2>4 DEF Inv, ChildrenUnique, Idle, Ids
    <3> QED BY <3>1, <3>2, <3>3, <3>4 DEF ChildrenUnique
  <2>8. NoLostWakeup'
    BY <1>1, <1>4, <2>1, <2>4 DEF Inv, NoLostWakeup
  <2>9. SleepingWaiterRegistered'
    BY <1>1, <1>4, <2>1, <2>4 DEF Inv, SleepingWaiterRegistered
  <2>10. WaiterIsLive'
    <3> SUFFICES ASSUME NEW j \in Ids, finish_waiter_[j] # None
                 PROVE  /\ finish_waiter_[j] \in tasks_ /\ waiting'[finish_waiter_[j]]
                        /\ subtask_id'[finish_waiter_[j]] = j /\ j \in tasks_
      BY <1>4, <2>1 DEF WaiterIsLive
    <3>1. /\ finish_waiter_[j] \in tasks_ /\ waiting[finish_waiter_[j]]
          /\ subtask_id[finish_waiter_[j]] = j /\ j \in tasks_
      BY DEF Inv, WaiterIsLive
    <3> QED BY <1>1, <2>3, <2>4, <3>1
  <2>11. ExitCodeKept'
    <3> SUFFICES ASSUME NEW t \in tasks_, subtask_id'[t] # None
                 PROVE  subtask_id'[t] \in tasks_ \cup (finish_tasks_ \ {k})
      BY <1>4, <2>1 DEF ExitCodeKept
    <3>1. t \in Ids /\ t # c /\ subtask_id'[t] = subtask_id[t]
      BY <1>1, <2>4
    <3>2. subtask_id[t] \in tasks_ \cup finish_tasks_ /\ subtask_id[t] # k
      BY <1>3, <3>1 DEF Inv, ExitCodeKept
    <3> QED BY <3>1, <3>2
  <2> QED BY <2>5, <2>6, <2>7, <2>8, <2>9, <2>10, <2>11 DEF Inv
<1>6. CASE k \notin finish_tasks_
  <2>1. /\ finish_waiter_' = [finish_waiter_ EXCEPT ![k] = c]
        /\ waiting' = [waiting EXCEPT ![c] = TRUE]
        /\ sched' = Sleep(sched, c)
        /\ UNCHANGED <<finish_tasks_, subtask_id>>
    BY <1>6 DEF WaitFinish
  <2>2. k \in tasks_
    BY <1>1, <1>2, <1>6 DEF Inv, ExitCodeKept
  <2>3. SchedInv(sched') /\ sched'.Running = [sched.Running EXCEPT ![c] = FALSE]
    BY <1>2, <2>1, SleepKeepsInv DEF Inv, Cur
  <2> HIDE DEF c
  <2>4. ~sched'.Running[c] /\ \A u \in Ids : u # c => sched'.Running[u] = sched.Running[u]
    BY <1>1, <2>3 DEF Inv, SchedInv, Sched
  <2>5. /\ waiting' \in [Ids -> BOOLEAN] /\ waiting'[c]
        /\ \A t \in Ids : t # c => waiting'[t] = waiting[t]
    BY <1>1, <2>1 DEF Inv, TypeOK
  <2>6. /\ finish_waiter_' \in [Ids -> IdOrNone] /\ finish_waiter_'[k] = c
        /\ \A j \in Ids : j # k => finish_waiter_'[j] = finish_waiter_[j]
    <3> HIDE DEF k
    <3> QED BY <1>1, <1>2, <2>1, SMTT(30) DEF Inv, TypeOK, Ids, IdOrNone
  <2>7. TypeOK'
    BY <1>4, <2>1, <2>3, <2>5, <2>6 DEF Inv, TypeOK, SchedInv
  <2>8. LiveTasks' /\ DeadTasksHoldNothing'
    BY <1>1, <1>4, <2>1, <2>4, <2>5 DEF Inv, LiveTasks, DeadTasksHoldNothing
  <2>9. ChildrenUnique'
    BY <1>2, <1>4, <2>1, <2>5 DEF Inv, ChildrenUnique
  <2>10. NoLostWakeup'
    BY <1>1, <1>4, <2>4, <2>5 DEF Inv, NoLostWakeup
  <2>11. SleepingWaiterRegistered'
    <3> SUFFICES ASSUME NEW t \in tasks_, waiting'[t], ~sched'.Running[t]
                 PROVE  subtask_id[t] \in tasks_ /\ finish_waiter_'[subtask_id[t]] = t
      BY <1>4, <2>1 DEF SleepingWaiterRegistered
    <3>1. CASE t = c
      BY <2>2, <2>6, <3>1
    <3>2. CASE t # c
      <4>1. /\ subtask_id[t] \in tasks_ /\ finish_waiter_[subtask_id[t]] = t
            /\ subtask_id[t] # None
        BY <1>1, <2>4, <2>5, <3>2 DEF Inv, SleepingWaiterRegistered, ChildrenUnique
      <4>2. subtask_id[t] # k
        BY <1>1, <1>3, <3>2, <4>1
      <4> QED BY <1>1, <2>6, <4>1, <4>2
    <3> QED BY <3>1, <3>2
  <2>12. WaiterIsLive'
    <3> SUFFICES ASSUME NEW j \in Ids, finish_waiter_'[j] # None
                 PROVE  /\ finish_waiter_'[j] \in tasks_ /\ waiting'[finish_waiter_'[j]]
                        /\ subtask_id[finish_waiter_'[j]] = j /\ j \in tasks_
      BY <1>4, <2>1 DEF WaiterIsLive
    <3>1. CASE j = k
      BY <1>1, <2>2, <2>5, <2>6, <3>1
    <3>2. CASE j # k
      <4>1. finish_waiter_'[j] = finish_waiter_[j]
        BY <2>6, <3>2
      <4>2. /\ finish_waiter_[j] \in tasks_ /\ waiting[finish_waiter_[j]]
            /\ subtask_id[finish_waiter_[j]] = j /\ j \in tasks_
        BY <4>1 DEF Inv, WaiterIsLive
      <4> QED BY <1>1, <2>5, <4>1, <4>2
    <3> QED BY <3>1, <3>2
  <2>13. ExitCodeKept'
    BY <1>4, <2>1 DEF Inv, ExitCodeKept
  <2> QED BY <2>3, <2>7, <2>8, <2>9, <2>10, <2>11, <2>12, <2>13 DEF Inv
<1> QED BY <1>5, <1>6


\* Finish removes the current task, which nobody has registered as a waiter,
\* and wakes the one task that waits for it.
LEMMA FinishInv == Inv /\ Finish => Inv'
<1> SUFFICES ASSUME Inv, Finish PROVE Inv'
  OBVIOUS
<1> DEFINE c == Cur
           w == finish_waiter_[c]
           left == Leave(sched, c)
<1>1. /\ c \in Ids /\ sched.Running[c] /\ c \in tasks_ /\ tasks_ \subseteq Ids
      /\ c # Main /\ c # Idle /\ ~waiting[c] /\ subtask_id[c] = None
  BY CurIsLive DEF Inv, TypeOK, Finish, Unmasked
<1>2. /\ tasks_' = tasks_ \ {c}
      /\ msgs_' = [msgs_ EXCEPT ![c] = 0]
      /\ finish_tasks_' = finish_tasks_ \cup {c}
      /\ finish_waiter_' = [finish_waiter_ EXCEPT ![c] = None]
      /\ sched' = IF w = None THEN left ELSE Wakeup(left, w, -1)
      /\ UNCHANGED <<latest_id_, subtask_id, waiting>>
  BY DEF Finish
<1>3. SchedInv(left) /\ left.Running = [sched.Running EXCEPT ![c] = FALSE]
  BY <1>1, SleepKeepsInv DEF Inv, Cur
<1>4. w # None => w \in tasks_ /\ waiting[w] /\ subtask_id[w] = c /\ w # c
  BY <1>1 DEF Inv, WaiterIsLive
<1> HIDE DEF c, left
<1>5. ~left.Running[c] /\ \A u \in Ids : u # c => left.Running[u] = sched.Running[u]
  BY <1>1, <1>3 DEF Inv, SchedInv, Sched
<1>6. /\ SchedInv(sched')
      /\ ~sched'.Running[c]
      /\ w # None => sched'.Running[w]
      /\ \A u \in Ids : (u # c /\ u # w) => sched'.Running[u] = sched.Running[u]
  <2>1. CASE w = None
    BY <1>2, <1>3, <1>5, <2>1
  <2>2. CASE w # None
    <3> HIDE DEF w
    <3>1. SchedInv(sched') /\ sched'.Running = [left.Running EXCEPT ![w] = TRUE]
      BY <1>1, <1>2, <1>3, <1>4, <2>2, WakeupKeepsInv
    <3>2. left.Running \in [Ids -> BOOLEAN] /\ w \in Ids /\ w # c
      BY <1>1, <1>3, <1>4, <2>2 DEF SchedInv, Sched
    <3> QED BY <1>1, <1>5, <3>1, <3>2
  <2> QED BY <2>1, <2>2
<1>7. /\ msgs_' \in [Ids -> 0 .. MaxMsgs] /\ msgs_'[c] = 0
      /\ \A u \in Ids : u # c => msgs_'[u] = msgs_[u]
  BY <1>1, <1>2 DEF Inv, TypeOK
<1>8. /\ finish_waiter_' \in [Ids -> IdOrNone] /\ finish_waiter_'[c] = None
      /\ \A u \in Ids : u # c => finish_waiter_'[u] = finish_waiter_[u]
  BY <1>1, <1>2 DEF Inv, TypeOK, IdOrNone, None
<1>9. TypeOK'
  BY <1>1, <1>2, <1>6, <1>7, <1>8 DEF Inv, TypeOK, SchedInv
<1>10. LiveTasks'
  <2>1. /\ tasks_' \subseteq 1 .. latest_id_ /\ latest_id_ >= 2
        /\ Main \in tasks_' /\ Idle \in tasks_'
        /\ finish_tasks_' \subseteq (1 .. latest_id_) \ tasks_'
    BY <1>1, <1>2 DEF Inv, LiveTasks
  <2>2. \A t \in Ids : sched'.Running[t] => t \in tasks_'
    <3> SUFFICES ASSUME NEW t \in Ids, sched'.Running[t] PROVE t \in tasks_ /\ t # c
      BY <1>2
    <3>1. t # c
      BY <1>6
    <3>2. CASE t = w /\ w # None
      BY <1>4, <3>1, <3>2
    <3>3. CASE t # w \/ w = None
      <4>1. t # w
        BY <3>3 DEF Ids, None
      <4>2. sched.Running[t]
        BY <1>6, <3>1, <4>1
      <4> QED BY <3>1, <4>2 DEF Inv, LiveTasks
    <3> QED BY <3>2, <3>3
  <2> QED BY <1>2, <2>1, <2>2 DEF LiveTasks
<1>11. DeadTasksHoldNothing'
  BY <1>1, <1>2, <1>7 DEF Inv, DeadTasksHoldNothing
<1>12. ChildrenUnique'
  BY <1>2 DEF Inv, ChildrenUnique
<1>13. NoLostWakeup'
  <2> SUFFICES ASSUME NEW t \in tasks_, t # c, ~sched'.Running[t], ~waiting[t]
               PROVE  msgs_'[t] = 0
    BY <1>2 DEF NoLostWakeup
  <2>0. t # None
    BY <1>1 DEF Ids, None
  <2>1. t # w
    BY <1>6, <2>0
  <2> QED BY <1>1, <1>6, <1>7, <2>1 DEF Inv, NoLostWakeup
<1>14. SleepingWaiterRegistered'
  <2> SUFFICES ASSUME NEW t \in tasks_, t # c, waiting[t], ~sched'.Running[t]
               PROVE  /\ subtask_id[t] \in tasks_ \ {c}
                      /\ finish_waiter_'[subtask_id[t]] = t
    BY <1>2 DEF SleepingWaiterRegistered
  <2>1. t \in Ids /\ t # None
    BY <1>1 DEF Ids, None
  <2>2. t # w
    BY <1>6, <2>1
  <2>3. ~sched.Running[t]
    BY <1>6, <2>1, <2>2
  <2>4. subtask_id[t] \in tasks_ /\ finish_waiter_[subtask_id[t]] = t
    BY <2>3 DEF Inv, SleepingWaiterRegistered
  <2>5. subtask_id[t] # c
    BY <2>2, <2>4
  <2> QED BY <1>1, <1>8, <2>4, <2>5
<1>15. WaiterIsLive'
  <2> SUFFICES ASSUME NEW j \in Ids, finish_waiter_'[j] # None
               PROVE  /\ finish_waiter_'[j] \in tasks_ \ {c} /\ waiting[finish_waiter_'[j]]
                      /\ subtask_id[finish_waiter_'[j]] = j /\ j \in tasks_ \ {c}
    BY <1>2 DEF WaiterIsLive
  <2>1. j # c /\ finish_waiter_'[j] = finish_waiter_[j]
    BY <1>8
  <2>2. /\ finish_waiter_[j] \in tasks_ /\ waiting[finish_waiter_[j]]
        /\ subtask_id[finish_waiter_[j]] = j /\ j \in tasks_
    BY <2>1 DEF Inv, WaiterIsLive
  <2> QED BY <1>1, <2>1, <2>2
<1>16. ExitCodeKept'
  BY <1>2 DEF Inv, ExitCodeKept
<1> QED BY <1>6, <1>9, <1>10, <1>11, <1>12, <1>13, <1>14, <1>15, <1>16 DEF Inv

\* Every step of the specification preserves the invariant.
LEMMA NextInv == Inv /\ [Next]_vars => Inv'
<1> SUFFICES ASSUME Inv, [Next]_vars PROVE Inv'
  OBVIOUS
<1>1. CASE NewTask
  BY <1>1, NewTaskInv
<1>2. CASE NewSubtask
  BY <1>2, NewSubtaskInv
<1>3. CASE SwitchTask
  BY <1>3, SwitchTaskInv
<1>4. ASSUME NEW t \in Ids, SendMessage(t) PROVE Inv'
  BY <1>4, SendMessageInv
<1>5. CASE ReceiveMessage
  BY <1>5, ReceiveMessageInv
<1>6. CASE SleepOnEmpty
  BY <1>6, SleepOnEmptyInv
<1>7. CASE WaitFinish
  BY <1>7, WaitFinishInv
<1>8. CASE Finish
  BY <1>8, FinishInv
<1>9. CASE UNCHANGED vars
  BY <1>9 DEF vars, Inv, TypeOK, LiveTasks, DeadTasksHoldNothing, ChildrenUnique,
              NoLostWakeup, SleepingWaiterRegistered, WaiterIsLive, ExitCodeKept
<1> QED BY <1>1, <1>2, <1>3, <1>4, <1>5, <1>6, <1>7, <1>8, <1>9 DEF Next

\* The inductive invariant holds in every reachable state.
LEMMA SpecInv == Spec => []Inv
BY InitInv, NextInv, PTL DEF Spec

-----------------------------------------------------------------------------
(* Theorems. *)

\* Type correctness of the scheduler's state.
THEOREM TypeCorrect == Spec => []TypeOK
<1>1. Inv => TypeOK
  BY DEF Inv
<1> QED BY <1>1, SpecInv, PTL

\* Run queues, running flags, levels and level_changed_ agree, CurrentTask never
\* reads an empty deque or a destroyed task, and a runnable task above the
\* current level is always announced, for any number of tasks and levels.
THEOREM SchedulerAlwaysConsistent == Spec => []SchedulerConsistent
<1>1. Inv => QueueConsistent
  BY DEF Inv, SchedInv, QueueConsistent
<1>2. Inv => CurrentIsLive
  BY DEF Inv, SchedInv, LiveTasks, CurrentIsLive
<1>3. Inv => HigherLevelFlagged
  BY DEF Inv, SchedInv, HigherLevelFlagged
<1>4. Inv => SchedulerConsistent
  BY <1>1, <1>2, <1>3 DEF SchedulerConsistent
<1> QED BY <1>4, SpecInv, PTL

\* No message is left with a task that sleeps in its receive loop.
THEOREM WakeupNeverLost == Spec => []NoLostWakeup
<1>1. Inv => NoLostWakeup
  BY DEF Inv
<1> QED BY <1>1, SpecInv, PTL

\* WaitFinish: sleepers are registered, registrations do not dangle, and no
\* exit code is lost.
THEOREM WaitFinishSafe == Spec => []ExitProtocol
<1>1. Inv => ExitProtocol
  BY DEF Inv, ExitProtocol
<1> QED BY <1>1, SpecInv, PTL

\* A timer switch, or a task going to sleep, gives the processor to the
\* highest level that has a running task.
THEOREM RescheduleCorrect == Spec => RescheduleRunsHighest
<1>1. Inv /\ [Next]_vars => [SwitchTask \/ SleepOnEmpty => RunsHighest(sched')]_vars
  <2> SUFFICES ASSUME Inv, SwitchTask \/ SleepOnEmpty PROVE RunsHighest(sched')
    OBVIOUS
  <2>1. CASE SwitchTask
    BY <2>1, RotateKeepsInv DEF SwitchTask, Inv
  <2>2. CASE SleepOnEmpty
    BY <2>2, SleepKeepsInv DEF SleepOnEmpty, Inv, Cur
  <2> QED BY <2>1, <2>2
<1> QED BY <1>1, SpecInv, PTL DEF Spec, RescheduleRunsHighest

=============================================================================
