---------------------------- MODULE TaskManager ----------------------------
(***************************************************************************)
(* The preemptive priority scheduler of kernel/task.cpp.                   *)
(*                                                                         *)
(* The kernel runs on one processor.  The processor executes the task at   *)
(* the front of running_[current_level_]; the only other actor is an       *)
(* interrupt handler (the timer's SwitchTask, or a handler that sends a    *)
(* message), which runs between two instructions of the current task       *)
(* unless that task has masked interrupts.  A critical section between     *)
(* "cli" and "sti" is therefore one action here.                           *)
(*                                                                         *)
(* The five fields of TaskManager and Task that decide who runs form the   *)
(* record sched, and every member function that changes them is an         *)
(* operator from such a record to the next, named as in the source, so     *)
(* that a function which calls another is a composition of operators.      *)
(*                                                                         *)
(* A message is abstracted to its presence in msgs_ (nothing here depends  *)
(* on its content) and finish_tasks_ to the set of its keys.               *)
(***************************************************************************)
EXTENDS Integers, Sequences, FiniteSets

CONSTANTS kMaxLevel,      \* highest scheduling level, 3 in the source
          kDefaultLevel,  \* level of a new task, 1 in the source
          MaxTasks,       \* bound: task ids handed out by NewTask
          MaxMsgs         \* bound: messages queued for one task

ASSUME LevelAssumption ==
  /\ kMaxLevel \in Nat
  /\ kDefaultLevel \in 1 .. kMaxLevel

ASSUME BoundAssumption ==
  /\ MaxTasks \in Nat /\ MaxTasks >= 2
  /\ MaxMsgs \in Nat

Ids == 1 .. MaxTasks
Levels == 0 .. kMaxLevel
None == 0
IdOrNone == 0 .. MaxTasks

Main == 1     \* the task that runs KernelMainNewStack's event loop
Idle == 2     \* TaskIdle: halts for ever

VARIABLES
  \* run queues, current_level_, level_changed_, and each task's level and
  \* running flag (Level() and Running() in task.hpp)
  sched,
  \* live tasks, the last id handed out, length of each task's msgs_
  tasks_, latest_id_, msgs_,
  \* ids whose exit code waits to be collected; task registered per child
  finish_tasks_, finish_waiter_,
  \* the tasks themselves: the pipe child ExecuteLine has started and not
  \* yet collected, and whether the task sits in the loop of WaitFinish
  subtask_id, waiting

vars == <<sched, tasks_, latest_id_, msgs_, finish_tasks_, finish_waiter_,
          subtask_id, waiting>>

Sched == [running_       : [Levels -> Seq(Ids)],
          current_level_ : Levels,
          level_changed_ : BOOLEAN,
          Level          : [Ids -> Levels],
          Running        : [Ids -> BOOLEAN]]

-----------------------------------------------------------------------------
(* The scheduler's member functions. *)

CurrentTask(s) == Head(s.running_[s.current_level_])

\* The loop of RotateCurrentRunQueue that looks for the level to run next:
\* it keeps the current level if every queue is empty.
HighestNonEmpty(queues, current) ==
  IF \E lv \in Levels : queues[lv] # <<>>
  THEN CHOOSE lv \in Levels : /\ queues[lv] # <<>>
                              /\ \A m \in Levels : m > lv => queues[m] = <<>>
  ELSE current

\* Mutant of RotateCurrentRunQueue: push_front instead of push_back.
RotateToFront(s, current_sleep) ==
  LET q       == s.running_[s.current_level_]
      rotated == IF current_sleep THEN Tail(q) ELSE q
      queues  == [s.running_ EXCEPT ![s.current_level_] = rotated]
  IN  [s EXCEPT !.running_ = queues, !.level_changed_ = FALSE,
                !.current_level_ = IF s.level_changed_ \/ rotated = <<>>
                                   THEN HighestNonEmpty(queues, @) ELSE @]

RotateCurrentRunQueue(s, current_sleep) ==
  LET q       == s.running_[s.current_level_]
      rotated == IF current_sleep THEN Tail(q) ELSE Append(Tail(q), Head(q))
      queues  == [s.running_ EXCEPT ![s.current_level_] = rotated]
      changed == s.level_changed_ \/ rotated = <<>>
  IN  [running_       |-> queues,
       current_level_ |-> IF changed THEN HighestNonEmpty(queues, s.current_level_)
                          ELSE s.current_level_,
       level_changed_ |-> FALSE,
       Level          |-> s.Level,
       Running        |-> s.Running]

\* The template Erase: every occurrence of the task leaves the queue.
Erase(q, t) == SelectSeq(q, LAMBDA x : x # t)

SetRunning(s, t, running) ==
  [running_       |-> s.running_,
   current_level_ |-> s.current_level_,
   level_changed_ |-> s.level_changed_,
   Level          |-> s.Level,
   Running        |-> [s.Running EXCEPT ![t] = running]]

\* Mutant of Sleep: the running flag is not cleared.
SleepKeepsFlag(s, t) ==
  IF ~s.Running[t] THEN s
  ELSE IF t = CurrentTask(s) THEN RotateCurrentRunQueue(s, TRUE)
  ELSE [s EXCEPT !.running_[s.Level[t]] = Erase(@, t)]

Sleep(s, t) ==
  IF ~s.Running[t] THEN s
  ELSE IF t = CurrentTask(s) THEN RotateCurrentRunQueue(SetRunning(s, t, FALSE), TRUE)
  ELSE [SetRunning(s, t, FALSE) EXCEPT !.running_ =
          [s.running_ EXCEPT ![s.Level[t]] = Erase(s.running_[s.Level[t]], t)]]

\* As in the source, moving a task that is not current leaves its Level alone.
ChangeLevelRunning(s, t, level) ==
  IF level < 0 \/ level = s.Level[t] THEN s
  ELSE IF t # CurrentTask(s)
  THEN LET erased == [s.running_ EXCEPT ![s.Level[t]] = Erase(s.running_[s.Level[t]], t)]
       IN  [running_       |-> [erased EXCEPT ![level] = Append(erased[level], t)],
            current_level_ |-> s.current_level_,
            level_changed_ |-> s.level_changed_ \/ level > s.current_level_,
            Level          |-> s.Level,
            Running        |-> s.Running]
  ELSE LET popped == [s.running_ EXCEPT ![s.current_level_] = Tail(s.running_[s.current_level_])]
       IN  [running_       |-> [popped EXCEPT ![level] = <<t>> \o popped[level]],
            current_level_ |-> level,
            level_changed_ |-> s.level_changed_ \/ level < s.current_level_,
            Level          |-> [s.Level EXCEPT ![t] = level],
            Running        |-> s.Running]

\* Mutant of Wakeup: a task above the current level is not announced.
WakeupWithoutFlag(s, t, level) ==
  IF s.Running[t] THEN s
  ELSE [s EXCEPT !.Running[t] = TRUE, !.running_[s.Level[t]] = Append(@, t)]

Wakeup(s, t, level) ==
  LET lv == IF level < 0 THEN s.Level[t] ELSE level
  IN  IF s.Running[t] THEN ChangeLevelRunning(s, t, level)
      ELSE [running_       |-> [s.running_ EXCEPT ![lv] = Append(s.running_[lv], t)],
            current_level_ |-> s.current_level_,
            level_changed_ |-> s.level_changed_ \/ lv > s.current_level_,
            Level          |-> [s.Level EXCEPT ![t] = lv],
            Running        |-> [s.Running EXCEPT ![t] = TRUE]]

-----------------------------------------------------------------------------
(* The constructor: the main task, then the idle task, both running. *)

Init ==
  /\ sched = [running_       |-> [lv \in Levels |-> IF lv = kMaxLevel THEN <<Main>>
                                                    ELSE IF lv = 0 THEN <<Idle>>
                                                    ELSE <<>>],
              current_level_ |-> kMaxLevel,
              level_changed_ |-> FALSE,
              Level          |-> [t \in Ids |-> IF t = Main THEN kMaxLevel
                                                ELSE IF t = Idle THEN 0
                                                ELSE kDefaultLevel],
              Running        |-> [t \in Ids |-> t \in {Main, Idle}]]
  /\ tasks_ = {Main, Idle}
  /\ latest_id_ = Idle
  /\ msgs_ = [t \in Ids |-> 0]
  /\ finish_tasks_ = {}
  /\ finish_waiter_ = [t \in Ids |-> None]
  /\ subtask_id = [t \in Ids |-> None]
  /\ waiting = [t \in Ids |-> FALSE]

\* The task on the processor.
Cur == CurrentTask(sched)

\* WaitFinish runs its whole loop with interrupts masked, and a context that
\* was left with interrupts masked is resumed with them masked.
Unmasked == ~waiting[Cur]

\* NewTask, InitContext and Wakeup, as main.cpp and terminal.cpp chain them.
StartTask ==
  /\ latest_id_ < MaxTasks
  /\ latest_id_' = latest_id_ + 1
  /\ tasks_' = tasks_ \cup {latest_id_ + 1}
  /\ sched' = Wakeup(sched, latest_id_ + 1, -1)

\* Key F2 in the main loop, or the command noterm: nobody collects the task.
NewTask ==
  /\ Cur # Idle /\ Unmasked
  /\ StartTask
  /\ UNCHANGED <<msgs_, finish_tasks_, finish_waiter_, subtask_id, waiting>>

\* A command line with a pipe: the terminal task starts the right-hand side.
NewSubtask ==
  /\ Cur \notin {Main, Idle} /\ Unmasked
  /\ subtask_id[Cur] = None
  /\ StartTask
  /\ subtask_id' = [subtask_id EXCEPT ![Cur] = latest_id_ + 1]
  /\ UNCHANGED <<msgs_, finish_tasks_, finish_waiter_, waiting>>

\* The task timer expired in the timer interrupt.
SwitchTask ==
  /\ Unmasked
  /\ sched' = RotateCurrentRunQueue(sched, FALSE)
  /\ UNCHANGED <<tasks_, latest_id_, msgs_, finish_tasks_, finish_waiter_,
                 subtask_id, waiting>>

\* SendMessage by id, from an interrupt handler or from the current task.
\* For an id that is not live it returns kNoSuchTask and changes nothing.
\* No code sends to the idle task.
SendMessage(t) ==
  /\ Unmasked
  /\ t \in tasks_ \ {Idle}
  /\ msgs_[t] < MaxMsgs
  /\ msgs_' = [msgs_ EXCEPT ![t] = msgs_[t] + 1]
  /\ sched' = Wakeup(sched, t, -1)
  /\ UNCHANGED <<tasks_, latest_id_, finish_tasks_, finish_waiter_,
                 subtask_id, waiting>>

\* The receive loop shared by main.cpp, TaskTerminal, the descriptors' Read
\* and the ReadEvent system call: cli, take a message, ...
ReceiveMessage ==
  /\ Cur # Idle /\ Unmasked
  /\ msgs_[Cur] > 0
  /\ msgs_' = [msgs_ EXCEPT ![Cur] = msgs_[Cur] - 1]
  /\ UNCHANGED <<sched, tasks_, latest_id_, finish_tasks_, finish_waiter_,
                 subtask_id, waiting>>

\* Mutant of SleepOnEmpty: an interrupt may come between the test and Sleep.
SleepAfterStaleTest ==
  /\ Cur # Idle /\ Unmasked
  /\ sched' = Sleep(sched, Cur)
  /\ UNCHANGED <<tasks_, latest_id_, msgs_, finish_tasks_, finish_waiter_,
                 subtask_id, waiting>>

\* ... or find none and go to sleep before interrupts are unmasked again.
SleepOnEmpty ==
  /\ Cur # Idle /\ Unmasked
  /\ msgs_[Cur] = 0
  /\ sched' = Sleep(sched, Cur)
  /\ UNCHANGED <<tasks_, latest_id_, msgs_, finish_tasks_, finish_waiter_,
                 subtask_id, waiting>>

\* One iteration of the loop of WaitFinish, entered from ExecuteLine: take
\* the exit code, or register and sleep.
WaitFinish ==
  LET id == subtask_id[Cur]
  IN  /\ id # None
      /\ IF id \in finish_tasks_
         THEN /\ finish_tasks_' = finish_tasks_ \ {id}
              /\ subtask_id' = [subtask_id EXCEPT ![Cur] = None]
              /\ waiting' = [waiting EXCEPT ![Cur] = FALSE]
              /\ UNCHANGED <<sched, finish_waiter_>>
         ELSE /\ finish_waiter_' = [finish_waiter_ EXCEPT ![id] = Cur]
              /\ waiting' = [waiting EXCEPT ![Cur] = TRUE]
              /\ sched' = Sleep(sched, Cur)
              /\ UNCHANGED <<finish_tasks_, subtask_id>>
      /\ UNCHANGED <<tasks_, latest_id_, msgs_>>

\* Finish: leave the queue, destroy the Task with the messages it holds,
\* publish the exit code and wake the task registered for it.  The flag of
\* the destroyed Task is cleared so that it keeps no state.
Leave(s, t) == SetRunning(RotateCurrentRunQueue(s, TRUE), t, FALSE)

\* Mutant of Finish: the waiter is not woken.
FinishWithoutWakeup ==
  /\ Cur \notin {Main, Idle} /\ Unmasked /\ subtask_id[Cur] = None
  /\ tasks_' = tasks_ \ {Cur}
  /\ msgs_' = [msgs_ EXCEPT ![Cur] = 0]
  /\ finish_tasks_' = finish_tasks_ \cup {Cur}
  /\ finish_waiter_' = [finish_waiter_ EXCEPT ![Cur] = None]
  /\ sched' = Leave(sched, Cur)
  /\ UNCHANGED <<latest_id_, subtask_id, waiting>>

\* A terminal task ends at kWindowClose or after its one command; inside
\* ExecuteLine it first collects its subtask.
Finish ==
  LET waiter == finish_waiter_[Cur]
      left   == Leave(sched, Cur)
  IN  /\ Cur \notin {Main, Idle} /\ Unmasked
      /\ subtask_id[Cur] = None
      /\ tasks_' = tasks_ \ {Cur}
      /\ msgs_' = [msgs_ EXCEPT ![Cur] = 0]
      /\ finish_tasks_' = finish_tasks_ \cup {Cur}
      /\ finish_waiter_' = [finish_waiter_ EXCEPT ![Cur] = None]
      /\ sched' = IF waiter = None THEN left ELSE Wakeup(left, waiter, -1)
      /\ UNCHANGED <<latest_id_, subtask_id, waiting>>

Next ==
  \/ NewTask
  \/ NewSubtask
  \/ SwitchTask
  \/ \E t \in Ids : SendMessage(t)
  \/ ReceiveMessage
  \/ SleepOnEmpty
  \/ WaitFinish
  \/ Finish

Spec == Init /\ [][Next]_vars

-----------------------------------------------------------------------------
(* Safety. *)

TypeOK ==
  /\ sched \in Sched
  /\ tasks_ \in SUBSET Ids
  /\ latest_id_ \in Ids
  /\ msgs_ \in [Ids -> 0 .. MaxMsgs]
  /\ finish_tasks_ \in SUBSET Ids
  /\ finish_waiter_ \in [Ids -> IdOrNone]
  /\ subtask_id \in [Ids -> IdOrNone]
  /\ waiting \in [Ids -> BOOLEAN]

\* A queue holds running tasks of its own level, ...
QueuedIsRunning(s) ==
  \A lv \in Levels : \A i \in 1 .. Len(s.running_[lv]) :
    /\ s.Running[s.running_[lv][i]]
    /\ s.Level[s.running_[lv][i]] = lv

\* ... each of them once, ...
QueuedOnce(s) ==
  \A lv \in Levels : \A i, j \in 1 .. Len(s.running_[lv]) :
    s.running_[lv][i] = s.running_[lv][j] => i = j

\* ... and every running task is in the queue of its level.
RunningIsQueued(s) ==
  \A t \in Ids : s.Running[t] =>
    \E i \in 1 .. Len(s.running_[s.Level[t]]) : s.running_[s.Level[t]][i] = t

\* The running flag of each task agrees with the run queues after every
\* sequence of wakeups, sleeps, rotations and exits (task.cpp keeps them in
\* five different functions): a flag without a queue entry is a task lost for
\* ever, a second entry is a task that runs while it sleeps or after it died.
QueueConsistent ==
  QueuedIsRunning(sched) /\ QueuedOnce(sched) /\ RunningIsQueued(sched)

\* The task at the front of running_[current_level_] exists and is a live
\* one: CurrentTask dereferences front() of that deque without a test, and
\* Finish frees the Task (and its stack).
CurrentIsLive ==
  /\ sched.running_[sched.current_level_] # <<>>
  /\ \A t \in Ids : sched.Running[t] => t \in tasks_

\* A nonempty queue above current_level_ is always flagged in level_changed_,
\* which is all that RotateCurrentRunQueue looks at before it searches.
HigherFlagged(s) ==
  \A lv \in Levels :
    (lv > s.current_level_ /\ s.running_[lv] # <<>>) => s.level_changed_

HigherLevelFlagged == HigherFlagged(sched)

\* Whatever tasks, interrupts and exits do, queues, flags, levels and
\* level_changed_ of TaskManager describe one and the same set of runnable
\* tasks, all of them alive.
SchedulerConsistent == QueueConsistent /\ CurrentIsLive /\ HigherLevelFlagged

\* A task that sleeps in a receive loop has no message: testing the queue and
\* going to sleep happen under one cli, and SendMessage wakes after it pushes.
NoLostWakeup ==
  \A t \in tasks_ : (~sched.Running[t] /\ ~waiting[t]) => msgs_[t] = 0

\* A task asleep in WaitFinish is registered with a child that is still
\* alive, so the child's Finish will wake it, however many stray messages
\* woke it before.
SleepingWaiterRegistered ==
  \A t \in tasks_ : (waiting[t] /\ ~sched.Running[t]) =>
    /\ subtask_id[t] \in tasks_
    /\ finish_waiter_[subtask_id[t]] = t

\* The Task pointers in finish_waiter_ never dangle: the registered task is
\* alive and in WaitFinish for that child, and the child has not finished.
WaiterIsLive ==
  \A k \in Ids : finish_waiter_[k] # None =>
    LET w == finish_waiter_[k]
    IN  w \in tasks_ /\ waiting[w] /\ subtask_id[w] = k /\ k \in tasks_

\* An uncollected child is alive or has left its exit code: it cannot finish
\* unseen between ExecuteLine's NewTask and its WaitFinish.
ExitCodeKept ==
  \A t \in tasks_ : subtask_id[t] # None =>
    subtask_id[t] \in tasks_ \cup finish_tasks_

\* Finish and WaitFinish meet in every order: no exit code is lost, no waiter
\* sleeps unregistered, and no registered waiter dangles.
ExitProtocol == SleepingWaiterRegistered /\ WaiterIsLive /\ ExitCodeKept

-----------------------------------------------------------------------------
(* What a step may not do. *)

\* A reschedule (timer, or a task going to sleep) leaves the processor to the
\* highest level that has a running task.
RunsHighest(s) ==
  \A lv \in Levels : lv > s.current_level_ => s.running_[lv] = <<>>

RescheduleRunsHighest == [][SwitchTask \/ SleepOnEmpty => RunsHighest(sched')]_vars

=============================================================================
