--------------------------- MODULE TimerManager ---------------------------
(***************************************************************************)
(* The timers of kernel/timer.cpp and the tasks that use them: the task    *)
(* timer behind preemption, the cursor of the text box (main.cpp), the     *)
(* blinking cursor of each terminal (terminal.cpp) and the timers of       *)
(* applications (the system calls CreateTimer and ReadEvent).              *)
(*                                                                         *)
(* The interrupt handler LAPICTimerOnInterrupt is one action.  timers_, a  *)
(* heap ordered by Timeout, is a set; its order shows only in the order in *)
(* which one Tick sends its messages.  Two fields of a timer are           *)
(* bookkeeping of the model: chain tells apart timers that are otherwise   *)
(* equal (a timer re-armed on its own timeout stays in its chain), added   *)
(* is the tick of AddTimer.  The sentinel at 2^64 - 1, which only keeps    *)
(* top() defined, is left out.                                             *)
(***************************************************************************)
EXTENDS Integers, Sequences, FiniteSets

CONSTANTS Terminals,         \* ids of terminal tasks (the main task is 1)
          kTaskTimerPeriod,  \* 20 ticks in the source
          kTimer05Sec,       \* 500 ticks in the source
          Arguments,         \* timeouts an application asks for, in ticks
          MaxTick,           \* bound: ticks in a behaviour
          MaxAppTimers       \* bound: timers created by applications

ASSUME TimerAssumption ==
  /\ Terminals \subseteq Nat \ {0, 1}
  /\ kTaskTimerPeriod \in Nat \ {0}
  /\ kTimer05Sec \in Nat \ {0}
  /\ Arguments \subseteq Nat
  /\ MaxTick \in Nat
  /\ MaxAppTimers \in Nat

Main == 1
Tasks == {Main} \cup Terminals

\* The values a timer can carry: the source's INT_MAX, 17 and 1, and for the
\* timers of applications, which CreateTimer negates, any negative number.
Values == {"kTaskTimerValue", "kTextboxCursorTimer", "one", "app"}

\* A chain is named by the value it started with and the task it belongs to;
\* applications number theirs.
TaskChain == <<"kTaskTimerValue", Main, 0>>
BootChain == <<"one", Main, 0>>
TextboxChain == <<"kTextboxCursorTimer", Main, 0>>
BlinkChain(t) == <<"one", t, 0>>
AppChain(t, n) == <<"app", t, n>>
Chains == Values \X Tasks \X (0 .. MaxAppTimers)

VARIABLES
  tick_, timers_,
  live,      \* the tasks in TaskManager's tasks_
  msgs_,     \* timer messages in each task's queue, with the tick of sending
  held,      \* the timer a task has received and not yet armed again (at most one)
  started,   \* terminals that have armed their blink timer
  app,       \* terminals whose application is running
  dropped,   \* terminals whose blink timeout somebody else has taken (history)
  created,   \* number of application timers created so far
  pending    \* timeouts computed by CreateTimer and not yet added (-1: none)

vars == <<tick_, timers_, live, msgs_, held, started, app, dropped, created, pending>>

Timer(timeout, value, task, chain) ==
  [timeout |-> timeout, value |-> value, task |-> task, chain |-> chain,
   added |-> tick_]

Timers == [timeout : Nat, value : Values, task : Tasks, chain : Chains, added : Nat]
Messages == [timer : Timers, sent : Nat]

Init ==
  /\ tick_ = 0
  /\ timers_ = {[timeout |-> 120 * kTimer05Sec, value |-> "one", task |-> Main,
                 chain |-> BootChain, added |-> 0],
                [timeout |-> kTimer05Sec, value |-> "kTextboxCursorTimer", task |-> Main,
                 chain |-> TextboxChain, added |-> 0],
                [timeout |-> kTaskTimerPeriod, value |-> "kTaskTimerValue", task |-> Main,
                 chain |-> TaskChain, added |-> 0]}
  /\ live = Tasks
  /\ msgs_ = [t \in Tasks |-> <<>>]
  /\ held = [t \in Tasks |-> {}]
  /\ started = {}
  /\ app = {}
  /\ dropped = {}
  /\ created = 0
  /\ pending = [t \in Tasks |-> -1]

-----------------------------------------------------------------------------
(* The interrupt handler. *)

Expired(now) == {x \in timers_ : x.timeout <= now}

\* Orders in which the loop of Tick can pop a set of timers: by timeout, and
\* in any order where timeouts are equal.
PopOrders(S) ==
  {o \in [1 .. Cardinality(S) -> S] :
     \A i, j \in 1 .. Cardinality(S) :
       i < j => o[i] # o[j] /\ o[i].timeout <= o[j].timeout}

\* The timers whose messages Tick puts into the queue of task t, if
\* SendMessage finds the task.
Batch(t, now) ==
  {x \in Expired(now) : x.value # "kTaskTimerValue" /\ x.task = t /\ t \in live}

\* The messages for them, in the order in which they are popped.  (The queues
\* of two tasks show nothing of how their messages were interleaved.)
Send(now) ==
  \E order \in [Tasks -> UNION {PopOrders(Batch(t, now)) : t \in Tasks}] :
    /\ \A t \in Tasks : order[t] \in PopOrders(Batch(t, now))
    /\ msgs_' = [t \in Tasks |->
         msgs_[t] \o [i \in 1 .. Len(order[t]) |-> [timer |-> order[t][i], sent |-> now]]]

\* The task timer, if it expired, for its next period.
Rearmed(now) ==
  {[timeout |-> now + kTaskTimerPeriod, value |-> x.value, task |-> Main,
    chain |-> x.chain, added |-> now] :
     x \in {y \in Expired(now) : y.value = "kTaskTimerValue"}}

\* Mutant of Tick: each interrupt handles the timers of one task only.
TickServesOneTask ==
  LET now == tick_ + 1
  IN  /\ tick_ < MaxTick
      /\ tick_' = now
      /\ \E t \in Tasks :
           timers_' = (timers_ \ {x \in Expired(now) : x.task = t}) \cup Rearmed(now)
      /\ Send(now)
      /\ UNCHANGED <<live, held, started, app, dropped, created, pending>>

\* Mutant of Tick: pop is missing before the task timer is pushed again.
TickKeepsTaskTimer ==
  LET now == tick_ + 1
  IN  /\ tick_ < MaxTick
      /\ tick_' = now
      /\ timers_' = (timers_ \ {x \in Expired(now) : x.value # "kTaskTimerValue"})
                     \cup Rearmed(now)
      /\ Send(now)
      /\ UNCHANGED <<live, held, started, app, dropped, created, pending>>

Tick ==
  LET now == tick_ + 1
  IN  /\ tick_ < MaxTick
      /\ tick_' = now
      /\ timers_' = (timers_ \ Expired(now)) \cup Rearmed(now)
      /\ Send(now)
      /\ UNCHANGED <<live, held, started, app, dropped, created, pending>>

-----------------------------------------------------------------------------
(* The tasks. *)

AddTimer(timer) == timers_' = timers_ \cup {timer}

\* ReceiveMessage, with interrupts masked.
ReceiveMessage(t) ==
  /\ msgs_[t] # <<>>
  /\ msgs_' = [msgs_ EXCEPT ![t] = Tail(msgs_[t])]

\* Mutant of MainReceive: the text box's timer is not re-armed.
MainReceiveForgetsTimer ==
  /\ held[Main] = {}
  /\ ReceiveMessage(Main)
  /\ UNCHANGED <<tick_, timers_, live, held, started, app, dropped, created, pending>>

\* Main loop: of the timer messages only the text box's own leads to more; the
\* message is taken under cli, and interrupts are enabled again after it.
MainReceive ==
  /\ held[Main] = {}
  /\ ReceiveMessage(Main)
  /\ LET x == Head(msgs_[Main]).timer
     IN  IF x.value = "kTextboxCursorTimer"
         THEN held' = [held EXCEPT ![Main] = {x}]
         ELSE UNCHANGED held
  /\ UNCHANGED <<tick_, timers_, live, started, app, dropped, created, pending>>

\* The timer is armed again from its timeout, under a cli of its own.
MainRearm ==
  /\ \E x \in held[Main] :
       AddTimer(Timer(x.timeout + kTimer05Sec, "kTextboxCursorTimer", Main, x.chain))
  /\ held' = [held EXCEPT ![Main] = {}]
  /\ UNCHANGED <<tick_, live, msgs_, started, app, dropped, created, pending>>

\* TaskTerminal before its loop.
TerminalStart(t) ==
  /\ t \in live \ started
  /\ started' = started \cup {t}
  /\ AddTimer(Timer(tick_ + kTimer05Sec, "one", t, BlinkChain(t)))
  /\ UNCHANGED <<tick_, live, msgs_, held, app, dropped, created, pending>>

\* The loop of TaskTerminal takes every timer message, whoever made the timer ...
TerminalReceive(t) ==
  /\ t \in (live \cap started) \ app
  /\ held[t] = {}
  /\ ReceiveMessage(t)
  /\ held' = [held EXCEPT ![t] = {Head(msgs_[t]).timer}]
  /\ UNCHANGED <<tick_, timers_, live, started, app, dropped, created, pending>>

\* ... and arms a blink timer on it, with interrupts enabled.
TerminalRearm(t) ==
  /\ \E x \in held[t] : AddTimer(Timer(x.timeout + kTimer05Sec, "one", t, x.chain))
  /\ held' = [held EXCEPT ![t] = {}]
  /\ UNCHANGED <<tick_, live, msgs_, started, app, dropped, created, pending>>

\* A message of t's queue is taken and its timer not armed again.
Discard(t) ==
  /\ ReceiveMessage(t)
  /\ dropped' = IF Head(msgs_[t]).timer.chain = BlinkChain(t)
                THEN dropped \cup {t} ELSE dropped
  /\ UNCHANGED <<tick_, timers_, live, held, started, app, created, pending>>

\* One turn of TerminalFileDescriptor::Read: a message that is no key is
\* dropped.  It is called by the built-in cat and by applications of t, and, on
\* the same queue, by the terminals that t starts with noterm and whose
\* descriptors are t's: whatever t is doing.
Read(t) == t \in live \cap started /\ Discard(t)

\* CallApp and its return.
StartApp(t) ==
  /\ t \in (live \cap started) \ app
  /\ held[t] = {}
  /\ app' = app \cup {t}
  /\ UNCHANGED <<tick_, timers_, live, msgs_, held, started, dropped, created, pending>>

ExitApp(t) ==
  /\ t \in app /\ pending[t] = -1
  /\ app' = app \ {t}
  /\ UNCHANGED <<tick_, timers_, live, msgs_, held, started, dropped, created, pending>>

\* CreateTimer reads the tick with interrupts enabled ...
CreateTimer(t, arg, relative) ==
  /\ t \in app /\ pending[t] = -1
  /\ created < MaxAppTimers
  /\ pending' = [pending EXCEPT ![t] = IF relative THEN arg + tick_ ELSE arg]
  /\ created' = created + 1
  /\ UNCHANGED <<tick_, timers_, live, msgs_, held, started, app, dropped>>

\* ... and adds the timer later, under cli.
CreateTimerAdd(t) ==
  /\ t \in app /\ pending[t] # -1
  /\ AddTimer(Timer(pending[t], "app", t, AppChain(t, created)))
  /\ pending' = [pending EXCEPT ![t] = -1]
  /\ UNCHANGED <<tick_, live, msgs_, held, started, app, dropped, created>>

\* ReadEvent reports an application timer and drops any other timer message.
ReadEvent(t) == t \in app /\ pending[t] = -1 /\ Discard(t)

\* TaskManager::Finish destroys the task and its messages, not its timers.
Finish(t) ==
  /\ t \in (live \cap Terminals) \ app
  /\ held[t] = {}
  /\ live' = live \ {t}
  /\ msgs_' = [msgs_ EXCEPT ![t] = <<>>]
  /\ UNCHANGED <<tick_, timers_, held, started, app, dropped, created, pending>>

Next ==
  \/ Tick
  \/ MainReceive \/ MainRearm
  \/ \E t \in Terminals :
       \/ TerminalStart(t) \/ TerminalReceive(t) \/ TerminalRearm(t) \/ Read(t)
       \/ StartApp(t) \/ ExitApp(t) \/ CreateTimerAdd(t) \/ ReadEvent(t)
       \/ Finish(t)
       \/ \E arg \in Arguments, relative \in BOOLEAN : CreateTimer(t, arg, relative)

Spec == Init /\ [][Next]_vars

-----------------------------------------------------------------------------
(* Properties. *)

TypeOK ==
  /\ tick_ \in 0 .. MaxTick
  /\ timers_ \subseteq Timers
  /\ live \subseteq Tasks
  /\ msgs_ \in [Tasks -> Seq(Messages)]
  /\ held \in [Tasks -> SUBSET Timers]
  /\ \A t \in Tasks : \A x, y \in held[t] : x = y
  /\ started \subseteq Terminals
  /\ app \subseteq Terminals
  /\ dropped \subseteq Terminals
  /\ created \in 0 .. MaxAppTimers
  /\ pending \in [Tasks -> Nat \cup {-1}]

\* No timer is late: whatever is still in timers_ lies in the future, or was
\* added with a timeout already past since the last interrupt (an absolute
\* timeout, a tick read before cli, or a chain that catches up).
NoTimerOverdue ==
  \A x \in timers_ : x.timeout > tick_ \/ x.added = tick_

\* No timer is early: a message in a queue was sent on the very tick it asked
\* for, or on the first one after AddTimer if that was too late.
SentOnTime ==
  \A t \in Tasks : \A i \in 1 .. Len(msgs_[t]) :
    LET m == msgs_[t][i]
    IN  IF m.timer.timeout > m.timer.added THEN m.sent = m.timer.timeout
        ELSE m.sent = m.timer.added + 1

\* Messages wait in the order they expired in.
SentInOrder ==
  \A t \in Tasks : \A i, j \in 1 .. Len(msgs_[t]) : i < j =>
    LET m == msgs_[t][i]
        n == msgs_[t][j]
    IN  m.sent < n.sent \/ (m.sent = n.sent /\ m.timer.timeout <= n.timer.timeout)

\* Timers are neither late nor early, and timeouts wait in the order in which
\* they expired (TimerManager::Tick, AddTimer and all who call them).
TimersExact == NoTimerOverdue /\ SentOnTime /\ SentInOrder

\* Preemption never stops and never doubles: there is always exactly one task
\* timer, and it expires within the next period.
TaskTimerArmed ==
  \E x \in timers_ :
    /\ \A y \in timers_ : y.value = "kTaskTimerValue" <=> y = x
    /\ x.timeout \in tick_ + 1 .. tick_ + kTaskTimerPeriod

\* Number of links of a chain: timers armed, messages not yet taken, and timers
\* taken and not yet armed again.
Links(chain, t) ==
  Cardinality({x \in timers_ : x.chain = chain})
    + Cardinality({i \in 1 .. Len(msgs_[t]) : msgs_[t][i].timer.chain = chain})
    + Cardinality({x \in held[t] : x.chain = chain})

\* The cursor of the text box keeps exactly one link, however late the main task
\* takes its messages: no tick finds two, and none is lost.  So does the cursor of
\* every live terminal, until its timeout is taken by TerminalFileDescriptor::Read
\* or ReadEvent, which drop it; from then on the chain has no link and is never
\* taken up again (a timer an application left behind starts a chain of its own).
CursorTimerConserved ==
  /\ Links(TextboxChain, Main) = 1
  /\ \A t \in started \cap live :
       Links(BlinkChain(t), t) = IF t \in dropped THEN 0 ELSE 1
=============================================================================
