--------------------------- MODULE MCTaskManager ---------------------------
(***************************************************************************)
(* TaskManager for TLC: its actions with fairness, and with a bound on the  *)
(* messages that arrive.                                                    *)
(***************************************************************************)
EXTENDS TaskManager

CONSTANT MaxSends   \* bound: messages sent in one behaviour of FairSpec

VARIABLE sends

mcvars == <<vars, sends>>

MCInit == Init /\ sends = 0

(* Liveness.  The main task has the highest level: a stream of messages that *)
(* never lets it sleep starves every other task, so the environment sends    *)
(* MaxSends messages and then falls silent.                                  *)

FairNext ==
  \/ /\ \/ NewTask \/ NewSubtask \/ SwitchTask \/ ReceiveMessage
        \/ SleepOnEmpty \/ WaitFinish \/ Finish
     /\ UNCHANGED sends
  \/ /\ sends < MaxSends
     /\ sends' = sends + 1
     /\ \E t \in Ids : SendMessage(t)

\* The periodic timer always fires again; the main loop drains its queue and
\* sleeps; a task resumed inside WaitFinish runs the loop with interrupts
\* masked, so nothing can keep it from its next step.  No assumption is made
\* about the other tasks, which may compute for ever.
FairSpec ==
  /\ MCInit /\ [][FairNext]_mcvars
  /\ WF_mcvars(SwitchTask /\ UNCHANGED sends)
  /\ WF_mcvars(Cur = Main /\ (ReceiveMessage \/ SleepOnEmpty) /\ UNCHANGED sends)
  /\ WF_mcvars(waiting[Cur] /\ WaitFinish /\ UNCHANGED sends)

\* Every running task gets the processor again, whatever the others do.
RunningTaskRuns == \A t \in Ids \ {Idle} : sched.Running[t] ~> Cur = t

\* A task blocked on a child that has exited collects it: the wakeup in
\* Finish is not lost, and neither messages nor other exits keep it asleep.
ExitIsCollected ==
  \A t \in Ids : (waiting[t] /\ subtask_id[t] \in finish_tasks_)
                   ~> subtask_id[t] = None
=============================================================================
