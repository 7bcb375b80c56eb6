-------------------------- MODULE VirtualProcessor --------------------------
(***************************************************************************)
(* What interrupts, system calls and task switches promise: every task has  *)
(* a processor of its own.  Its registers and its page map change only by   *)
(* its own steps, a system call or a repaired fault returns to the          *)
(* application with the registers it had, and CallApp returns to the        *)
(* terminal with the registers it was called with.  Two things are not      *)
(* promised: an application being killed may lose its fault frame, and one  *)
(* that cannot be started or cleaned up leaves its page map to the terminal. *)
(***************************************************************************)

CONSTANTS Tasks, Values, NoMap, LeftMap

VARIABLE machine    \* task -> where it is, its registers, those CallApp saved, its page map

None == CHOOSE v \in Values : TRUE

Init == \E map \in [Tasks -> {NoMap, LeftMap}] :
  machine = [t \in Tasks |-> [at |-> "terminal", regs |-> None, saved |-> None, map |-> map[t]]]

Moves(t, from, to) ==
  /\ machine[t].at = from
  /\ machine' = [machine EXCEPT ![t].at = to]

Compute(t) == \E v \in Values :
  /\ machine[t].at \in {"terminal", "app"}
  /\ machine' = [machine EXCEPT ![t].regs = v]

Load(t) ==
  /\ machine[t].at = "terminal"
  /\ machine' = [machine EXCEPT ![t].at = "loaded", ![t].map = t]

Enter(t) == \E v \in Values :
  /\ machine[t].at = "loaded"
  /\ machine' = [machine EXCEPT ![t].at = "app", ![t].saved = machine[t].regs, ![t].regs = v]

Leave(t) ==
  /\ machine[t].at = "leave"
  /\ machine' = [machine EXCEPT ![t].at = "returned", ![t].regs = machine[t].saved,
                                ![t].saved = None]

Unload(t) ==
  /\ machine[t].at = "returned"
  /\ machine' = [machine EXCEPT ![t].at = "terminal", ![t].map = NoMap]

\* The application could not be started, or not be cleaned up.
Fail(t) ==
  /\ machine[t].at \in {"loaded", "returned"}
  /\ machine' = [machine EXCEPT ![t].at = "terminal", ![t].map = LeftMap]

Next == \E t \in Tasks :
  \/ Compute(t) \/ Load(t) \/ Enter(t) \/ Leave(t) \/ Unload(t) \/ Fail(t)
  \/ Moves(t, "app", "call") \/ Moves(t, "call", "app") \/ Moves(t, "call", "leave")
  \/ Moves(t, "app", "fault") \/ Moves(t, "fault", "app") \/ Moves(t, "fault", "kill")
  \/ Moves(t, "kill", "leave") \/ Moves(t, "kill", "lost")

Spec == Init /\ [][Next]_machine
=============================================================================
