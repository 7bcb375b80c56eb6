---------------------------- MODULE ContextProofs ----------------------------
(***************************************************************************)
(* TLAPS proofs about Context, for every number of tasks: the processor     *)
(* always runs under the right page map and selectors, and tasks have       *)
(* processors of their own.                                                 *)
(***************************************************************************)
EXTENDS Context, TLAPS

USE TasksAssumption, StacksAssumption, MapsAssumption

-----------------------------------------------------------------------------
(* The inductive invariant.                                                 *)

Pages == Tasks \cup {NoTask, Left}

Places ==
  {"terminal", "loaded", "app", "entry", "masked", "found", "ready", "syscall", "woken", "back",
   "leave", "returned", "freeing", "fault", "kill", "lost", "awake"}

Contexts ==
  [self : Tasks, at : Places \cup {"timer"}, stack : Tasks \cup {App, Rsp0}, cr3 : Pages,
   if : BOOLEAN, cs : Nat, ss : Nat, regs : Values, rax : Pages]

Frames == [call : Values, owner : Tasks, regs : Values]

OnKernelStack == {"terminal", "awake", "loaded", "syscall", "woken", "returned", "freeing"}
OnAppStack == {"app", "entry", "masked", "found", "ready", "back"}
OnRsp0 == {"fault", "kill", "lost"}
Masked == {"masked", "found", "woken", "awake", "fault"}
HoldsPointer == {"found", "ready", "leave", "freeing"}

\* Between CallApp and ExitApp.
Inside == {"app", "entry", "masked", "found", "ready", "syscall", "woken", "back", "leave",
           "fault", "kill", "lost"}

KernelSelectors(c) == c.cs = kKernelCS /\ c.ss \in {0, kKernelSS}

\* What the registers of task t hold at each place.
Sound(c, t) ==
  /\ c \in Contexts /\ c.self = t /\ c.at # "timer"
  /\ c.at \in OnKernelStack => c.stack = t
  /\ c.at \in OnAppStack => c.stack = App
  /\ c.at \in OnRsp0 => c.stack = Rsp0
  /\ c.at = "leave" => c.stack \in {App, Rsp0}
  /\ IF c.at \in {"terminal", "awake"} THEN c.cr3 \in {NoTask, Left} ELSE c.cr3 = t
  /\ c.rax = IF c.at \in HoldsPointer THEN t ELSE NoTask
  /\ c.if = (c.at \notin Masked)
  /\ IF c.at = "app" THEN c.cs = kUserSS + 8 /\ c.ss = kUserSS ELSE KernelSelectors(c)

\* A task is switched from in SwitchContext, or with interrupts enabled.
Saved(c, t) == Sound(c, t) /\ (c.if \/ c.at \in {"woken", "awake"})

\* The timer's handler has pushed the context of the current task.
InTimer ==
  /\ Sound(ist, cur) /\ ist.if
  /\ cpu.stack = ist.stack /\ cpu.cr3 = ist.cr3 /\ ~cpu.if /\ KernelSelectors(cpu)

TypeOK ==
  /\ cur \in Tasks
  /\ cpu \in Contexts
  /\ context_ \in [Tasks -> Contexts]
  /\ os_stack_ptr_ \in [Tasks -> Pages]
  /\ kstack \in [Tasks -> Frames]
  /\ rsp0 \in Pages

\* Where the code of task t goes on; the fault frame of a task that is being
\* handled is still its own, because interrupts are masked.
Running == IF At("timer") THEN ist ELSE cpu

IInv ==
  /\ TypeOK
  /\ cpu.self = cur
  /\ IF At("timer") THEN InTimer ELSE Sound(cpu, cur)
  /\ \A t \in Tasks : t # cur => Saved(context_[t], t)
  /\ \A t \in Tasks : Stream(t).at \in Inside => os_stack_ptr_[t] = t
  /\ Running.at \in Inside \cup {"loaded", "returned"} => context_[cur].cr3 = cur
  /\ \A t \in Tasks : kstack[t].owner = t
  /\ At("fault") => rsp0 = cur

-----------------------------------------------------------------------------
(* Preservation.                                                            *)

\* The value of the registers that the model uses where they are dead.
LEMMA UnsetIsValue == Unset \in Values
BY DEF Unset

LEMMA InitSound ==
  ASSUME NEW t \in Tasks, NEW map \in {NoTask, Left} PROVE Saved(InitContext(t, map), t)
BY UnsetIsValue DEF Saved, Sound, InitContext, Contexts, Pages, Places, OnKernelStack, OnAppStack,
  OnRsp0, Masked, HoldsPointer, KernelSelectors, kKernelCS, kKernelSS

LEMMA InitIInv == Init => IInv
<1> SUFFICES ASSUME Init PROVE IInv
  OBVIOUS
<1> USE DEF Init
<1>0. PICK map \in [Tasks -> {NoTask, Left}] : context_ = [t \in Tasks |-> InitContext(t, map[t])]
  OBVIOUS
<1>a. \A t \in Tasks : context_[t] = InitContext(t, map[t]) /\ map[t] \in {NoTask, Left}
  BY <1>0
<1>1. \A t \in Tasks : Saved(context_[t], t)
  BY <1>a, InitSound
<1>b. \A t \in Tasks : context_[t].at = "terminal"
  <2> TAKE t \in Tasks
  <2>1. PICK m : context_[t] = InitContext(t, m)
    BY <1>a
  <2> QED BY ONLY <2>1 DEF InitContext
<1>2. TypeOK
  <2>1. \A t \in Tasks : context_[t] \in Contexts
    BY <1>1 DEF Saved, Sound
  <2>2. context_ \in [Tasks -> Contexts]
    BY <1>0, <2>1
  <2> QED BY <2>1, <2>2, UnsetIsValue DEF TypeOK, Pages, Frames
<1>3. Sound(cpu, cur) /\ cpu.self = cur /\ cpu.at = "terminal"
  BY <1>1, <1>b DEF Saved, Sound
<1>4. \A t \in Tasks : Stream(t).at = "terminal"
  BY <1>3, <1>b DEF Stream, At
<1>5. Running.at = "terminal"
  BY <1>3 DEF Running, At
<1>6. \A t \in Tasks : kstack[t].owner = t
  OBVIOUS
<1>7. ~At("timer") /\ ~At("fault")
  BY <1>3 DEF At
<1> QED BY <1>1, <1>2, <1>3, <1>4, <1>5, <1>6, <1>7 DEF IInv, Inside

\* A step of the current task, outside the timer's handler: what has to be
\* shown is about that task alone.
LEMMA LocalStep ==
  ASSUME IInv, cur' = cur, Sound(cpu', cur),
         context_' \in [Tasks -> Contexts], \A t \in Tasks \ {cur} : context_'[t] = context_[t],
         os_stack_ptr_' \in [Tasks -> Pages],
         \A t \in Tasks \ {cur} : os_stack_ptr_'[t] = os_stack_ptr_[t],
         kstack' \in [Tasks -> Frames], \A t \in Tasks : kstack'[t].owner = t,
         rsp0' \in Pages,
         cpu'.at \in Inside => os_stack_ptr_'[cur] = cur,
         cpu'.at \in Inside \cup {"loaded", "returned"} => context_'[cur].cr3 = cur,
         cpu'.at = "fault" => rsp0' = cur
  PROVE  IInv'
<1>1. cpu' \in Contexts /\ cpu'.self = cur /\ cpu'.at # "timer" /\ cur \in Tasks /\ cpu.self = cur
  BY DEF Sound, IInv, TypeOK
<1>2. TypeOK'
  BY <1>1 DEF TypeOK
<1>3. \A t \in Tasks : t # cur => Saved(context_'[t], t)
  BY DEF IInv
<1>4. ASSUME NEW t \in Tasks, Stream(t)'.at \in Inside PROVE os_stack_ptr_'[t] = t
  <2>1. CASE t = cur
    BY <1>1, <1>4, <2>1 DEF Stream, At
  <2>2. CASE t # cur
    <3>1. Stream(t)' = context_[t] /\ Stream(t) = context_[t]
      BY <1>1, <2>2 DEF Stream
    <3> QED BY <1>4, <2>2, <3>1 DEF IInv
  <2> QED BY <2>1, <2>2
<1>5. Running' = cpu' /\ ~At("timer")'
  BY <1>1 DEF Running, At
<1> QED BY <1>1, <1>2, <1>3, <1>4, <1>5 DEF IInv, At

\* The same where only the processor's registers change.
LEMMA CpuStep ==
  ASSUME IInv, ~At("timer"), OnlyCpu, Sound(cpu', cur),
         cpu'.at \in Inside => os_stack_ptr_[cur] = cur,
         cpu'.at \in Inside \cup {"loaded", "returned"} => context_[cur].cr3 = cur,
         cpu'.at = "fault" => rsp0 = cur
  PROVE  IInv'
<1>1. /\ context_ \in [Tasks -> Contexts] /\ os_stack_ptr_ \in [Tasks -> Pages]
      /\ kstack \in [Tasks -> Frames] /\ rsp0 \in Pages
      /\ \A t \in Tasks : kstack[t].owner = t
  BY DEF IInv, TypeOK
<1> QED BY <1>1, LocalStep DEF OnlyCpu

\* What the invariant says of the task that runs.
LEMMA CurrentSound ==
  ASSUME IInv, ~At("timer")
  PROVE  /\ cur \in Tasks /\ cpu.self = cur /\ Sound(cpu, cur)
         /\ cpu.at \in Inside => os_stack_ptr_[cur] = cur
         /\ cpu.at \in Inside \cup {"loaded", "returned"} => context_[cur].cr3 = cur
         /\ context_ \in [Tasks -> Contexts] /\ os_stack_ptr_ \in [Tasks -> Pages]
         /\ kstack \in [Tasks -> Frames] /\ rsp0 \in Pages
         /\ \A t \in Tasks : kstack[t].owner = t
<1>1. cur \in Tasks /\ cpu.self = cur
  BY DEF IInv, TypeOK
<1>2. Stream(cur) = cpu /\ Running = cpu
  BY <1>1 DEF Stream, Running, At
<1> QED BY <1>1, <1>2 DEF IInv, TypeOK

\* STAR, CallApp and the gates name the same segments.
LEMMA SelectorValues ==
  /\ SyscallSelectors.cs = kKernelCS /\ SyscallSelectors.ss = kKernelSS
  /\ SysretSelectors.cs = kUserSS + 8 /\ SysretSelectors.ss = kUserSS
  /\ GateSelectors.cs = kKernelCS /\ GateSelectors.ss = 0
  /\ kKernelCS = 8 /\ kKernelSS = 16 /\ kUserSS = 27 /\ kUserSS + 8 = 35
BY DEF SyscallSelectors, SysretSelectors, GateSelectors, InitializeSyscall, kKernelCS, kKernelSS, kUserSS

\* Steps within a system call, a fault or the terminal that only move the
\* processor on.
LEMMA CpuSteps ==
  ASSUME IInv,
         \/ Compute \/ Syscall \/ EntryCli \/ GetCurrentTaskOSStackPointer \/ EntrySti \/ WokenSti
         \/ Sysret \/ ResetCR3 \/ IntHandlerPF \/ KillApp \/ KillExit
  PROVE  IInv'
<1> USE DEF Sound, Contexts, Pages, Places, OnKernelStack, OnAppStack, OnRsp0, Masked, HoldsPointer,
           KernelSelectors, Inside, At
<1>0. ~At("timer") /\ OnlyCpu
  BY DEF Compute, Syscall, EntryCli, GetCurrentTaskOSStackPointer, EntrySti, WokenSti, Sysret, ResetCR3,
         IntHandlerPF, KillApp, KillExit
<1>1. CASE Compute
  <2>1. Sound(cpu', cur) /\ cpu'.at = cpu.at /\ cpu.at # "fault"
    BY <1>0, <1>1, CurrentSound DEF Compute
  <2> QED BY <1>0, <2>1, CurrentSound, CpuStep
<1>2. CASE Syscall
  <2>0. cpu.at = "app" /\ cpu' = [cpu EXCEPT !.at = "entry", !.cs = 8, !.ss = 16]
    BY <1>2, SelectorValues DEF Syscall
  <2>1. Sound(cpu', cur) /\ cpu'.at = "entry"
    BY <1>0, <2>0, CurrentSound, SelectorValues
  <2> QED BY <1>0, <1>2, <2>1, CurrentSound, CpuStep DEF Syscall
<1>3. CASE EntryCli
  <2>1. Sound(cpu', cur) /\ cpu'.at = "masked"
    BY <1>0, <1>3, CurrentSound DEF EntryCli
  <2> QED BY <1>0, <1>3, <2>1, CurrentSound, CpuStep DEF EntryCli
<1>4. CASE GetCurrentTaskOSStackPointer
  <2>1. Sound(cpu', cur) /\ cpu'.at = "found"
    BY <1>0, <1>4, CurrentSound DEF GetCurrentTaskOSStackPointer
  <2> QED BY <1>0, <1>4, <2>1, CurrentSound, CpuStep DEF GetCurrentTaskOSStackPointer
<1>5. CASE EntrySti
  <2>1. Sound(cpu', cur) /\ cpu'.at = "ready"
    BY <1>0, <1>5, CurrentSound DEF EntrySti
  <2> QED BY <1>0, <1>5, <2>1, CurrentSound, CpuStep DEF EntrySti
<1>6. CASE WokenSti
  <2>1. Sound(cpu', cur) /\ cpu'.at = IF cpu.at = "woken" THEN "syscall" ELSE "terminal"
    <3>1. CASE cpu.at = "woken"
      BY <1>0, <1>6, <3>1, CurrentSound DEF WokenSti
    <3>2. CASE cpu.at = "awake"
      BY <1>0, <1>6, <3>2, CurrentSound DEF WokenSti
    <3> QED BY <1>6, <3>1, <3>2 DEF WokenSti
  <2> QED BY <1>0, <1>6, <2>1, CurrentSound, CpuStep DEF WokenSti
<1>7. CASE Sysret
  <2>0. cpu.at = "back" /\ cpu' = [cpu EXCEPT !.at = "app", !.cs = 35, !.ss = 27]
    BY <1>7, SelectorValues DEF Sysret
  <2>1. Sound(cpu', cur) /\ cpu'.at = "app"
    BY <1>0, <2>0, CurrentSound, SelectorValues, ZenonT(60)
  <2> QED BY <1>0, <1>7, <2>1, CurrentSound, CpuStep DEF Sysret
<1>8. CASE ResetCR3
  <2>1. Sound(cpu', cur) /\ cpu'.at = "terminal"
    BY <1>0, <1>8, CurrentSound DEF ResetCR3
  <2> QED BY <1>0, <1>8, <2>1, CurrentSound, CpuStep DEF ResetCR3
<1>9. CASE KillApp
  <2>1. Sound(cpu', cur) /\ cpu'.at = "kill"
    BY <1>0, <1>9, CurrentSound DEF KillApp
  <2> QED BY <1>0, <1>9, <2>1, CurrentSound, CpuStep DEF KillApp
<1>10. CASE IntHandlerPF
  <2>1. rsp0 = cpu.self
    BY <1>0, <1>10, CurrentSound DEF IntHandlerPF, IInv
  <2>0. /\ cpu.at = "fault"
        /\ cpu' = [cpu EXCEPT !.at = "app", !.stack = App, !.if = TRUE, !.cs = 35, !.ss = 27]
    BY <1>10, <2>1, SelectorValues DEF IntHandlerPF
  <2>2. Sound(cpu', cur) /\ cpu'.at = "app"
    BY <1>0, <2>0, CurrentSound, SelectorValues, ZenonT(60)
  <2> QED BY <1>0, <1>10, <2>2, CurrentSound, CpuStep DEF IntHandlerPF
<1>11. CASE KillExit
  <2>1. Sound(cpu', cur) /\ cpu'.at \in {"leave", "lost"}
    BY <1>0, <1>11, CurrentSound, ZenonT(60) DEF KillExit
  <2> QED BY <1>0, <1>11, <2>1, CurrentSound, CpuStep DEF KillExit
<1> QED BY <1>1, <1>2, <1>3, <1>4, <1>5, <1>6, <1>7, <1>8, <1>9, <1>10, <1>11

\* Steps that also write to the current task's context, kernel stack or
\* stack pointer, or to the stack of the TSS.
LEMMA MemorySteps ==
  ASSUME IInv,
         \/ SetupPML4 \/ ExecuteFails \/ CallApp \/ CallHandler \/ HandlerReturns \/ Exit \/ ExitApp \/ FreePML4
         \/ Fault \/ IntHandlerXHCI
  PROVE  IInv'
<1> USE DEF Sound, Contexts, Pages, Places, OnKernelStack, OnAppStack, OnRsp0, Masked, HoldsPointer,
           KernelSelectors, Inside, At
<1>0. ~At("timer")
  BY DEF SetupPML4, ExecuteFails, CallApp, CallHandler, HandlerReturns, Exit, ExitApp, FreePML4, Fault,
         IntHandlerXHCI
<1>1. CASE SetupPML4
  <2>1. Sound(cpu', cur) /\ cpu'.at = "loaded"
    BY <1>0, <1>1, CurrentSound DEF SetupPML4
  <2>2. /\ context_' \in [Tasks -> Contexts] /\ context_'[cur].cr3 = cur
        /\ \A t \in Tasks \ {cur} : context_'[t] = context_[t]
    BY <1>0, <1>1, CurrentSound DEF SetupPML4
  <2> QED BY <1>0, <1>1, <2>1, <2>2, CurrentSound, LocalStep DEF SetupPML4
<1>2. CASE CallApp
  <2>0. PICK v \in Values :
          cpu' = [cpu EXCEPT !.at = "app", !.stack = App, !.regs = v, !.ss = 27, !.cs = 35]
    BY <1>2, SelectorValues DEF CallApp
  <2>1. Sound(cpu', cur) /\ cpu'.at = "app"
    <3>1. cpu.at = "loaded"
      BY <1>2 DEF CallApp
    <3> QED BY <1>0, <2>0, <3>1, CurrentSound, SelectorValues
  <2>2. /\ os_stack_ptr_' \in [Tasks -> Pages] /\ os_stack_ptr_'[cur] = cur
        /\ \A t \in Tasks \ {cur} : os_stack_ptr_'[t] = os_stack_ptr_[t]
    BY <1>0, <1>2, CurrentSound, ZenonT(60) DEF CallApp
  <2>3. kstack' \in [Tasks -> Frames] /\ \A t \in Tasks : kstack'[t].owner = t
    <3>1. kstack' = [kstack EXCEPT ![cur].call = cpu.regs] /\ cpu.regs \in Values
      BY <1>0, <1>2, CurrentSound DEF CallApp
    <3> QED BY <1>0, <3>1, CurrentSound DEF Frames
  <2> QED BY <1>0, <1>2, <2>1, <2>2, <2>3, CurrentSound, LocalStep DEF CallApp
<1>3. CASE CallHandler
  <2>1. Sound(cpu', cur) /\ cpu'.at = "syscall"
    BY <1>0, <1>3, CurrentSound, UnsetIsValue DEF CallHandler
  <2>2. kstack' \in [Tasks -> Frames] /\ \A t \in Tasks : kstack'[t].owner = t
    BY <1>0, <1>3, CurrentSound DEF CallHandler, Frames
  <2> QED BY <1>0, <1>3, <2>1, <2>2, CurrentSound, LocalStep DEF CallHandler, OnlyCpuAndStack
<1>4. CASE HandlerReturns
  <2>1. Sound(cpu', cur) /\ cpu'.at = "back"
    BY <1>0, <1>4, CurrentSound, ZenonT(60) DEF HandlerReturns, Return, Frames
  <2>2. kstack' \in [Tasks -> Frames] /\ \A t \in Tasks : kstack'[t].owner = t
    BY <1>0, <1>4, CurrentSound, UnsetIsValue DEF HandlerReturns, Popped, Frames
  <2> QED BY <1>0, <1>4, <2>1, <2>2, CurrentSound, LocalStep DEF HandlerReturns, OnlyCpuAndStack
<1>5. CASE Exit
  <2>1. Sound(cpu', cur) /\ cpu'.at = "leave"
    BY <1>0, <1>5, CurrentSound, ZenonT(60) DEF Exit, Return, Frames
  <2>2. kstack' \in [Tasks -> Frames] /\ \A t \in Tasks : kstack'[t].owner = t
    BY <1>0, <1>5, CurrentSound, UnsetIsValue DEF Exit, Popped, Frames
  <2> QED BY <1>0, <1>5, <2>1, <2>2, CurrentSound, LocalStep DEF Exit, OnlyCpuAndStack
<1>6. CASE ExitApp
  <2>1. Sound(cpu', cur) /\ cpu'.at = "returned"
    BY <1>0, <1>6, CurrentSound, ZenonT(60) DEF ExitApp, Frames
  <2>2. kstack' \in [Tasks -> Frames] /\ \A t \in Tasks : kstack'[t].owner = t
    BY <1>0, <1>6, CurrentSound, UnsetIsValue DEF ExitApp, Frames
  <2> QED BY <1>0, <1>6, <2>1, <2>2, CurrentSound, LocalStep DEF ExitApp, OnlyCpuAndStack
<1>7. CASE FreePML4
  <2>1. Sound(cpu', cur) /\ cpu'.at = "freeing"
    BY <1>0, <1>7, CurrentSound DEF FreePML4
  <2>2. /\ context_' \in [Tasks -> Contexts]
        /\ \A t \in Tasks \ {cur} : context_'[t] = context_[t]
    BY <1>0, <1>7, CurrentSound DEF FreePML4
  <2> QED BY <1>0, <1>7, <2>1, <2>2, CurrentSound, LocalStep DEF FreePML4
<1>8. CASE Fault
  <2>0. /\ cpu.at = "app"
        /\ cpu' = [cpu EXCEPT !.at = "fault", !.stack = Rsp0, !.if = FALSE, !.cs = 8, !.ss = 0]
    BY <1>8, SelectorValues DEF Fault
  <2>1. Sound(cpu', cur) /\ cpu'.at = "fault"
    BY <1>0, <2>0, CurrentSound, SelectorValues
  <2> QED BY <1>0, <1>8, <2>1, CurrentSound, LocalStep DEF Fault
<1>9. CASE IntHandlerXHCI
  BY <1>0, <1>9, CurrentSound, LocalStep DEF IntHandlerXHCI
<1>10. CASE ExecuteFails
  <2>1. Sound(cpu', cur) /\ cpu'.at = "terminal"
    BY <1>0, <1>10, CurrentSound DEF ExecuteFails
  <2>2. /\ context_' \in [Tasks -> Contexts]
        /\ \A t \in Tasks \ {cur} : context_'[t] = context_[t]
    BY <1>0, <1>10, CurrentSound DEF ExecuteFails
  <2> QED BY <1>0, <1>10, <2>1, <2>2, CurrentSound, LocalStep DEF ExecuteFails
<1> QED BY <1>1, <1>2, <1>3, <1>4, <1>5, <1>6, <1>7, <1>8, <1>9, <1>10

\* The timer's handler, and the two ways to switch: the context restored is
\* one that was saved.
LEMMA SwitchSteps ==
  ASSUME IInv, SwitchContext \/ IntHandlerLAPICTimer \/ TimerReturns \/ SwitchTask
  PROVE  IInv'
<1>0. TypeOK /\ cur \in Tasks /\ cpu.self = cur
  BY DEF IInv, TypeOK
<1>1. CASE IntHandlerLAPICTimer
  <2>1. ~At("timer")
    BY <1>1 DEF IInv, InTimer, IntHandlerLAPICTimer
  <2>2. cpu' = [cpu EXCEPT !.at = "timer", !.if = FALSE, !.cs = 8, !.ss = 0] /\ ist' = cpu /\ cpu.if
    BY <1>1, SelectorValues DEF IntHandlerLAPICTimer
  <2>3. /\ cpu' \in Contexts /\ cpu'.self = cur /\ cpu'.at = "timer"
        /\ cpu'.stack = cpu.stack /\ cpu'.cr3 = cpu.cr3 /\ ~cpu'.if /\ cpu'.cs = 8 /\ cpu'.ss = 0
    BY <1>0, <2>2 DEF TypeOK, Contexts
  <2>4. InTimer' /\ TypeOK'
    BY <1>0, <1>1, <2>1, <2>2, <2>3, CurrentSound, SelectorValues
    DEF InTimer, TypeOK, KernelSelectors, IntHandlerLAPICTimer
  <2>5. \A t \in Tasks : Stream(t)' = Stream(t)
    BY <1>0, <1>1, <2>1, <2>2, <2>3 DEF Stream, At, IntHandlerLAPICTimer
  <2>6. Running' = Running
    BY <2>1, <2>2, <2>3 DEF Running, At
  <2> QED BY <1>0, <1>1, <2>3, <2>4, <2>5, <2>6 DEF IInv, At, IntHandlerLAPICTimer
<1>2. CASE TimerReturns
  <2>1. At("timer") /\ cpu' = ist /\ Sound(ist, cur) /\ ist.if
    BY <1>2 DEF IInv, InTimer, TimerReturns
  <2>2. cpu' \in Contexts /\ cpu'.self = cur /\ cpu'.at # "timer" /\ cpu'.at # "fault"
    BY <2>1 DEF Sound, Masked
  <2>3. \A t \in Tasks : Stream(t)' = Stream(t)
    BY <1>0, <1>2, <2>1, <2>2 DEF Stream, At, TimerReturns
  <2>4. Running' = Running
    BY <2>1, <2>2 DEF Running, At
  <2> QED BY <1>0, <1>2, <2>1, <2>2, <2>3, <2>4 DEF IInv, TypeOK, At, TimerReturns
<1>3. ASSUME NEW t \in Tasks \ {cur}, NEW c, Saved(c, cur),
             context_' = Restored(t, [context_ EXCEPT ![cur] = c]),
             cur' = t, cpu' = context_[t], UNCHANGED <<os_stack_ptr_, kstack, rsp0>>,
             c.at \in Inside => os_stack_ptr_[cur] = cur
      PROVE  IInv'
  <2>1. Saved(context_[t], t) /\ c \in Contexts /\ c.self = cur /\ context_ \in [Tasks -> Contexts]
    BY <1>0, <1>3 DEF IInv, Saved, Sound, TypeOK
  <2>2. cpu' \in Contexts /\ cpu'.self = t /\ cpu'.at # "timer" /\ cpu'.at # "fault" /\ Sound(cpu', t)
    BY <1>3, <2>1 DEF Saved, Sound, Masked
  <2>3. /\ context_' \in [Tasks -> Contexts]
        /\ context_'[t].cr3 = context_[t].cr3
        /\ context_'[cur] = c
        /\ \A u \in Tasks \ {t, cur} : context_'[u] = context_[u]
    <3>1. context_[t].cr3 \in Pages
      BY <2>1 DEF Contexts
    <3>2. InitContext(t, context_[t].cr3) \in Contexts
      BY <3>1, UnsetIsValue DEF InitContext, Contexts, Pages, Places, kKernelCS, kKernelSS
    <3>3. InitContext(t, context_[t].cr3).cr3 = context_[t].cr3
      BY DEF InitContext
    <3>4. context_' = [[context_ EXCEPT ![cur] = c] EXCEPT ![t] = InitContext(t, context_[t].cr3)]
      BY <1>0, <1>3, <2>1 DEF Restored
    <3> QED BY <1>0, <1>3, <2>1, <3>2, <3>3, <3>4
  <2>4. \A u \in Tasks : u # t => Saved(context_'[u], u)
    <3>1. \A u \in Tasks : u # cur => Saved(context_[u], u)
      BY DEF IInv
    <3> QED BY <1>3, <2>3, <3>1
  <2>5. Stream(t)' = context_[t] /\ Stream(t) = context_[t]
    BY <1>0, <1>3, <2>2, <2>3 DEF Stream, At
  <2>0. \A u \in Tasks : u = cur => Stream(u)' = c
    BY <1>0, <1>3, <2>2, <2>3 DEF Stream, At
  <2>6. \A u \in Tasks \ {t, cur} : Stream(u)' = context_[u] /\ Stream(u) = context_[u]
    BY <1>0, <1>3, <2>2, <2>3 DEF Stream
  <2>7. \A u \in Tasks : Stream(u)'.at \in Inside => os_stack_ptr_[u] = u
    BY <1>3, <2>0, <2>5, <2>6 DEF IInv
  <2>8. Running' = cpu' /\ cpu'.at \in Inside \cup {"loaded", "returned"} => context_'[t].cr3 = t
    BY <1>3, <2>2, <2>3 DEF Running, At, Sound, Inside
  <2>9. Running' = cpu'
    BY <2>2 DEF Running, At
  <2> QED BY <1>0, <1>3, <2>2, <2>3, <2>4, <2>7, <2>8, <2>9 DEF IInv, TypeOK, At
<1>4. CASE SwitchContext
  <2>1. PICK t \in Tasks \ {cur} :
          /\ context_' = Restored(t, [context_ EXCEPT ![cur] = Asleep])
          /\ cur' = t
          /\ cpu' = context_[t]
    BY <1>4 DEF SwitchContext
  <2>2. ~At("timer") /\ cpu.at \in {"syscall", "terminal"}
    BY <1>4 DEF SwitchContext, At
  <2> USE DEF Saved, Sound, Contexts, Pages, Places, OnKernelStack, OnAppStack, OnRsp0,
      Masked, HoldsPointer, KernelSelectors, Inside
  <2>3. Saved(Asleep, cur) /\ (Asleep.at \in Inside => os_stack_ptr_[cur] = cur)
    <3>1. CASE cpu.at = "syscall"
      <4>1. Asleep = [cpu EXCEPT !.at = "woken", !.if = FALSE]
        BY <3>1 DEF Asleep, At
      <4> QED BY <2>2, <3>1, <4>1, CurrentSound
    <3>2. CASE cpu.at = "terminal"
      <4>1. Asleep = [cpu EXCEPT !.at = "awake", !.if = FALSE]
        BY <3>2 DEF Asleep, At
      <4> QED BY <2>2, <3>2, <4>1, CurrentSound
    <3> QED BY <2>2, <3>1, <3>2
  <2>4. UNCHANGED <<os_stack_ptr_, kstack, rsp0>>
    BY <1>4 DEF SwitchContext
  <2> QED BY ONLY <1>3, <2>1, <2>3, <2>4
<1>5. CASE SwitchTask
  <2>1. PICK t \in Tasks \ {cur} :
          /\ context_' = Restored(t, [context_ EXCEPT ![cur] = ist])
          /\ cur' = t
          /\ cpu' = context_[t]
    BY <1>5 DEF SwitchTask
  <2>2. At("timer") /\ Saved(ist, cur)
    BY <1>5 DEF SwitchTask, IInv, InTimer, Saved
  <2>3. Stream(cur) = ist
    BY <1>0, <2>2 DEF Stream
  <2>4. UNCHANGED <<os_stack_ptr_, kstack, rsp0>> /\ (ist.at \in Inside => os_stack_ptr_[cur] = cur)
    BY <1>0, <1>5, <2>3 DEF SwitchTask, IInv
  <2> QED BY <1>3, <2>1, <2>2, <2>4
<1> QED BY <1>1, <1>2, <1>4, <1>5

LEMMA NextIInv == IInv /\ [Next]_vars => IInv'
<1> SUFFICES ASSUME IInv, [Next]_vars PROVE IInv'
  OBVIOUS
<1>1. CASE Next
  BY <1>1, CpuSteps, MemorySteps, SwitchSteps DEF Next
<1>2. CASE UNCHANGED vars
  <2>1. Running' = Running /\ \A t \in Tasks : Stream(t)' = Stream(t)
    BY <1>2 DEF vars, Running, Stream, At
  <2> QED BY <1>2, <2>1 DEF vars, IInv, TypeOK, InTimer, At
<1> QED BY <1>1, <1>2

\* In every reachable state the registers, stacks, page maps and stack pointers
\* of all tasks are what their places in the code need.
THEOREM AlwaysSound == Spec => []IInv
BY InitIInv, NextIInv, PTL DEF Spec

-----------------------------------------------------------------------------
(* The right page map, stack and selectors.                                 *)

\* The kernel's and the users' selectors name segments of their level.
LEMMA SegmentsMatch ==
  /\ kKernelCS \div 8 = 1 /\ kKernelSS \div 8 = 2 /\ kUserSS \div 8 = 3 /\ (kUserSS + 8) \div 8 = 4
  /\ kKernelCS % 4 = 0 /\ kKernelSS % 4 = 0 /\ kUserSS % 4 = 3 /\ (kUserSS + 8) % 4 = 3
  /\ SetupSegments[1] = [code |-> TRUE, dpl |-> 0] /\ SetupSegments[2] = [code |-> FALSE, dpl |-> 0]
  /\ SetupSegments[3] = [code |-> FALSE, dpl |-> 3] /\ SetupSegments[4] = [code |-> TRUE, dpl |-> 3]
  /\ {1, 2, 3, 4} \subseteq DOMAIN SetupSegments
<1>1. /\ 8 \div 8 = 1 /\ 16 \div 8 = 2 /\ 27 \div 8 = 3 /\ 35 \div 8 = 4
      /\ 8 % 4 = 0 /\ 16 % 4 = 0 /\ 27 % 4 = 3 /\ 35 % 4 = 3
  OBVIOUS
<1>2. /\ DOMAIN SetupSegments = 1 .. 4
      /\ \A i \in 1 .. 4 :
           SetupSegments[i] = [code |-> i \in {1, 4}, dpl |-> IF i <= 2 THEN 0 ELSE 3]
  BY DEF SetupSegments
<1>3. /\ (1 \in {1, 4}) = TRUE /\ (2 \in {1, 4}) = FALSE
      /\ (3 \in {1, 4}) = FALSE /\ (4 \in {1, 4}) = TRUE
      /\ 1 \in 1 .. 4 /\ 2 \in 1 .. 4 /\ 3 \in 1 .. 4 /\ 4 \in 1 .. 4
      /\ 1 <= 2 /\ 2 <= 2 /\ ~(3 <= 2) /\ ~(4 <= 2)
  OBVIOUS
<1>4. /\ SetupSegments[1] = [code |-> TRUE, dpl |-> 0] /\ SetupSegments[2] = [code |-> FALSE, dpl |-> 0]
      /\ SetupSegments[3] = [code |-> FALSE, dpl |-> 3] /\ SetupSegments[4] = [code |-> TRUE, dpl |-> 3]
  BY <1>2, <1>3
<1> QED BY <1>1, <1>2, <1>4, SelectorValues

LEMMA SoundMatches == IInv => ContextMatches
<1> SUFFICES ASSUME IInv PROVE ContextMatches
  OBVIOUS
<1>0. cur \in Tasks /\ cpu.self = cur
  BY DEF IInv, TypeOK
<1>1. cpu.stack = App => cpu.cr3 = cpu.self
  BY <1>0 DEF IInv, InTimer, Sound, OnKernelStack, OnAppStack, OnRsp0, Contexts, Places, At
<1>2. At("freeing") => cpu.rax = cpu.self
  BY <1>0 DEF IInv, Sound, HoldsPointer, At
<1>3. cpu.at \in {"terminal", "awake"} => cpu.cr3 \in {NoTask, Left} /\ cpu.stack = cpu.self
  BY <1>0 DEF IInv, Sound, OnKernelStack, At
<1>4. IF At("app") THEN cpu.cs = kUserSS + 8 /\ cpu.ss = kUserSS ELSE KernelSelectors(cpu)
  BY DEF IInv, InTimer, Sound, At
<1> DEFINE Is(sel, code, dpl) ==
             /\ sel \div 8 \in DOMAIN SetupSegments
             /\ SetupSegments[sel \div 8] = [code |-> code, dpl |-> dpl]
             /\ sel % 4 = dpl
<1>5. Is(kUserSS + 8, TRUE, 3) /\ Is(kUserSS, FALSE, 3) /\ Is(kKernelCS, TRUE, 0) /\ Is(kKernelSS, FALSE, 0)
  <2>1. Is(kUserSS + 8, TRUE, 3)
    BY SegmentsMatch, Zenon
  <2>2. Is(kUserSS, FALSE, 3)
    BY SegmentsMatch, Zenon
  <2>3. Is(kKernelCS, TRUE, 0)
    BY SegmentsMatch, Zenon
  <2>4. Is(kKernelSS, FALSE, 0)
    BY SegmentsMatch, Zenon
  <2> QED BY <2>1, <2>2, <2>3, <2>4
<1> HIDE DEF Is
<1>6. IF At("app") THEN Is(cpu.cs, TRUE, 3) /\ Is(cpu.ss, FALSE, 3)
                   ELSE Is(cpu.cs, TRUE, 0) /\ (cpu.ss = 0 \/ Is(cpu.ss, FALSE, 0))
  <2>1. CASE At("app")
    BY <1>4, <1>5, <2>1
  <2>2. CASE ~At("app")
    <3>1. cpu.cs = kKernelCS /\ (cpu.ss = 0 \/ cpu.ss = kKernelSS)
      BY <1>4, <2>2 DEF KernelSelectors
    <3> QED BY <1>5, <2>2, <3>1
  <2> QED BY <2>1, <2>2
<1> QED BY <1>0, <1>1, <1>2, <1>3, <1>6 DEF ContextMatches, Is

\* The processor always runs the current task's code, an application's memory
\* is only used under its own page map, FreePML4 frees the right one, and the
\* selectors have the privilege level of the place, for any number of tasks.
THEOREM ContextAlwaysMatches == Spec => []ContextMatches
BY AlwaysSound, SoundMatches, PTL

-----------------------------------------------------------------------------
(* A processor for every task.                                              *)

machines == [t \in Tasks |-> Machine(t)]

\* What a task that does not run believes to have depends on its saved context
\* and its own kernel stack only.
LEMMA OthersKeepMachines ==
  ASSUME IInv, cur' = cur, cpu'.self = cur,
         NEW t \in Tasks, t # cur, context_'[t] = context_[t], kstack'[t] = kstack[t]
  PROVE  Machine(t)' = Machine(t)
<1>1. cpu.self = cur /\ Saved(context_[t], t)
  BY DEF IInv
<1>2. Stream(t) = context_[t] /\ Stream(t)' = context_[t]
  BY <1>1 DEF Stream
<1>3. context_[t].at \in {"syscall", "woken"} => context_[t].stack = t
  BY <1>1 DEF Saved, Sound, OnKernelStack
<1> QED BY <1>2, <1>3 DEF Machine

\* The machine of the task that runs, outside the timer's handler.
LEMMA CurrentMachine ==
  ASSUME cpu.self = cur, ~At("timer"), NEW t, t = cur
  PROVE  Machine(t) = [at |-> Place(cpu.at),
                       regs |-> IF cpu.at \in {"syscall", "woken"} THEN kstack[cpu.stack].regs ELSE cpu.regs,
                       saved |-> kstack[t].call, map |-> cpu.cr3]
BY DEF Machine, Stream

LEMMA CurrentMachineNext ==
  ASSUME cpu'.self = cur, cpu'.at # "timer", NEW t, t = cur
  PROVE  Machine(t)' = [at |-> Place(cpu'.at),
                        regs |-> IF cpu'.at \in {"syscall", "woken"} THEN kstack'[cpu'.stack].regs ELSE cpu'.regs,
                        saved |-> kstack'[t].call, map |-> cpu'.cr3]
BY DEF Machine, Stream, At, Place

\* A step that changes the machine of one task only.
LEMMA OneMachine ==
  ASSUME NEW p \in Tasks, \A t \in Tasks \ {p} : Machine(t)' = Machine(t)
  PROVE  machines' = [machines EXCEPT ![p] = Machine(p)']
BY DEF machines

LEMMA VirtualInit == Init => Virtual!Init
<1> SUFFICES ASSUME Init PROVE Virtual!Init
  OBVIOUS
<1>0. PICK map \in [Tasks -> {NoTask, Left}] : context_ = [t \in Tasks |-> InitContext(t, map[t])]
  BY DEF Init
<1>1. ASSUME NEW t \in Tasks
      PROVE  Machine(t) = [at |-> "terminal", regs |-> Unset, saved |-> Unset, map |-> map[t]]
  <2>1. context_[t] = InitContext(t, map[t])
    BY <1>0
  <2>2. cpu.self = cur /\ cpu = context_[cur] /\ cpu.at = "terminal" /\ cur \in Tasks
    BY <1>0 DEF Init, InitContext
  <2>3. Stream(t) = InitContext(t, map[t])
    BY <2>1, <2>2 DEF Stream, At
  <2>4. /\ Stream(t).at = "terminal" /\ Stream(t).regs = Unset /\ Stream(t).cr3 = map[t]
        /\ kstack[t].call = Unset
    BY <2>3 DEF InitContext, Init
  <2> QED BY <2>4 DEF Machine, Place
<1> QED BY <1>1 DEF Virtual!Init, Virtual!None, Unset

LEMMA PlaceValues ==
  /\ \A a \in {"entry", "masked", "found", "ready", "syscall", "woken", "back"} : Place(a) = "call"
  /\ Place("freeing") = "returned" /\ Place("awake") = "terminal"
  /\ \A a \in {"terminal", "loaded", "app", "leave", "returned", "fault", "kill", "lost"} : Place(a) = a
BY DEF Place

\* A step of the current task outside the timer's handler: its machine before
\* and after, and nobody else's changes.
LEMMA LocalMachines ==
  ASSUME IInv, IInv', ~At("timer"), ~At("timer")', cur' = cur,
         \A t \in Tasks \ {cur} : context_'[t] = context_[t] /\ kstack'[t] = kstack[t],
         NEW p, p = cur
  PROVE  /\ p \in Tasks
         /\ \A t \in Tasks \ {p} : Machine(t)' = Machine(t)
         /\ Machine(p) = [at |-> Place(cpu.at),
                          regs |-> IF cpu.at \in {"syscall", "woken"} THEN kstack[cpu.stack].regs ELSE cpu.regs,
                          saved |-> kstack[p].call, map |-> cpu.cr3]
         /\ Machine(p)' = [at |-> Place(cpu'.at),
                           regs |-> IF cpu'.at \in {"syscall", "woken"} THEN kstack'[cpu'.stack].regs ELSE cpu'.regs,
                           saved |-> kstack'[p].call, map |-> cpu'.cr3]
<1>1. cur \in Tasks /\ cpu.self = cur /\ cpu'.self = cur /\ cpu'.at # "timer"
  BY DEF IInv, TypeOK, At
<1> QED BY <1>1, OthersKeepMachines, CurrentMachine, CurrentMachineNext

\* Steps that change only where a task is.
LEMMA VirtualMoves ==
  ASSUME NEW p \in Tasks, \A t \in Tasks \ {p} : Machine(t)' = Machine(t),
         NEW from, NEW to, Machine(p).at = from,
         Machine(p)' = [Machine(p) EXCEPT !.at = to]
  PROVE  Virtual!Moves(p, from, to)
BY DEF Virtual!Moves

\* Steps that no task sees.
LEMMA Stutters ==
  ASSUME NEW p \in Tasks, \A t \in Tasks \ {p} : Machine(t)' = Machine(t), Machine(p)' = Machine(p)
  PROVE  machines' = machines
BY DEF machines

\* Steps inside a system call and in FreePML4.
LEMMA HiddenSteps ==
  ASSUME IInv, IInv',
         \/ EntryCli \/ GetCurrentTaskOSStackPointer \/ EntrySti \/ CallHandler \/ WokenSti
         \/ HandlerReturns \/ FreePML4 \/ IntHandlerXHCI
  PROVE  machines' = machines
<1> PICK p : p = cur
  OBVIOUS
<1>0. ~At("timer") /\ cur' = cur
  BY DEF EntryCli, GetCurrentTaskOSStackPointer, EntrySti, CallHandler, WokenSti, HandlerReturns, FreePML4,
         IntHandlerXHCI, At, OnlyCpu, OnlyCpuAndStack
<1>c. /\ cpu \in Contexts /\ context_ \in [Tasks -> Contexts] /\ kstack \in [Tasks -> Frames]
      /\ p \in Tasks /\ cpu.self = p
      /\ cpu.at \in {"syscall", "woken"} => cpu.stack = p
      /\ cpu.at \in HoldsPointer => cpu.rax = p
      /\ kstack[p].owner = p
  BY <1>0 DEF IInv, TypeOK, Sound, OnKernelStack
<1> USE DEF At
<1>1. CASE EntryCli \/ GetCurrentTaskOSStackPointer \/ EntrySti \/ WokenSti
  <2>1. OnlyCpu /\ cpu'.at # "timer" /\ cpu'.regs = cpu.regs /\ cpu'.cr3 = cpu.cr3 /\ cpu'.stack = cpu.stack
    BY <1>1, <1>c, ZenonT(60) DEF EntryCli, GetCurrentTaskOSStackPointer, EntrySti, WokenSti, Contexts
  <2>2. \/ cpu.at \in {"entry", "masked", "found"} /\ cpu'.at \in {"masked", "found", "ready"}
        \/ cpu.at = "woken" /\ cpu'.at = "syscall"
        \/ cpu.at = "awake" /\ cpu'.at = "terminal"
    BY <1>1, <1>c DEF EntryCli, GetCurrentTaskOSStackPointer, EntrySti, WokenSti, Contexts
  <2>3. Machine(p)' = Machine(p)
    <3>1. Place(cpu'.at) = Place(cpu.at)
      BY <2>2, PlaceValues
    <3>2. cpu.at \in {"syscall", "woken"} <=> cpu'.at \in {"syscall", "woken"}
      BY <2>2
    <3>3. kstack'[cpu'.stack].regs = kstack[cpu.stack].regs /\ kstack'[p].call = kstack[p].call
      BY <2>1 DEF OnlyCpu
    <3> QED BY <1>0, <2>1, <3>1, <3>2, <3>3, LocalMachines DEF OnlyCpu
  <2> QED BY <1>0, <2>1, <2>3, LocalMachines, Stutters DEF OnlyCpu
<1>2. CASE CallHandler
  <2>4. context_' = context_
    BY <1>2 DEF CallHandler, OnlyCpuAndStack
  <2>1. /\ cpu.at = "ready" /\ cpu'.at = "syscall" /\ cpu'.stack = p /\ cpu'.cr3 = cpu.cr3
        /\ kstack' = [kstack EXCEPT ![p].owner = p, ![p].regs = cpu.regs]
    BY <1>2, <1>c DEF CallHandler, Contexts, HoldsPointer
  <2>2. /\ kstack'[p].call = kstack[p].call /\ kstack'[p].regs = cpu.regs
        /\ \A t \in Tasks \ {p} : kstack'[t] = kstack[t]
    <3>1. cpu.regs \in Values /\ kstack[p] \in Frames
      BY <1>c DEF Contexts
    <3>2. kstack'[p] = [kstack[p] EXCEPT !.owner = p, !.regs = cpu.regs]
      BY <2>1, <1>c
    <3> QED BY <2>1, <1>c, <3>1, <3>2 DEF Frames
  <2>3. Machine(p)' = Machine(p)
    <3>1. Place(cpu.at) = "call" /\ Place(cpu'.at) = "call"
      BY <2>1, PlaceValues
    <3>2. cpu.at \notin {"syscall", "woken"} /\ cpu'.at \in {"syscall", "woken"}
      BY <2>1
    <3> QED BY <1>0, <2>1, <2>2, <3>1, <3>2, <2>4, LocalMachines, ZenonT(60)
  <2> QED BY <1>0, <2>1, <2>2, <2>3, <2>4, LocalMachines, Stutters
<1>3. CASE HandlerReturns
  <2>4. context_' = context_
    BY <1>3 DEF HandlerReturns, OnlyCpuAndStack
  <2>1. /\ cpu.at = "syscall" /\ cpu'.at = "back" /\ cpu'.regs = kstack[p].regs /\ cpu'.cr3 = cpu.cr3
        /\ kstack' = [kstack EXCEPT ![p].owner = p, ![p].regs = Unset] /\ cpu.stack = p
    BY <1>3, <1>c DEF HandlerReturns, Return, Popped, Contexts
  <2>2. /\ kstack'[p].call = kstack[p].call
        /\ \A t \in Tasks \ {p} : kstack'[t] = kstack[t]
    BY <2>1, <1>c DEF Frames
  <2>3. Machine(p)' = Machine(p)
    <3>1. Place(cpu.at) = "call" /\ Place(cpu'.at) = "call"
      BY <2>1, PlaceValues
    <3>2. cpu.at \in {"syscall", "woken"} /\ cpu'.at \notin {"syscall", "woken"}
      BY <2>1
    <3> QED BY <1>0, <2>1, <2>2, <3>1, <3>2, <2>4, LocalMachines, ZenonT(60)
  <2> QED BY <1>0, <2>1, <2>2, <2>3, <2>4, LocalMachines, Stutters
<1>4. CASE FreePML4
  <2>1. /\ cpu.at = "returned" /\ cpu'.at = "freeing" /\ cpu'.regs = cpu.regs /\ cpu'.cr3 = cpu.cr3
        /\ kstack' = kstack /\ \A t \in Tasks \ {p} : context_'[t] = context_[t]
    BY <1>4, <1>c DEF FreePML4, Contexts
  <2>3. Machine(p)' = Machine(p)
    BY <1>0, <2>1, LocalMachines, PlaceValues
  <2> QED BY <1>0, <2>1, <2>3, LocalMachines, Stutters
<1>5. CASE IntHandlerXHCI
  BY <1>0, <1>5, LocalMachines, Stutters DEF IntHandlerXHCI
<1> QED BY <1>1, <1>2, <1>3, <1>4, <1>5

\* Interrupts of the timer and task switches: every task goes on with the
\* context it stopped with.
LEMMA SwitchesHidden ==
  ASSUME IInv, IInv', SwitchContext \/ IntHandlerLAPICTimer \/ TimerReturns \/ SwitchTask
  PROVE  machines' = machines
<1>0. cur \in Tasks /\ cpu.self = cur /\ kstack' = kstack
  BY DEF IInv, TypeOK, SwitchContext, IntHandlerLAPICTimer, TimerReturns, SwitchTask
<1>1. ASSUME \A t \in Tasks : Stream(t)' = Stream(t) PROVE machines' = machines
  BY <1>0, <1>1 DEF machines, Machine
<1>2. CASE IntHandlerLAPICTimer
  <2>1. ~At("timer") /\ ist' = cpu /\ cpu'.self = cur /\ cpu'.at = "timer" /\ context_' = context_
    <3>1. cpu' = [cpu EXCEPT !.at = "timer", !.if = FALSE, !.cs = 8, !.ss = 0] /\ cpu \in Contexts
      BY <1>2, SelectorValues DEF IntHandlerLAPICTimer, IInv, TypeOK
    <3>2. cpu'.self = cpu.self /\ cpu'.at = "timer"
      BY <3>1 DEF Contexts
    <3> QED BY <1>0, <1>2, <3>2 DEF IntHandlerLAPICTimer, IInv, InTimer
  <2> QED BY <1>0, <1>1, <2>1 DEF Stream, At
<1>3. CASE TimerReturns
  <2>1. At("timer") /\ cpu' = ist /\ ist.self = cur /\ ist.at # "timer" /\ context_' = context_
    BY <1>3 DEF IInv, InTimer, TimerReturns, Sound
  <2> QED BY <1>0, <1>1, <2>1 DEF Stream, At
<1>4. ASSUME NEW t \in Tasks \ {cur}, NEW c,
             context_' = Restored(t, [context_ EXCEPT ![cur] = c]), cpu' = context_[t]
      PROVE  \A u \in Tasks : IF u = cur THEN Stream(u)' = c ELSE Stream(u)' = Stream(u)
  <2>1. context_ \in [Tasks -> Contexts] /\ Saved(context_[t], t)
    BY <1>4 DEF IInv, TypeOK
  <2>2. cpu'.self = t /\ cpu'.at # "timer"
    BY <1>4, <2>1 DEF Saved, Sound
  <2>3. /\ context_'[cur] = c
        /\ \A u \in Tasks \ {t, cur} : context_'[u] = context_[u]
    BY <1>0, <1>4, <2>1 DEF Restored
  <2> QED BY <1>0, <1>4, <2>2, <2>3 DEF Stream, At
<1>5. CASE SwitchTask
  <2>1. PICK t \in Tasks \ {cur} :
          context_' = Restored(t, [context_ EXCEPT ![cur] = ist]) /\ cpu' = context_[t]
    BY <1>5 DEF SwitchTask
  <2>2. \A u \in Tasks : u = cur => Stream(u) = ist
    BY <1>0, <1>5 DEF SwitchTask, Stream
  <2> QED BY <1>1, <1>4, <2>1, <2>2
<1>6. CASE SwitchContext
  <2>0. PICK c : c = Asleep
    OBVIOUS
  <2>1. PICK t \in Tasks \ {cur} :
          context_' = Restored(t, [context_ EXCEPT ![cur] = c]) /\ cpu' = context_[t]
    BY <1>6, <2>0 DEF SwitchContext
  <2>2. cpu.at \in {"syscall", "terminal"} /\ cpu \in Contexts
    BY <1>6 DEF SwitchContext, At, IInv, TypeOK
  <2>3. /\ c.at = IF cpu.at = "syscall" THEN "woken" ELSE "awake"
        /\ c.stack = cpu.stack /\ c.regs = cpu.regs /\ c.cr3 = cpu.cr3
    BY <2>0, <2>2 DEF Contexts, Asleep, At
  <2>4. \A u \in Tasks : IF u = cur THEN Stream(u)' = c ELSE Stream(u)' = Stream(u)
    BY <1>4, <2>1
  <2>5. ASSUME NEW u \in Tasks PROVE Machine(u)' = Machine(u)
    <3>1. CASE u # cur
      BY <1>0, <2>4, <3>1 DEF Machine
    <3>2. CASE u = cur
      <4>1. Stream(u) = cpu /\ Stream(u)' = c
        BY <1>0, <2>2, <2>4, <3>2 DEF Stream, At
      <4>2. Place(c.at) = Place(cpu.at)
        BY <2>2, <2>3, PlaceValues
      <4> QED BY <1>0, <2>2, <2>3, <4>1, <4>2 DEF Machine
    <3> QED BY <3>1, <3>2
  <2> QED BY <2>5 DEF machines
<1> QED BY <1>2, <1>3, <1>5, <1>6

\* The other steps of a virtual processor, by the fields of the machine that
\* takes them.
LEMMA VirtualWorks ==
  ASSUME NEW p \in Tasks, \A t \in Tasks \ {p} : Machine(t)' = Machine(t),
         NEW a, NEW r, NEW s, NEW x, Machine(p) = [at |-> a, regs |-> r, saved |-> s, map |-> x],
         NEW b, NEW q, NEW v, NEW y, Machine(p)' = [at |-> b, regs |-> q, saved |-> v, map |-> y]
  PROVE  /\ a \in {"terminal", "app"} /\ b = a /\ q \in Values /\ v = s /\ y = x => Virtual!Compute(p)
         /\ a = "terminal" /\ b = "loaded" /\ q = r /\ v = s /\ y = p => Virtual!Load(p)
         /\ a = "loaded" /\ b = "app" /\ q \in Values /\ v = r /\ y = x => Virtual!Enter(p)
         /\ a = "leave" /\ b = "returned" /\ q = s /\ v = Unset /\ y = x => Virtual!Leave(p)
         /\ a = "returned" /\ b = "terminal" /\ q = r /\ v = s /\ y = NoTask => Virtual!Unload(p)
         /\ a \in {"loaded", "returned"} /\ b = "terminal" /\ q = r /\ v = s /\ y = Left => Virtual!Fail(p)
<1> DEFINE m == [t \in Tasks |-> Machine(t)]
           n == [t \in Tasks |-> Machine(t)']
<1>0. PICK h, k : h = Machine(p) /\ k = Machine(p)'
  OBVIOUS
<1>1. /\ h = [at |-> a, regs |-> r, saved |-> s, map |-> x]
      /\ k = [at |-> b, regs |-> q, saved |-> v, map |-> y]
  BY <1>0
<1>m. m[p] = h /\ m[p].at = a /\ m[p].regs = r /\ m[p].saved = s
  <2>1. m[p] = h
    BY <1>0
  <2>2. h.at = a /\ h.regs = r /\ h.saved = s
    BY ONLY <1>1
  <2> QED BY <2>1, <2>2
<1>n. n = [m EXCEPT ![p] = k]
  BY <1>0
<1>2. ASSUME a \in {"terminal", "app"}, b = a, q \in Values, v = s, y = x PROVE Virtual!Compute(p)
  <2>1. k = [h EXCEPT !.regs = q]
    BY ONLY <1>1, <1>2
  <2>2. n = [m EXCEPT ![p].regs = q]
    BY <1>m, <1>n, <2>1
  <2> QED BY <1>m, <1>2, <2>2 DEF Virtual!Compute
<1>3. ASSUME a = "terminal", b = "loaded", q = r, v = s, y = p PROVE Virtual!Load(p)
  <2>1. k = [h EXCEPT !.at = "loaded", !.map = p]
    <3>1. PICK i : i = [h EXCEPT !.at = "loaded"]
      OBVIOUS
    <3>2. i = [at |-> "loaded", regs |-> r, saved |-> s, map |-> x]
      BY ONLY <1>1, <3>1
    <3>3. k = [i EXCEPT !.map = p]
      BY ONLY <1>1, <1>3, <3>2
    <3> QED BY ONLY <3>1, <3>3
  <2>2. n = [m EXCEPT ![p].at = "loaded", ![p].map = p]
    BY <1>m, <1>n, <2>1
  <2> QED BY <1>m, <1>3, <2>2 DEF Virtual!Load
<1>4. ASSUME a = "loaded", b = "app", q \in Values, v = r, y = x PROVE Virtual!Enter(p)
  <2>1. k = [h EXCEPT !.at = "app", !.saved = r, !.regs = q]
    <3>1. PICK i : i = [h EXCEPT !.at = "app"]
      OBVIOUS
    <3>2. i = [at |-> "app", regs |-> r, saved |-> s, map |-> x]
      BY ONLY <1>1, <3>1
    <3>3. PICK j : j = [i EXCEPT !.saved = r]
      OBVIOUS
    <3>4. j = [at |-> "app", regs |-> r, saved |-> r, map |-> x]
      BY ONLY <3>2, <3>3
    <3>5. k = [j EXCEPT !.regs = q]
      BY ONLY <1>1, <1>4, <3>4
    <3> QED BY ONLY <3>1, <3>3, <3>5
  <2>2. n = [m EXCEPT ![p].at = "app", ![p].saved = m[p].regs, ![p].regs = q]
    BY <1>m, <1>n, <2>1
  <2> QED BY <1>m, <1>4, <2>2 DEF Virtual!Enter
<1>5. ASSUME a = "leave", b = "returned", q = s, v = Unset, y = x PROVE Virtual!Leave(p)
  <2>1. k = [h EXCEPT !.at = "returned", !.regs = s, !.saved = Unset]
    <3>1. PICK i : i = [h EXCEPT !.at = "returned"]
      OBVIOUS
    <3>2. i = [at |-> "returned", regs |-> r, saved |-> s, map |-> x]
      BY ONLY <1>1, <3>1
    <3>3. PICK j : j = [i EXCEPT !.regs = s]
      OBVIOUS
    <3>4. j = [at |-> "returned", regs |-> s, saved |-> s, map |-> x]
      BY ONLY <3>2, <3>3
    <3>5. k = [j EXCEPT !.saved = Unset]
      BY ONLY <1>1, <1>5, <3>4
    <3> QED BY ONLY <3>1, <3>3, <3>5
  <2>2. n = [m EXCEPT ![p].at = "returned", ![p].regs = m[p].saved, ![p].saved = Unset]
    BY <1>m, <1>n, <2>1
  <2> QED BY <1>m, <1>5, <2>2 DEF Virtual!Leave, Virtual!None, Unset
<1>6. ASSUME a = "returned", b = "terminal", q = r, v = s, y = NoTask PROVE Virtual!Unload(p)
  <2>1. k = [h EXCEPT !.at = "terminal", !.map = NoTask]
    <3>1. PICK i : i = [h EXCEPT !.at = "terminal"]
      OBVIOUS
    <3>2. i = [at |-> "terminal", regs |-> r, saved |-> s, map |-> x]
      BY ONLY <1>1, <3>1
    <3>3. k = [i EXCEPT !.map = NoTask]
      BY ONLY <1>1, <1>6, <3>2
    <3> QED BY ONLY <3>1, <3>3
  <2>2. n = [m EXCEPT ![p].at = "terminal", ![p].map = NoTask]
    BY <1>m, <1>n, <2>1
  <2> QED BY <1>m, <1>6, <2>2 DEF Virtual!Unload
<1>7. ASSUME a \in {"loaded", "returned"}, b = "terminal", q = r, v = s, y = Left PROVE Virtual!Fail(p)
  <2>1. k = [h EXCEPT !.at = "terminal", !.map = Left]
    <3>1. PICK i : i = [h EXCEPT !.at = "terminal"]
      OBVIOUS
    <3>2. i = [at |-> "terminal", regs |-> r, saved |-> s, map |-> x]
      BY ONLY <1>1, <3>1
    <3>3. k = [i EXCEPT !.map = Left]
      BY ONLY <1>1, <1>7, <3>2
    <3> QED BY ONLY <3>1, <3>3
  <2>2. n = [m EXCEPT ![p].at = "terminal", ![p].map = Left]
    BY <1>m, <1>n, <2>1
  <2> QED BY <1>m, <1>7, <2>2 DEF Virtual!Fail
<1> QED BY <1>2, <1>3, <1>4, <1>5, <1>6, <1>7

\* Steps in which a task moves from one place to another.
LEMMA MovingSteps ==
  ASSUME IInv, IInv', Syscall \/ Sysret \/ Exit \/ Fault \/ IntHandlerPF \/ KillApp \/ KillExit
  PROVE  Virtual!Next
<1> PICK p : p = cur
  OBVIOUS
<1> USE DEF At
<1>0. ~At("timer") /\ cur' = cur
  BY DEF Syscall, Sysret, Exit, Fault, IntHandlerPF, KillApp, KillExit, OnlyCpu, OnlyCpuAndStack
<1>c. /\ cpu \in Contexts /\ kstack \in [Tasks -> Frames]
      /\ p \in Tasks /\ cpu.self = p
      /\ cpu.at \in {"syscall", "woken"} => cpu.stack = p
      /\ kstack[p].owner = p
      /\ cpu.at = "fault" => rsp0 = p
  BY <1>0 DEF IInv, TypeOK, Sound, OnKernelStack
<1>1. CASE Syscall
  <2>1. cpu.at = "app" /\ cpu'.at = "entry" /\ cpu'.regs = cpu.regs /\ cpu'.cr3 = cpu.cr3
    BY <1>1, <1>c DEF Syscall, Contexts
  <2>2. kstack' = kstack /\ context_' = context_
    BY <1>1 DEF Syscall, OnlyCpu
  <2>3. Place(cpu.at) = "app" /\ Place(cpu'.at) = "call"
    BY <2>1, PlaceValues
  <2>4. Machine(p).at = "app" /\ Machine(p)' = [Machine(p) EXCEPT !.at = "call"]
    BY <1>0, <2>1, <2>2, <2>3, LocalMachines
  <2> QED BY <1>0, <2>1, <2>2, <2>4, LocalMachines, VirtualMoves DEF Virtual!Next
<1>2. CASE Sysret
  <2>1. cpu.at = "back" /\ cpu'.at = "app" /\ cpu'.regs = cpu.regs /\ cpu'.cr3 = cpu.cr3
    BY <1>2, <1>c DEF Sysret, Contexts
  <2>2. kstack' = kstack /\ context_' = context_
    BY <1>2 DEF Sysret, OnlyCpu
  <2>3. Place(cpu.at) = "call" /\ Place(cpu'.at) = "app"
    BY <2>1, PlaceValues
  <2>4. Machine(p).at = "call" /\ Machine(p)' = [Machine(p) EXCEPT !.at = "app"]
    BY <1>0, <2>1, <2>2, <2>3, LocalMachines
  <2> QED BY <1>0, <2>1, <2>2, <2>4, LocalMachines, VirtualMoves DEF Virtual!Next
<1>3. CASE Fault
  <2>1. cpu.at = "app" /\ cpu'.at = "fault" /\ cpu'.regs = cpu.regs /\ cpu'.cr3 = cpu.cr3
    BY <1>3, <1>c DEF Fault, Contexts
  <2>2. kstack' = kstack /\ context_' = context_
    BY <1>3 DEF Fault, OnlyCpu
  <2>3. Place(cpu.at) = "app" /\ Place(cpu'.at) = "fault"
    BY <2>1, PlaceValues
  <2>4. Machine(p).at = "app" /\ Machine(p)' = [Machine(p) EXCEPT !.at = "fault"]
    BY <1>0, <2>1, <2>2, <2>3, LocalMachines
  <2> QED BY <1>0, <2>1, <2>2, <2>4, LocalMachines, VirtualMoves DEF Virtual!Next
<1>4. CASE IntHandlerPF
  <2>1. cpu.at = "fault" /\ cpu'.at = "app" /\ cpu'.regs = cpu.regs /\ cpu'.cr3 = cpu.cr3
    BY <1>4, <1>c DEF IntHandlerPF, Contexts
  <2>2. kstack' = kstack /\ context_' = context_
    BY <1>4 DEF IntHandlerPF, OnlyCpu
  <2>3. Place(cpu.at) = "fault" /\ Place(cpu'.at) = "app"
    BY <2>1, PlaceValues
  <2>4. Machine(p).at = "fault" /\ Machine(p)' = [Machine(p) EXCEPT !.at = "app"]
    BY <1>0, <2>1, <2>2, <2>3, LocalMachines
  <2> QED BY <1>0, <2>1, <2>2, <2>4, LocalMachines, VirtualMoves DEF Virtual!Next
<1>5. CASE KillApp
  <2>1. cpu.at = "fault" /\ cpu'.at = "kill" /\ cpu'.regs = cpu.regs /\ cpu'.cr3 = cpu.cr3
    BY <1>5, <1>c DEF KillApp, Contexts
  <2>2. kstack' = kstack /\ context_' = context_
    BY <1>5 DEF KillApp, OnlyCpu
  <2>3. Place(cpu.at) = "fault" /\ Place(cpu'.at) = "kill"
    BY <2>1, PlaceValues
  <2>4. Machine(p).at = "fault" /\ Machine(p)' = [Machine(p) EXCEPT !.at = "kill"]
    BY <1>0, <2>1, <2>2, <2>3, LocalMachines
  <2> QED BY <1>0, <2>1, <2>2, <2>4, LocalMachines, VirtualMoves DEF Virtual!Next
<1>6. CASE KillExit
  <2>1. cpu.at = "kill" /\ cpu'.at \in {"leave", "lost"} /\ cpu'.regs = cpu.regs /\ cpu'.cr3 = cpu.cr3
    BY <1>6, <1>c DEF KillExit, Contexts
  <2>2. kstack' = kstack /\ context_' = context_
    BY <1>6 DEF KillExit, OnlyCpu
  <2>3. Place(cpu.at) = "kill" /\ Place(cpu'.at) = cpu'.at
    BY <2>1, PlaceValues
  <2>4. Machine(p).at = "kill" /\ Machine(p)' = [Machine(p) EXCEPT !.at = cpu'.at]
    BY <1>0, <2>1, <2>2, <2>3, LocalMachines
  <2>5. Virtual!Moves(p, "kill", "leave") \/ Virtual!Moves(p, "kill", "lost")
    BY <1>0, <2>1, <2>2, <2>4, LocalMachines, VirtualMoves
  <2> QED BY <1>c, <2>5 DEF Virtual!Next
<1>7. CASE Exit
  <2>1. /\ cpu.at = "syscall" /\ cpu'.at = "leave" /\ cpu'.regs = kstack[p].regs /\ cpu'.cr3 = cpu.cr3
        /\ kstack' = [kstack EXCEPT ![p].owner = p, ![p].regs = Unset] /\ cpu.stack = p
    BY <1>7, <1>c DEF Exit, Return, Popped, Contexts
  <2>2. context_' = context_ /\ kstack'[p].call = kstack[p].call
        /\ \A t \in Tasks \ {p} : kstack'[t] = kstack[t]
    BY <1>7, <1>c, <2>1 DEF Exit, OnlyCpuAndStack, Frames
  <2>3. Place(cpu.at) = "call" /\ Place(cpu'.at) = "leave"
    BY <2>1, PlaceValues
  <2>4. Machine(p).at = "call" /\ Machine(p)' = [Machine(p) EXCEPT !.at = "leave"]
    <3>1. cpu.at \in {"syscall", "woken"} /\ cpu'.at \notin {"syscall", "woken"}
      BY <2>1
    <3>2. /\ Machine(p) = [at |-> "call", regs |-> kstack[p].regs, saved |-> kstack[p].call, map |-> cpu.cr3]
          /\ Machine(p)' = [at |-> "leave", regs |-> kstack[p].regs, saved |-> kstack[p].call, map |-> cpu.cr3]
      BY <1>0, <2>1, <2>2, <2>3, <3>1, LocalMachines
    <3> QED BY <3>2
  <2> QED BY <1>0, <2>1, <2>2, <2>4, LocalMachines, VirtualMoves DEF Virtual!Next
<1> QED BY <1>1, <1>2, <1>3, <1>4, <1>5, <1>6, <1>7

\* The terminal and the application compute, an application is loaded, called,
\* ended and unloaded.
LEMMA WorkingSteps ==
  ASSUME IInv, IInv', Compute \/ SetupPML4 \/ ExecuteFails \/ CallApp \/ ExitApp \/ ResetCR3
  PROVE  Virtual!Next
<1> PICK p : p = cur
  OBVIOUS
<1> USE DEF At
<1>0. ~At("timer") /\ cur' = cur
  BY DEF Compute, SetupPML4, ExecuteFails, CallApp, ExitApp, ResetCR3, OnlyCpu, OnlyCpuAndStack
<1>c. /\ cpu \in Contexts /\ context_ \in [Tasks -> Contexts] /\ kstack \in [Tasks -> Frames]
      /\ p \in Tasks /\ cpu.self = p
      /\ cpu.at \in HoldsPointer => cpu.rax = p
  BY <1>0 DEF IInv, TypeOK, Sound
<1>1. CASE Compute
  <2>1. PICK v \in Values : cpu' = [cpu EXCEPT !.regs = v]
    BY <1>1 DEF Compute
  <2>2. /\ cpu.at \in {"terminal", "app"} /\ cpu'.at = cpu.at /\ cpu'.cr3 = cpu.cr3 /\ cpu'.regs = v
        /\ kstack' = kstack /\ context_' = context_
    BY <1>1, <1>c, <2>1 DEF Compute, Contexts, OnlyCpu
  <2>3. Place(cpu.at) = cpu.at
    BY <2>2, PlaceValues
  <2>4. /\ Machine(p) = [at |-> cpu.at, regs |-> cpu.regs, saved |-> kstack[p].call, map |-> cpu.cr3]
        /\ Machine(p)' = [at |-> cpu.at, regs |-> v, saved |-> kstack[p].call, map |-> cpu.cr3]
        /\ \A t \in Tasks \ {p} : Machine(t)' = Machine(t)
    BY <1>0, <2>2, <2>3, LocalMachines
  <2>5. Virtual!Compute(p)
    BY <1>c, <2>2, <2>4, VirtualWorks
  <2> QED BY <1>c, <2>5 DEF Virtual!Next
<1>2. CASE SetupPML4
  <2>1. /\ cpu.at = "terminal" /\ cpu'.at = "loaded" /\ cpu'.cr3 = p /\ cpu'.regs = cpu.regs
        /\ kstack' = kstack /\ \A t \in Tasks \ {p} : context_'[t] = context_[t]
    BY <1>2, <1>c DEF SetupPML4, Contexts
  <2>2. Place(cpu.at) = "terminal" /\ Place(cpu'.at) = "loaded"
    BY <2>1, PlaceValues
  <2>3. /\ Machine(p) = [at |-> "terminal", regs |-> cpu.regs, saved |-> kstack[p].call, map |-> cpu.cr3]
        /\ Machine(p)' = [at |-> "loaded", regs |-> cpu.regs, saved |-> kstack[p].call, map |-> p]
        /\ \A t \in Tasks \ {p} : Machine(t)' = Machine(t)
    BY <1>0, <2>1, <2>2, LocalMachines
  <2>4. Virtual!Load(p)
    BY <1>c, <2>3, VirtualWorks
  <2> QED BY <1>c, <2>4 DEF Virtual!Next
<1>3. CASE CallApp
  <2>1. PICK v \in Values :
          cpu' = [cpu EXCEPT !.at = "app", !.stack = App, !.regs = v, !.ss = 27, !.cs = 35]
    BY <1>3, SelectorValues DEF CallApp
  <2>2. /\ cpu.at = "loaded" /\ context_' = context_ /\ kstack' = [kstack EXCEPT ![p].call = cpu.regs]
    BY <1>3, <1>c DEF CallApp
  <2>3. cpu'.at = "app" /\ cpu'.cr3 = cpu.cr3 /\ cpu'.regs = v /\ cpu.regs \in Values
    BY <1>c, <2>1 DEF Contexts
  <2>4. kstack'[p].call = cpu.regs /\ \A t \in Tasks \ {p} : kstack'[t] = kstack[t]
    BY <1>c, <2>2 DEF Frames
  <2>5. Place(cpu.at) = "loaded" /\ Place(cpu'.at) = "app"
    BY <2>2, <2>3, PlaceValues
  <2>6. /\ Machine(p) = [at |-> "loaded", regs |-> cpu.regs, saved |-> kstack[p].call, map |-> cpu.cr3]
        /\ Machine(p)' = [at |-> "app", regs |-> v, saved |-> cpu.regs, map |-> cpu.cr3]
        /\ \A t \in Tasks \ {p} : Machine(t)' = Machine(t)
    BY <1>0, <2>2, <2>3, <2>4, <2>5, LocalMachines
  <2>7. Virtual!Enter(p)
    BY <1>c, <2>6, VirtualWorks
  <2> QED BY <1>c, <2>7 DEF Virtual!Next
<1>4. CASE ExitApp
  <2>1. /\ cpu.at = "leave" /\ cpu'.at = "returned" /\ cpu'.cr3 = cpu.cr3 /\ cpu'.regs = kstack[p].call
        /\ kstack' = [kstack EXCEPT ![p].call = Unset] /\ context_' = context_
    BY <1>4, <1>c DEF ExitApp, Contexts, OnlyCpuAndStack, HoldsPointer
  <2>2. kstack'[p].call = Unset /\ \A t \in Tasks \ {p} : kstack'[t] = kstack[t]
    BY <1>c, <2>1 DEF Frames
  <2>3. Place(cpu.at) = "leave" /\ Place(cpu'.at) = "returned"
    BY <2>1, PlaceValues
  <2>4. /\ Machine(p) = [at |-> "leave", regs |-> cpu.regs, saved |-> kstack[p].call, map |-> cpu.cr3]
        /\ Machine(p)' = [at |-> "returned", regs |-> kstack[p].call, saved |-> Unset, map |-> cpu.cr3]
        /\ \A t \in Tasks \ {p} : Machine(t)' = Machine(t)
    BY <1>0, <2>1, <2>2, <2>3, LocalMachines
  <2>5. Virtual!Leave(p)
    BY <1>c, <2>4, VirtualWorks
  <2> QED BY <1>c, <2>5 DEF Virtual!Next
<1>5. CASE ResetCR3
  <2>1. /\ cpu.at = "freeing" /\ cpu'.at = "terminal" /\ cpu'.cr3 = NoTask /\ cpu'.regs = cpu.regs
        /\ kstack' = kstack /\ context_' = context_
    BY <1>5, <1>c DEF ResetCR3, Contexts, OnlyCpu
  <2>2. Place(cpu.at) = "returned" /\ Place(cpu'.at) = "terminal"
    BY <2>1, PlaceValues
  <2>3. /\ Machine(p) = [at |-> "returned", regs |-> cpu.regs, saved |-> kstack[p].call, map |-> cpu.cr3]
        /\ Machine(p)' = [at |-> "terminal", regs |-> cpu.regs, saved |-> kstack[p].call, map |-> NoTask]
        /\ \A t \in Tasks \ {p} : Machine(t)' = Machine(t)
    BY <1>0, <2>1, <2>2, LocalMachines
  <2>4. Virtual!Unload(p)
    BY <1>c, <2>3, VirtualWorks
  <2> QED BY <1>c, <2>4 DEF Virtual!Next
<1>6. CASE ExecuteFails
  <2>1. /\ cpu.at \in {"loaded", "returned"} /\ cpu'.at = "terminal" /\ cpu'.cr3 = Left
        /\ cpu'.regs = cpu.regs
        /\ kstack' = kstack /\ \A t \in Tasks \ {p} : context_'[t] = context_[t]
    BY <1>6, <1>c DEF ExecuteFails, Contexts
  <2>2. Place(cpu.at) = cpu.at /\ Place(cpu'.at) = "terminal"
    BY <2>1, PlaceValues
  <2>3. /\ Machine(p) = [at |-> cpu.at, regs |-> cpu.regs, saved |-> kstack[p].call, map |-> cpu.cr3]
        /\ Machine(p)' = [at |-> "terminal", regs |-> cpu.regs, saved |-> kstack[p].call, map |-> Left]
        /\ \A t \in Tasks \ {p} : Machine(t)' = Machine(t)
    BY <1>0, <2>1, <2>2, LocalMachines
  <2>4. Virtual!Fail(p)
    BY <1>c, <2>1, <2>3, VirtualWorks
  <2> QED BY <1>c, <2>4 DEF Virtual!Next
<1> QED BY <1>1, <1>2, <1>3, <1>4, <1>5, <1>6

\* Whatever the timer, faults, the USB interrupt and calls to Sleep interleave,
\* each of any number of tasks has a processor of its own: it goes on with the
\* registers and the page map it stopped with, and system calls and CallApp
\* return what they saved.
THEOREM TasksHaveProcessors == Spec => ProcessorsAreVirtual
<1>1. IInv /\ IInv' /\ [Next]_vars => [Virtual!Next]_machines
  <2> SUFFICES ASSUME IInv, IInv', [Next]_vars PROVE Virtual!Next \/ machines' = machines
    OBVIOUS
  <2>1. CASE Next
    BY <2>1, HiddenSteps, SwitchesHidden, MovingSteps, WorkingSteps DEF Next
  <2>2. CASE UNCHANGED vars
    BY <2>2 DEF vars, machines, Machine, Stream, At
  <2> QED BY <2>1, <2>2
<1> QED BY <1>1, VirtualInit, AlwaysSound, PTL DEF Spec, ProcessorsAreVirtual, Virtual!Spec, machines

=============================================================================
