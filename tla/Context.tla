------------------------------ MODULE Context ------------------------------
(***************************************************************************)
(* One processor shared by tasks that run applications: the segments        *)
(* (segment.cpp), the interrupt gates and fault handlers (interrupt.cpp),   *)
(* CallApp, SyscallEntry, ExitApp, SwitchContext and the timer's handler    *)
(* (asmfunc.asm), and the task manager's use of them (task.cpp).            *)
(*                                                                          *)
(* A context is what TaskContext holds: the place in the code (rip), the    *)
(* stack (rsp), cr3, the interrupt flag, the selectors and one value for    *)
(* the registers a callee keeps.  Its field "self" is the task whose code   *)
(* it is, which only the properties use.  Tasks run in any order: that      *)
(* order is the subject of TaskManager.                                     *)
(***************************************************************************)
EXTENDS Integers

CONSTANTS Tasks, Values, NoTask

ASSUME TasksAssumption == NoTask \notin Tasks /\ Values # {}

VARIABLES
  cpu,            \* the processor's registers; "rax" a pointer just computed
  cur,            \* TaskManager::CurrentTask
  context_,       \* task -> Task::context_
  os_stack_ptr_,  \* task -> the kernel stack CallApp left its frame on
  kstack,         \* task -> frames on its kernel stack: CallApp's and a handler's
  rsp0,           \* task whose frame is on the stack of the TSS, shared by all
  ist             \* context pushed by the timer's handler on its own stack, or NoTask

vars == <<cpu, cur, context_, os_stack_ptr_, kstack, rsp0, ist>>

App == "app stack"      \* the application's stack, in the memory cr3 maps
Rsp0 == "rsp0 stack"
ASSUME StacksAssumption == App \notin Tasks /\ Rsp0 \notin Tasks     \* separate memory

\* In cr3: NoTask is the kernel's page map, a task the one of its application,
\* Left one that an ExecuteFile which failed has left behind and nobody frees.
Left == "left map"
ASSUME MapsAssumption == Left \notin Tasks /\ Left # NoTask
Unset == CHOOSE v \in Values : TRUE

-----------------------------------------------------------------------------
(* Segments.                                                                *)

kKernelCS == 8
kKernelSS == 16
kUserSS == 3 * 8 + 3

SetupSegments == [i \in 1 .. 4 |-> [code |-> i \in {1, 4}, dpl |-> IF i <= 2 THEN 0 ELSE 3]]

\* The selectors of STAR, and what the instructions make of them.
InitializeSyscall == [call |-> 8, ret |-> 16 + 3]
SyscallSelectors == [cs |-> InitializeSyscall.call, ss |-> InitializeSyscall.call + 8]
SysretSelectors ==
  LET base == InitializeSyscall.ret
  IN  [cs |-> base + 16, ss |-> base + 8]      \* base already carries RPL 3

\* The gates: kernel code segment; an inter-privilege entry nulls SS; IF is cleared.
GateSelectors == [cs |-> kKernelCS, ss |-> 0]

-----------------------------------------------------------------------------

\* A terminal task after NewTask().InitContext(TaskTerminal, ...), on the page
\* map its creator (the main task or another terminal) was running on.
InitContext(t, map) ==
  [self |-> t, at |-> "terminal", stack |-> t, cr3 |-> map, if |-> TRUE,
   cs |-> kKernelCS, ss |-> kKernelSS, regs |-> Unset, rax |-> NoTask]

Init ==
  /\ cur \in Tasks
  /\ \E map \in [Tasks -> {NoTask, Left}] : context_ = [t \in Tasks |-> InitContext(t, map[t])]
  /\ cpu = context_[cur]
  /\ os_stack_ptr_ = [t \in Tasks |-> NoTask]
  /\ kstack = [t \in Tasks |-> [call |-> Unset, owner |-> t, regs |-> Unset]]
  /\ rsp0 = NoTask
  /\ ist = NoTask

At(place) == cpu.at = place

\* RestoreContext.  While a task runs only cr3 of its context is read again
\* before it is overwritten; the rest is dead and set back to save states.
Restored(t, c) == [c EXCEPT ![t] = InitContext(t, c[t].cr3)]
Popped(s) == [kstack EXCEPT ![s].owner = s, ![s].regs = Unset]
OnlyCpu == UNCHANGED <<cur, context_, os_stack_ptr_, kstack, rsp0, ist>>
OnlyCpuAndStack == UNCHANGED <<cur, context_, os_stack_ptr_, rsp0, ist>>

\* The terminal or the application computes.
Compute ==
  /\ cpu.at \in {"terminal", "app"}
  /\ \E v \in Values : cpu' = [cpu EXCEPT !.regs = v]
  /\ OnlyCpu

\* Mutant: the context is not told the new page map.
SetupPML4Unnoted ==
  /\ At("terminal")
  /\ cpu' = [cpu EXCEPT !.at = "loaded", !.cr3 = cpu.self]
  /\ OnlyCpu

\* LoadApp: the page map is new, and noted in the context for FreePML4.
SetupPML4 ==
  /\ At("terminal")
  /\ cpu' = [cpu EXCEPT !.at = "loaded", !.cr3 = cpu.self]
  /\ context_' = [context_ EXCEPT ![cpu.self].cr3 = cpu.self]
  /\ UNCHANGED <<cur, os_stack_ptr_, kstack, rsp0, ist>>

\* ExecuteFile returns an error: the file is no ELF file, a page map, the stack
\* or the arguments do not fit, or CleanPageMaps fails after the application.
\* The terminal goes on with cr3 and the context's cr3 as they are.
ExecuteFails ==
  /\ cpu.at \in {"loaded", "returned"}
  /\ cpu' = [cpu EXCEPT !.at = "terminal", !.cr3 = Left]
  /\ context_' = [context_ EXCEPT ![cpu.self].cr3 = Left]
  /\ UNCHANGED <<cur, os_stack_ptr_, kstack, rsp0, ist>>

CallApp ==
  /\ At("loaded")
  /\ kstack' = [kstack EXCEPT ![cpu.self].call = cpu.regs]
  /\ os_stack_ptr_' = [os_stack_ptr_ EXCEPT ![cpu.self] = cpu.self]
  /\ \E v \in Values :
       cpu' = [cpu EXCEPT !.at = "app", !.stack = App, !.regs = v,
                          !.ss = kUserSS, !.cs = kUserSS + 8]
  /\ UNCHANGED <<cur, context_, rsp0, ist>>

-----------------------------------------------------------------------------
(* System calls.  FMASK is 0: SyscallEntry starts on the application's      *)
(* stack with interrupts enabled.                                           *)

Syscall ==
  /\ At("app")
  /\ cpu' = [cpu EXCEPT !.at = "entry", !.cs = SyscallSelectors.cs, !.ss = SyscallSelectors.ss]
  /\ OnlyCpu

EntryCli ==
  /\ At("entry")
  /\ cpu' = [cpu EXCEPT !.at = "masked", !.if = FALSE]
  /\ OnlyCpu

GetCurrentTaskOSStackPointer ==
  /\ At("masked")
  /\ cpu' = [cpu EXCEPT !.at = "found", !.rax = os_stack_ptr_[cur]]
  /\ OnlyCpu

EntrySti ==
  /\ At("found")
  /\ cpu' = [cpu EXCEPT !.at = "ready", !.if = TRUE]
  /\ OnlyCpu

\* The handler's frame, with the registers it must keep, below CallApp's.
CallHandler ==
  /\ At("ready")
  /\ cpu' = [cpu EXCEPT !.at = "syscall", !.stack = cpu.rax, !.rax = NoTask, !.regs = Unset]
  /\ kstack' = [kstack EXCEPT ![cpu.rax].owner = cpu.self, ![cpu.rax].regs = cpu.regs]
  /\ OnlyCpuAndStack

\* What SwitchContext saves: masked, inside a handler or in the terminal.
Asleep == [cpu EXCEPT !.at = IF At("syscall") THEN "woken" ELSE "awake", !.if = FALSE]

\* A handler that waits (ReadEvent, reading from the keyboard or a pipe) and a
\* terminal that waits for a message or in WaitFinish call cli and Sleep:
\* SwitchContext saves after its own return address and falls through into
\* RestoreContext.
SwitchContext ==
  /\ cpu.at \in {"syscall", "terminal"}
  /\ \E t \in Tasks \ {cur} :
       /\ context_' = Restored(t, [context_ EXCEPT ![cur] = Asleep])
       /\ cur' = t
       /\ cpu' = context_[t]
  /\ UNCHANGED <<os_stack_ptr_, kstack, rsp0, ist>>

WokenSti ==
  /\ cpu.at \in {"woken", "awake"}
  /\ cpu' = [cpu EXCEPT !.at = IF At("woken") THEN "syscall" ELSE "terminal", !.if = TRUE]
  /\ OnlyCpu

\* The handler restores the registers and returns; rsp is the application's.
Return(place, rax) ==
  cpu' = [cpu EXCEPT !.at = IF kstack[cpu.stack].owner = cpu.self THEN place ELSE "lost",
                     !.regs = kstack[cpu.stack].regs, !.stack = App, !.rax = rax]

HandlerReturns ==
  /\ At("syscall")
  /\ Return("back", NoTask)
  /\ kstack' = Popped(cpu.stack)
  /\ OnlyCpuAndStack

Sysret ==
  /\ At("back")
  /\ cpu' = [cpu EXCEPT !.at = "app", !.cs = SysretSelectors.cs, !.ss = SysretSelectors.ss]
  /\ OnlyCpu

\* syscall::Exit returns the stack pointer that .exit hands to ExitApp.
Exit ==
  /\ At("syscall")
  /\ Return("leave", os_stack_ptr_[cur])
  /\ kstack' = Popped(cpu.stack)
  /\ OnlyCpuAndStack

ExitApp ==
  /\ At("leave")
  /\ cpu' = [cpu EXCEPT !.at = "returned", !.stack = cpu.rax, !.regs = kstack[cpu.rax].call,
                        !.rax = NoTask]
  /\ kstack' = [kstack EXCEPT ![cpu.rax].call = Unset]
  /\ OnlyCpuAndStack

\* FreePML4 takes the page map from the context, clears it there, ...
FreePML4 ==
  /\ At("returned")
  /\ cpu' = [cpu EXCEPT !.at = "freeing", !.rax = context_[cpu.self].cr3]
  /\ context_' = [context_ EXCEPT ![cpu.self].cr3 = NoTask]
  /\ UNCHANGED <<cur, os_stack_ptr_, kstack, rsp0, ist>>

\* ... goes back to the kernel's and frees the pages.
ResetCR3 ==
  /\ At("freeing")
  /\ cpu' = [cpu EXCEPT !.at = "terminal", !.cr3 = NoTask, !.rax = NoTask]
  /\ OnlyCpu

-----------------------------------------------------------------------------
(* Faults and interrupts.                                                   *)

\* Any fault of an application enters through an interrupt gate without IST.
Fault ==
  /\ At("app")
  /\ cpu' = [cpu EXCEPT !.at = "fault", !.stack = Rsp0, !.if = FALSE,
                        !.cs = GateSelectors.cs, !.ss = GateSelectors.ss]
  /\ rsp0' = cpu.self
  /\ UNCHANGED <<cur, context_, os_stack_ptr_, kstack, ist>>

\* HandlePageFault repairs the fault and IntHandlerPF returns.
IntHandlerPF ==
  /\ At("fault")
  /\ cpu' = [cpu EXCEPT !.at = IF rsp0 = cpu.self THEN "app" ELSE "lost", !.stack = App,
                        !.if = TRUE, !.cs = SysretSelectors.cs, !.ss = SysretSelectors.ss]
  /\ OnlyCpu

\* It cannot, or another fault: KillApp enables interrupts on the shared stack,
\* and calls OSStackPointer.
KillApp ==
  /\ At("fault")
  /\ cpu' = [cpu EXCEPT !.at = "kill", !.if = TRUE]
  /\ OnlyCpu

\* The call returns through that stack.  If another application entered the
\* kernel there in the meantime the return address may be gone.
KillExit ==
  /\ At("kill")
  /\ \/ cpu' = [cpu EXCEPT !.at = "leave", !.rax = os_stack_ptr_[cpu.self]]
     \/ /\ rsp0 # cpu.self
        /\ cpu' = [cpu EXCEPT !.at = "lost"]
  /\ OnlyCpu

\* The xHCI interrupt has no IST either; its handler returns at once.
IntHandlerXHCI ==
  /\ cpu.if
  /\ At("app")
  /\ rsp0' = cpu.self
  /\ UNCHANGED <<cpu, cur, context_, os_stack_ptr_, kstack, ist>>

\* The timer's handler builds a TaskContext on the stack of its IST entry.
IntHandlerLAPICTimer ==
  /\ cpu.if
  /\ ist' = cpu
  /\ cpu' = [cpu EXCEPT !.at = "timer", !.if = FALSE,
                        !.cs = GateSelectors.cs, !.ss = GateSelectors.ss]
  /\ UNCHANGED <<cur, context_, os_stack_ptr_, kstack, rsp0>>

\* LAPICTimerOnInterrupt without a switch: the registers are popped again.
TimerReturns ==
  /\ At("timer")
  /\ cpu' = ist
  /\ ist' = NoTask
  /\ UNCHANGED <<cur, context_, os_stack_ptr_, kstack, rsp0>>

\* Mutant: the queue is rotated before the context is copied.
SwitchTaskRotatesFirst ==
  /\ At("timer")
  /\ \E t \in Tasks \ {cur} :
       /\ context_' = [context_ EXCEPT ![t] = ist]
       /\ cur' = t
       /\ cpu' = context_'[t]
       /\ ist' = NoTask
  /\ UNCHANGED <<os_stack_ptr_, kstack, rsp0>>

\* With one: the context is copied before the queue is rotated.
SwitchTask ==
  /\ At("timer")
  /\ \E t \in Tasks \ {cur} :
       /\ context_' = Restored(t, [context_ EXCEPT ![cur] = ist])
       /\ cur' = t
       /\ cpu' = context_[t]
       /\ ist' = NoTask
  /\ UNCHANGED <<os_stack_ptr_, kstack, rsp0>>

Next ==
  \/ Compute \/ SetupPML4 \/ ExecuteFails \/ CallApp \/ FreePML4 \/ ResetCR3
  \/ Syscall \/ EntryCli \/ GetCurrentTaskOSStackPointer \/ EntrySti
  \/ CallHandler \/ SwitchContext \/ WokenSti \/ HandlerReturns \/ Sysret
  \/ Exit \/ ExitApp
  \/ Fault \/ IntHandlerPF \/ KillApp \/ KillExit \/ IntHandlerXHCI
  \/ IntHandlerLAPICTimer \/ TimerReturns \/ SwitchTask

Spec == Init /\ [][Next]_vars

-----------------------------------------------------------------------------
(* Properties.                                                              *)

\* The context from which task t goes on: the processor's, the one the timer's
\* handler has pushed, or the one that was saved.
Stream(t) ==
  IF cpu.self # t THEN context_[t] ELSE IF At("timer") THEN ist ELSE cpu

Place(at) ==
  CASE at \in {"entry", "masked", "found", "ready", "syscall", "woken", "back"} -> "call"
    [] at = "freeing" -> "returned"
    [] at = "awake" -> "terminal"
    [] OTHER -> at

\* The processor task t believes to have.  While a handler runs the
\* application's registers are in its frame.
Machine(t) ==
  LET c == Stream(t)
  IN  [at |-> Place(c.at),
       regs |-> IF c.at \in {"syscall", "woken"} THEN kstack[c.stack].regs ELSE c.regs,
       saved |-> kstack[t].call,
       map |-> c.cr3]

Virtual == INSTANCE VirtualProcessor
             WITH NoMap <- NoTask, LeftMap <- Left, machine <- [t \in Tasks |-> Machine(t)]

\* Every task has a processor of its own: whatever the timer, the USB
\* interrupt, faults and calls to Sleep interleave, a task goes on with the
\* registers and the page map it stopped with, CallApp and system calls
\* return what they saved, and only an application that is being killed can
\* lose its frame.
ProcessorsAreVirtual == Virtual!Spec

\* The processor runs the code of the current task, what touches an
\* application's memory runs under its page map, FreePML4 frees the page map of
\* the application that has ended and never one a terminal runs on: a terminal
\* is on the kernel's map or on one that stays; and whichever way the kernel is entered and
\* left the selectors name segments of the privilege level the place needs
\* (the order of gdt[3] and gdt[4], STAR and CallApp's SS + 8 must agree).
ContextMatches ==
  LET gdt == SetupSegments
      Is(sel, code, dpl) ==
        /\ sel \div 8 \in DOMAIN gdt
        /\ gdt[sel \div 8] = [code |-> code, dpl |-> dpl]
        /\ sel % 4 = dpl
  IN  /\ cpu.self = cur
      /\ cpu.stack = App => cpu.cr3 = cpu.self
      /\ At("freeing") => cpu.rax = cpu.self
      /\ cpu.at \in {"terminal", "awake"} => cpu.cr3 \in {NoTask, Left} /\ cpu.stack = cpu.self
      /\ IF At("app")
         THEN Is(cpu.cs, TRUE, 3) /\ Is(cpu.ss, FALSE, 3)
         ELSE Is(cpu.cs, TRUE, 0) /\ (cpu.ss = 0 \/ Is(cpu.ss, FALSE, 0))
=============================================================================
