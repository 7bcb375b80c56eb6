# A TLA+ model of min-os

min-os is a small x86-64 operating system (C++, one processor, derived from the
MikanOS book): a UEFI boot loader, a preemptive kernel with tasks, timers,
paging, a FAT file system in memory, windows, a USB host controller driver,
terminals, and applications. There are no tests in the repository. This
directory holds TLA+ modules translated from its source, the TLC configurations
that check them, and TLAPS proofs about them. Source paths below are relative
to `src/kernel/` unless they begin with `apps/` or `bootloader/`.

## The system

| Component | State | Operations | What makes it correct |
|---|---|---|---|
| Boot loader (`bootloader/MinLoaderPkg/Main.c`) | memory map and its key, buffers, the loaded kernel and volume | get the map, load, copy segments, `ExitBootServices` | the kernel gets the map boot services ended with, and none of what it was given is marked available |
| PCI, ACPI (`pci.cpp`, `acpi.cpp`) | the table `devices`; the power management timer | `ScanAllBus`, `WaitMilliseconds` | every reachable function is found; a wait is long enough |
| USB (`usb/`) | command, transfer and event rings, ports | reset, start, `ScanPorts`, `AddressDevice`, `ControlTransfer` | both sides agree on the cycle bits; answers go with requests; a bad port costs no other its turn; it ends |
| Task scheduler (`task.cpp`) | run queue per level, `current_level_`, `level_changed_`, level and running flag per task, `msgs_`, `finish_tasks_`, `finish_waiter_` | `NewTask`, `Wakeup`, `Sleep`, `SwitchTask`, `SendMessage`, `ReceiveMessage`, `Finish`, `WaitFinish` | flags and queues agree; the current task exists; no wakeup and no exit is lost; the highest level runs; tasks of a level take turns |
| Context switching (`asmfunc.asm`, `interrupt.cpp`, `segment.cpp`) | registers, stacks, `os_stack_ptr_`, descriptor tables | `SwitchContext`, `CallApp`, `SyscallEntry`, `ExitApp`, fault handlers | every task seems to have a processor of its own |
| Timers (`timer.cpp`) | `tick_`, the heap `timers_` | `Tick` in the interrupt, `AddTimer` from tasks | on time, in order, preemption never stops, repeating timers are neither lost nor doubled by those who re-arm them |
| Frame allocator (`memory_manager.cpp`) | bitmap, range | boot-time scan, `Allocate`, `Free` | only usable frames are handed out, each to one holder, none is lost |
| Paging and loading (`paging.cpp`, `terminal.cpp`) | page maps, `app_loads`, per-task demand-paging range and file maps | `SetupPageMaps`, `CleanPageMaps`, `CopyPageMaps`, page fault handler, `LoadApp`, `ExecuteFile` | no frame is shared by accident or freed twice; none is leaked; memory is private |
| FAT file system (`fat.cpp`) | the FAT, directory entries, a read and a write position per descriptor | `ExtendCluster`, `AllocateEntry`, `CreateFile`, `Read`, `Write`, `Load` | chains are disjoint and end; a file reads back what was written |
| Pipes (`terminal.cpp`) | rest of the last message, `closed_`; the reader's `msgs_` | `Write`, `FinishWrite`, `Read` | a byte channel: each byte once, in order, then the end of input |
| Terminal (`terminal.cpp`) | line buffer, history, cursor, descriptors, keyboard routing | `InputKey`, `Print`, `ExecuteLine` | what is executed is what is shown; printing stays in the window; descriptors and keyboard come back; a line ends |
| Layers, windows, mouse (`layer.cpp`, `mouse.cpp`, `window.cpp`) | the layer stack, the active layer, drag state, the back buffer | `UpDown`, `Hide`, `Activate`, `Draw`, `Move`, `CloseLayer`, `OnInterrupt` | each layer is in the stack once and alive; the active window is the one on top and lit; the screen shows the stack |
| Console, fonts, graphics (`console.cpp`, `font.cpp`, `graphics.hpp`, `frame_buffer.cpp`) | the console's text and cursor | `PutString`, `Newline`, `Refresh`; drawing functions | the console shows the last lines; text, lines and blocks of pixels are exact |
| System calls (`syscall.cpp`) | the caller's descriptors | 16 calls | as the components they call |
| Applications (`apps/`) | their own | `main` | filters print what they should; programs stay in their windows, buffers and heap |

**Interaction.** Components call each other directly; the concurrency is (a)
the timer interrupt, which sends messages, may switch tasks, and runs between
any two instructions of a task that has not executed `cli`, (b) through it, the
interleaving of tasks, and (c) at boot, firmware and the USB controller, which
change memory behind the driver's back. Tasks communicate through `msgs_`. A
section between `cli` and `sti` is therefore one action in every module, and
code outside such a section is split where a switch could matter.

**What is hard here**: sleeping and waking around an interrupt; exits racing
the parent's wait; spurious wakeups; raw `Task*` and `Layer*` kept across sleeps
and switches; timers re-armed by whoever handles their message; a global
allocator, a global FAT and a global layer stack updated without masking; values
read before `cli` and used after it; frames shared until somebody writes; rings
that wrap; the boundaries of clusters, queues, ranges and buffers.
`PROJECT.json` lists the hazards with their lines.

## Modules

| Module | Models |
|---|---|
| `TaskManager`, `MCTaskManager` | the scheduler, message presence, exits and waiting; fairness and a bound on messages |
| `TimerManager` | timers and all tasks that use them |
| `MemoryManager`, `MCMemoryManager` | the allocator; all small memory maps |
| `MCMemoryRace` | `Allocate` interrupted between search and marking |
| `ByteChannel`, `Pipe` | what a pipe promises; `PipeDescriptor` |
| `Fat`, `MCFat` | the volume, its root directory, and file descriptors; symmetry |
| `Layer`, `MCLayer` | layer stack, drawing, activation, mouse, windows of applications and terminals; a bound |
| `Paging`, `MCPaging` | address spaces, loading, copy on write, page faults; symmetry |
| `Pci`, `Xhci`, `Boot`, `MCBoot` | PCI scan; USB; the boot from firmware to event loop, which composes both; small machines |
| `Terminal`, `MCTerminal` | line editor, printing, command execution; the lines typed |
| `VirtualProcessor`, `Context` | a processor per task; how interrupts, calls and switches provide it |
| `Screen`, `Names`, `Apps`, `MCPrograms` | console, text box and drawing; file names and paths; applications; their inputs |
| `TaskManagerProofs`, `TimerManagerProofs`, `MemoryProofs` (`MemoryManager` and `Paging`), `ContextProofs`, `FatProofs`, `BootProofs`, `LayerProofs`, `TerminalProofs` (`Terminal` and `Pipe`) | the proofs |

Definitions whose comment begins with "Mutant" are wrong variants of the
definition they precede. No specification uses them: they document which bug
each property would expose.

### TaskManager

The five fields that decide who runs form the record `sched`; each member
function is an operator from one such record to the next, so that `Finish`
composes `RotateCurrentRunQueue` and `Wakeup` as the source does. Two variables
describe what tasks are doing: `subtask_id` (the pipe child `ExecuteLine` has
started) and `waiting` (inside `WaitFinish`, where interrupts stay masked, also
after the task was switched away and resumed). Message contents are abstracted
to a count, exit codes to their presence. `NewTask`/`InitContext`/`Wakeup` are
one action although the callers do not mask interrupts around them; the hazard
list says what this hides. Bounds: five task ids, that is three terminal tasks
at a time and exits with no reuse of ids; two queued messages; levels 0 to 3 as
in the source. Three terminals are what it takes for a parent, its child and a
bystander that delays both.

### TimerManager

One action per tick, and one per step of every task that touches timers.
`timers_` is a set; the pop order of equal timeouts is left open, as
`std::priority_queue` leaves it. `chain` and `added` are bookkeeping that the
properties refer to. `CreateTimer` is two actions, because it reads the tick
before it masks interrupts, and so is every receive loop that re-arms a timer:
`held` is the timeout between the two. `Read` is
`TerminalFileDescriptor::Read`, through which the built-in `cat`, applications and
`noterm` commands take a terminal's messages and drop what is no key; it and
`ReadEvent` can end the blinking of a terminal's cursor, which `dropped`
remembers. Bounds: seven ticks with a task period of two and a
cursor period of three, so that each repeats, coincides with the other, and is
handled late; two application timers, absolute (possibly past) and relative.

### MemoryManager

`InitializeMemoryManager` runs descriptor by descriptor. Addresses are in
frames: both page sizes are 4096 and UEFI descriptors are page aligned, so the
divisions of the source are exact. The sort and the search are stated by what
they yield. Bounds: all maps of at most three descriptors in seven frames, in
every order, with and without holes. `MemoryAssumption` says that descriptors
do not overlap and fit the bitmap.

### Pipe

A byte is its position in the stream, so that order, loss and repetition are
visible. Each message is sent in its own masked section, hence the loop of
`Write` is one action per message and a switch may come between. The reader
reads until the end of input. Bounds: messages of two bytes, reads and writes
of one and three bytes (shorter and longer than a message), seven bytes.

### Fat

The volume is the table `fat`, the root directory `slots` and the data `disk`;
`first_cluster` and `file_size` are the fields of directory entries. A call is
one action, except `Write`: its loop is one action per turn (`WriteLoop`), so
that other tasks come between two clusters, and `WriteEnd` sets the size. The
loops over chains and over the table are stated by what they find (`Follow`,
`Candidates`). A byte is named by its writer and its offset, and `content` is
bookkeeping: what a file should hold. `Load` leaves no trace and appears in
`ReadReturnsContent` only. Nothing in the kernel deletes files or frees
clusters. `Outrun` describes two descriptors `ReadReturnsContent` says nothing
about: one whose file another writer made shorter, and one that read to the end
of the last cluster before the file grew. Both read outside the file's clusters
in the source; they are in the hazard list.

Bounds: five clusters of two bytes and two entries, two files, two descriptors,
writes of zero, one and two bytes, four bytes per file: enough for files of two
clusters, writes across a boundary, a directory that grows, and two descriptors
on one file. No write is longer than a cluster: `PutString` accepts at most 1024
bytes and the image of `devenv/make_image.sh` has clusters of 1024 bytes. On a
volume with smaller clusters `Write` goes on in the cluster `ExtendCluster`
returns, the last of those it added, and skips the ones before it
(`fat.cpp:330`): with `WriteSizes` above `bytes_per_cluster`, `ContentStored`
fails.

### Layer

`mgr` is everything `LayerManager` and `ActiveLayer` keep, with the back buffer
and the screen. Applications change the stack, and everybody closes a window, with
interrupts masked, in one step. The main task, which handles the mouse and draw
messages, does not mask them; and a terminal that opens its window does, but the
constructor of `Terminal` prints the prompt, and `Print` ends with `sti`
(`terminal.cpp:674`), so that `Move`, the registration and `Activate` that follow
are unmasked. The calls of both are sequences of steps (`todo`) between which any
other task may run: a turn of the loop over `layer_stack_`, the copy to the
screen, each half of `Activate` and each of its calls. `Draw` may copy a rectangle
that was never set, as in the source. `CloseLayer` reads the place of its window
before it masks interrupts, hence `CloseBegin` and `CloseFinish`.

There are two boots. `main.cpp:192-193` has `InitializeMouse` commented out, and
`mouse.cpp:188-191` the line that would hand it the reports of the USB driver; the
layer code is written for a cursor. `Init` allows both: with the cursor, reports
of the mouse come and the active window is right below it; without, there are no
reports, `GetHeight(0)` is -1 and `Activate` takes the window out of the stack.

`fault` records undefined behaviour: `"iterator"`, a change of the stack while
another task's loop is in it, and `"null"`, the use of a layer that is gone. Both
are reached, and a behaviour ends there. `raced` remembers that a window came or
went while another task was inside `Activate`, or that a window was closed that was
being dragged, had moved since `CloseLayer` read its place, or was about to be
activated. `StackIntact` holds races or not; `NullNeedsRace` says that these are
the only ways to a null pointer; `ActiveOnTop` and `ScreenIsStack` say what holds
without a race.

Bounds: one program and one terminal, a screen of three pixels with windows of
two (a title bar and a close button), so that they overlap partly, fully and at
the edge. `MCLayer` bounds windows and reports of the mouse together
(`MaxEvents`): two windows opened, or one twice, with a press; one window with a
press and a drag or release; three reports without. For larger windows, with
content, two of the four properties are proved.

### Paging

An address space is a root, a table per region (standing for the three lower
levels) and leaves with a frame and a writable bit. `LoadApp`, `LoadELF`,
`RecordApp` and `CallApp` are the parts of `ExecuteFile` between which the
terminals interleave; each may run out of frames and takes the source's error
path, which frees nothing. `ref` is bookkeeping: what the application has stored.
`KernelWrite` is a store by a system call, which ignores the writable bit
because `CR0.WP` is cleared. Its buffers are on the stack and on demand pages;
with a page of the image among them (`KernelBuffers`), `MemoryIsPrivate` fails:
the store goes to the frame that the loaded image shares.

Bounds: two terminals, one program and one broken file, three runs, images of
one page, room for one demand page or file map, twelve frames: two running
programs need eleven with the kept image, so that both fit once and allocation
also fails at every place.

### Boot, Pci, Xhci

`Boot` is a sequence of phases. While the loader runs, firmware events change
the memory map and its key (`MaxEvents`); `AllocatePool`, `FreePool` and
`AllocatePages` change them too. In the kernel, `ScanAllBus` is one turn of its
loop over root buses and `ScanFunction` one call; the calls still to be made are
the sequence `todo`. The PCI scan works on every
machine of five places with bridges and other functions, absent functions,
bridges that lead back and two root buses; `WaitMilliseconds` on a timer that
wraps at eight and is read late by up to two ticks; and `usb::Initialize` on a
machine with an xHCI controller behind a bridge and two EHCI controllers. The
controller (`Hc...`) completes commands and transfers with or without an error,
resets ports, and lets a device be plugged in or out once, also between the
driver's read of CCS and the end of the reset: the driver then waits for PRC for
ever, which `UsbEnds` names as the one exception (`Unplugged`). Rings of three and
five entries and an event ring of six wrap several times in the enumeration of
two ports. `PedIsW1C` chooses between two behaviours of the bit PED, which the
driver writes back as read (`xhci_registers.hpp:109`): a 1 is ignored, as by
the emulator of `devenv/start_qemu.sh`, or disables the port, as in the xHCI
specification. The comment at `xhci_registers.hpp:108` says that
`PORTSC_W1C_BITS` keeps writes from clearing bits by mistake, but PED is not in it:
with `PedIsW1C` the write that clears PRC (`xhci.cpp:341`) disables every port that
a reset has enabled, `ScanPorts` skips its device, and `EnumerationComplete` fails.
The run, and `EnumerationCompleteTheorem`, take ports that ignore the write.

### Terminal

A character is a symbol and a word is one symbol wide. The operations a task has
still to do in `ExecuteLine` are a sequence, one step each, so that the timer
may switch tasks between any two; `Print(char32_t)` is two steps, because the
test of the cursor and its move are not masked. `disturbed` remembers that two
tasks printed at once or one printed over the prompt; what the cursor does then
is in the hazard list. `layer_id_` of a terminal without a window is read
uninitialized: any of `GarbageIds`. Bounds: two lines out of twelve that reach
every command, pipes of two and three commands, a redirection to a directory, a
command in the background; one edit per line; a window of two rows and seven
columns, so that output wraps and scrolls; wide characters.

### Context

A context is what `TaskContext` holds. Each action is the code between two
points where an interrupt can come or the stack or page map changes; every
entry to the kernel (timer with its own stack by IST, USB interrupt, system call,
fault on the shared `RSP0` stack) and every way out (`iretq`, `sysret`, `retf`,
`ExitApp`, `RestoreContext`) is one. `VirtualProcessor` says what all of it is
for: a task's registers and page map change by its own steps only. `Context`
implements it under the mapping `Machine`. An `ExecuteFile` that fails returns to
the terminal on the application's page map (`ExecuteFails`), and what a terminal
starts from there begins on that map: both are `Left`, a map that nothing frees
any more, and `VirtualProcessor` permits this step (`Fail`). It also permits
that an application being killed loses its frame. Tasks run in any order here; the
order is `TaskManager`'s subject. Two tasks and two register values suffice:
a context that is mixed up belongs to the other task.

### Screen, Names, Apps

The console is a state machine; drawing functions and filters are operators,
applied to all inputs within bounds and compared with reference definitions. The
wide character stands for those of three bytes and two columns. `blocks`,
`tview`, `more` and `paint` are state machines driven by any events; their
sizes are constants, scaled down (so is `paint`'s canvas).

`Names` creates files by their paths on three volumes with subdirectories.
`SetFileName`, `NameIsEqual` and `FormatName` convert names in three ways the
source wrote independently; `NamesExact` says that they agree, and that paths,
commands and argument vectors mean what was typed, for every well-formed path: no
empty element, 8.3 names with at most one dot. Names of 3 and 2 characters stand
for those of 8 and 3. Paths that are not well-formed are created in the same
volumes, and do not disturb the others: names with two dots (split at the last dot
when created, at every dot when looked up), names longer than 8.3 and paths with
two slashes (behind which `FindFile` starts in the root). They can be created
twice, and `loose` remembers them.

`paint` draws a pixel wherever the button goes down or up, without a test;
`StaysInside` is about its strokes.

## Runs

| Run | Shows |
|---|---|
| `tasks` | consistency of the scheduler, no lost wakeup, the exit protocol, priorities; every running task runs again and an exited child is collected |
| `timers` | timeliness, order, preemption, cursor timers |
| `memory` | the allocator hands out exactly the usable frames, each once |
| `memory_race` | expected violation: two tasks get one frame |
| `pipe` | the pipe implements `ByteChannel`; the end of input is seen |
| `fat` | sound chains, stored content, reads, and the directory, with two descriptors at work |
| `layers` | the stack, the active window, the screen and null pointers, with the main task and an opening terminal preempted anywhere; windows that come and go repeatedly |
| `paging` | exclusive frames, private memory, no leak but on error paths |
| `boot` | hand-over, PCI scan, timer wrap, USB rings and enumeration, which ends |
| `terminal` | prompt, window, keyboard and descriptors; a line ends |
| `context` | `Context` implements `VirtualProcessor`; page maps and selectors match |
| `programs` | console, text box, drawing, names and paths, and applications against their references |

Deadlock is checked in `tasks`, `pipe` and `context`; the other behaviours end
at their bounds, at `exit(1)`, or when a program has nothing more to do.

**Fairness.** `tasks` assumes that the task timer keeps firing, which
`TaskTimerArmed` of `TimerManager` establishes; that the main loop drains its
queue and sleeps, as its code does; and that a task inside `WaitFinish` takes
its next step when it has the processor, since interrupts are masked. Nothing is
assumed of other tasks. The main task has the highest level and a stream of
messages to it that never pauses starves all others, so the environment sends a
bounded number of messages (`MaxSends`). `pipe` assumes that both commands keep
running: they have the same level, and the scheduler is round robin; `terminal`
assumes the same of terminals. In `terminal` a line may also end in waiting for
a key: `cat | cat` gives the keyboard to the right-hand command, and the left
one reads keys nobody routes to it. `boot` assumes that the driver, which runs
alone, goes on and that the controller answers each command, transfer and reset of
a port with a device at last, with success or an error; the driver's loops have no time limit.

## Finding

`memory_race`: `Allocate` tests and marks in two steps. `LoadApp` reaches it in
a terminal task with interrupts enabled (`terminal.cpp:565`), so a switch to
another terminal that is also loading an application gives both the same frame
as a page or page map. All other modules take frames in one step.

## Proofs

All theorems hold for every value of the constants that satisfies the named
assumptions; the bounds on ids, messages and ticks are constants too.

* `TaskManagerProofs`. `QueueConsistent` and `HigherLevelFlagged` are made
  inductive by treating each scheduler function alone: for any record that is
  consistent and flagged, `RotateCurrentRunQueue`, `Sleep` and `Wakeup` yield
  one that is. The invariant adds what the actions need to call them: the idle
  task is always queued at level 0, so that no rotation finds all queues empty;
  only live tasks run; and the relation between `waiting`, `subtask_id`,
  `finish_waiter_` and `finish_tasks_` that makes an exit visible to the parent
  in either order. `SchedulerConsistent`, `NoLostWakeup`, `ExitProtocol` and
  `RescheduleRunsHighest` follow.
* `TimerManagerProofs`. The invariant says that the timers form a finite set
  (so that `PopOrders` ranges over sequences), that what they record of ticks
  lies in the past, and that sent messages carry ticks up to now. A tick keeps
  the order of a queue because the earlier batches were sent before it and the
  new one is sorted. `CursorTimerConserved` counts, and counting is not used in
  its proof: `CInv` says that a cursor has one timer and no message, or one
  message and no timer, or is held between the two (`OneLink`), or, once its timeout
  was dropped, has none of them, with what makes each step keep this: a timer
  carries the value and task of its chain (`Tagged`), so that no task re-arms the
  cursor of another; messages in a queue are their task's; and a terminal that
  has not started has neither. `PopOrders` are bijections, so that `Tick` sends
  exactly one message for each timer it pops.
* `MemoryProofs`, the allocator. During the scan: nothing usable is marked, and below
  `available_end` everything is marked or usable. That the map is sorted is what
  makes the hole before a descriptor really unusable. At the end this gives
  `AllocatorSound`, which `Allocate` and `Free` keep.
* `TerminalProofs`, pipes. The messages in the queue are the bytes of the stream between
  what the reader has taken and what was sent, without gap or overlap; an empty
  `kPipe` message is only at the end. Each action then is a step of
  `ByteChannel` or leaves its variables alone.
* `ContextProofs`. The invariant says what each place of the entry, exit and
  switch code finds: its stack, page map, interrupt flag, selectors, and whether
  it holds a pointer to its task (`Sound`). It is stated for three copies of a
  task's registers: those in the processor, those in `context_` of a task that
  does not run (`Saved`), and those the timer's handler has pushed (`InTimer`).
  It also follows the pieces that code of another task could damage:
  `os_stack_ptr_` while an application runs, `context_.cr3` from `SetupPML4` to
  `FreePML4` or to an error, the frames on the kernel stack, and the one `RSP0` frame, which
  belongs to the current task because a fault is handled masked until it is
  left. `ContextMatches` follows at once. For `TasksHaveProcessors` every action
  is a step of `VirtualProcessor`: switches and handlers leave all mapped
  processors alone, and each remaining action is one step of its task's.
* `FatProofs`. A chain is a walk through the table, so a statement about chains
  is not inductive: one changed entry may redirect any walk. The invariant
  asserts a *layout*: a map from every used cluster to its owner, a file or the
  directory, and its depth, such that depth 0 is the owner's first cluster, the
  table leads from depth n to depth n + 1 of the same owner, and only the
  deepest cluster of an owner is marked as the end.
  `ExtendCluster` and `AllocateClusterChain` extend a layout without changing it
  where it was defined, and `Follow` computes the cluster at a depth; both facts
  replace reasoning about walks. With the positions of descriptors in the chains
  of their files and a directory without a hole this is inductive, and gives
  `ChainsSound` and `DirectoryExact` for every volume. `ContentStored` adds that
  a descriptor's write cursor is where its position says, `ReadReturnsContent`
  the same of read cursors and what file sizes are. These two theorems assume
  that no write is longer than a cluster (see above); the first two do not. The
  loop of `Load` and the copying loop of `Read` are stated in `Fat` by what they
  copy, so no theorem is about them as loops.
* `MemoryProofs`, address spaces. `FramesExclusive` does not say why `CleanPageMap` may decide by
  the writable bit alone, nor why a page found read-only may be copied and left
  behind, so it is not inductive. `IInv` adds three things. `Exclusive`, for the
  whole set of address spaces: an address space is known by its root, and a frame
  two of them reach is a leaf that both have read-only. `Held` and `Alone`: the
  address space a task is in is no other task's and not in `app_loads`, and
  `temp_pml4` is that one until `app_loads` has it. `Shape` and `ImageOnly`: an
  address space in `app_loads` has only pages of the image, all read-only, and
  one that runs has no other page read-only. Each operation on a page map
  (`SetupPageMaps`,
  `CopyPageMaps`, `CopyOnePage`, `CleanPageMaps`, `FreePML4`) is treated once, as
  a step from one address space and set of free frames to the next, with the
  errors it may return in the middle; the actions then combine these lemmas.
  `MInv` adds what every leaf of a running task and of a kept image holds, for
  `MemoryIsPrivate`; a store changes one frame, and `Exclusive` says that no one
  else has it writable. That theorem assumes that `KernelBuffers` has no page of
  the image, because the store of a system call is not stopped by the read-only
  bit (see above): without the assumption the property is false. `LInv` adds that
  a read-only leaf of a task is a page of an image in `app_loads`, and that an idle
  task has no address space, for `NoLeakWithoutError`. TLC finds the
  three invariants true on the instance of run `paging`.

* `BootProofs`. Four invariants, one for each part of the boot.
  *USB* (`UsbInv`). What `RingFaithful` says of a ring at one moment is kept only
  because of where all its entries are: `RingShape` says that the entries of the
  producer's lap carry its cycle bit and those left of the lap before the other
  one, that the Link TRB has the bit of the last lap, and that the consumer is
  `sent - got` entries behind, with a number for every entry (`Number`); it is
  proved once, for a ring of any size at least three, that pushing and consuming keep it.
  `AnswerMatches` needs in addition which requests are outstanding (`Requests`:
  at most one command, the stages of one transfer, nothing on an endpoint that
  is not halted), that an event in the ring that is not a port event answers the
  current one and that there is at most one such (`EventsInv`), and that the
  event ring keeps its order when it wraps (`EventShape`). An event ring with
  room for two events of each port and one answer is assumed
  (`XhciAssumption`), and transfer rings longer than one control transfer: the
  source has 16 entries.
  *The timer* (`TimerInv`): the timer reads start plus elapsed ticks modulo its
  width, and once the first loop is left an overflow that had to come has come.
  *The loader* (`HandoffInv`): a map fetched with the current key describes the
  firmware's memory (`HeldInv`), because every change of the memory also changes
  the key; what the kernel and the volume got is of the loader's type;
  the segments before `ph` are in memory (`CopyInv`), which a later segment
  overwrites only if segments overlap (`ElfAssumption` says that they do not and
  that none has more bytes in the file than in memory); the image
  is the beginning of the volume (`ImageInv`).
  *The PCI scan* (`PciInv`): what is in the table or in `todo` can be reached
  (`OnlyReachable`); what a root bus, a bridge or a device of several functions
  in the table leads to is in the table or in `todo` (`NothingMissed`); and when
  bus numbers form a tree, everything there has exactly one reason to be
  (`Origin`), so that nothing comes twice (`FoundOnce`). At the end the buses
  scanned form a closed set, and the reachable buses are the least one. The only
  assumptions are that there are finitely many buses and that function 0 of the
  host bridge exists.
  TLC finds the four invariants true on the instance of run `boot`.
* `LayerProofs`. `StackIntact` is about every moment, races included, and is nearly
  inductive; `NullNeedsRace` needs to know what preempted tasks have still to do.
  `LayerInv` has three parts.
  *While no fault happened*, `Sound`: the stack is without repetition and has live
  layers only, with the cursor last; the active layer is alive and not the cursor,
  which is why raising it never puts it above the cursor; no id is beyond the latest.
  `Clients`: what each task has still to do is in an order a call produces
  (`Ordered`), nobody activates the cursor, the main task moves only the cursor and
  what is dragged, a terminal only its own window (`Fits`), and two tasks never
  have the same window (`Windows`, `Closings`).
  *While `raced` is false* (`Safe`): the layer being dragged and every layer in the
  remaining steps that would be dereferenced is alive (`Alive`), and at most one task
  is inside `Activate`. No fault is `"null"` then.
  `RemoveFirst` and `InsertAt` of the community modules are characterised once, and
  with them `UpDown`, `Hide` and `Raise` for any stack; the actions of a preempted
  task share one lemma about replacing the first of its steps (`ThreadKeeps`).
  The theorems hold for any width of the screen and of windows, any number of
  programs, terminals and layers, and both boots. `ActiveOnTop` and `ScreenIsStack`
  are model-checked only.
* `TerminalProofs`, terminals. `PromptLineFaithful` and `PromptRestored` speak of the
  prompt, `CursorInWindow` of the time before two tasks disturbed each other; the
  invariant `TerminalInv` says what leads there.
  *Stages* (`Running`, `Split`): what a task has still to do is output of a command
  and then the rest of `ExecuteLine` at one of ten stages (`Stage`), from the line
  over the fork, the route of the keys and the command to closing the pipe, waiting,
  the end and the prompt. `AtStage` says what W has at each: the route of the keys,
  or a terminal without a window has taken them by the `layer_id_` it never set
  (`Keyboard`); its own standard output in the descriptor, or saved in the locals
  of `ExecuteLine`. Every way through a line ends at the stage that restores both,
  which gives `PromptRestored`.
  *The window* (`Window`), while `disturbed` is false: at most one character is half
  printed, and it fits where the cursor is; right of and below the cursor the window
  is blank; and no line in the history is longer than a row can show. Without the
  last part recalling a line could leave the window, and without the blanks the row
  after a newline could show old text. The column of the last prompt is part of it,
  because `InputKey` starts from there.
  The lemmas about `Cuts` (where the line is cut), `Entered` and the results of the
  commands say only that they yield texts and operations of the right kind.
  Assumptions: a window of at least two rows and columns, one terminal, one entry of
  history. The restrictions of `KeyPush` on when the user types are part of `Spec`.
  TLC finds the invariant true on the instance of run `terminal`.

Model-checked only: liveness (the prover does not treat fairness or `ENABLED`);
`ActiveOnTop` and `ScreenIsStack` of `Layer`, whose invariant would have to follow the
pixels through every step of two drawing tasks; and everything about `Screen`, `Names` and `Apps`, whose properties compare a loop over a
text with its reference definition, by recursion or folds: only induction over data
could prove them, which is out of the prover's reach.

## Not modelled

* The internal states of `std::deque`, `std::map`, `std::vector` and `malloc`
  when an interrupt handler or another task enters them in the middle of an
  operation: the source calls some of them unmasked (see the hazards), and what
  happens then is undefined.
* A cluster found and taken in two steps. Elements of a path longer than 12
  characters, which overrun `path_elem` (`fat.cpp:86`).
* A command in the background that reads the keyboard of its terminal
  (`terminal.cpp:875`), and a right-hand command that ends before its input: what
  `Write` and `FinishWrite` do with the destroyed task is undefined, and in
  `Terminal` a write to it is dropped.
* `noterm` without an argument, which makes a `std::string` of a null pointer
  (`terminal.cpp:509`). In `newline` of `Print` the test of the row and the
  increment are one step; two tasks that print on one window at once are
  `disturbed` in any case.
* Faults of the kernel, which print registers and halt.
* Pixel formats, glyphs, the desktop's picture.
* MSI configuration, EHCI beyond its failure, descriptors read from USB devices,
  `keyboard.cpp`'s key codes.
* Negative increments of `sbrk`; programs that demonstrate one call (`lines`,
  `stars`, `timer`, `winhello`, `winkor`, `mmap`, `fault`, `large`, `onlyhlt`);
  `gview`; the rotation of `cube`; `stb_image.h`, which is third party.

## Plan

Done: scheduler, timers, allocator, pipes, terminals, the volume, context switching,
paging, layers, and the boot with PCI and USB, each with proofs; names, console and
applications. Next, in this order: a variant of `Fat` in which finding and taking a
cluster are two steps; `NewTask` without masking.
