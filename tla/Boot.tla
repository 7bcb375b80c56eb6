-------------------------------- MODULE Boot --------------------------------
(***************************************************************************)
(* From power on to the event loop: the boot loader (UefiMain in Main.c),  *)
(* the hand-over of the memory map, the kernel and the volume, and the     *)
(* initialization of the kernel in KernelMainNewStack (main.cpp) with the  *)
(* PCI scan, the ACPI tables, the wait on the power management timer that  *)
(* calibrates the local APIC timer, and the USB controllers.               *)
(*                                                                         *)
(* The firmware is external: its memory services change the memory map and *)
(* its key, and so do its own events, at any time until ExitBootServices.  *)
(***************************************************************************)
EXTENDS Xhci, Integers

CONSTANTS
  NumFrames,    \* page frames of the machine
  PageSize,     \* bytes of a page
  Elfs,         \* kernel files: their program headers
  LastBlock, BlockSize, ChunkSize, MaxVolume, \* the boot volume, in bytes
  MaxEvents,    \* bound: events of the firmware that change the memory map
  TimerModulus, \* 2^24 or 2^32: the power management timer
  WaitTicks,    \* ticks WaitMilliseconds waits
  MaxJump       \* bound: ticks between two reads of the timer

VARIABLES
  boot,    \* where UefiMain and KernelMainNewStack are
  fw,      \* the firmware's memory: the type of every frame
  key,     \* the key of that map
  pool,    \* frames the pool allocator has
  memmap,  \* the loader's copy: key and types, and the room it asked for
  held,    \* frames of the map buffer, the file buffer, the kernel and the volume
  elf, ph, \* program headers of kernel.elf, and the next to be copied
  mem,     \* bytes of the frames CopyLoadSegments writes
  image,   \* blocks read into volume_image
  pm,      \* the power management timer: now, start of the wait, ticks waited
  nEvents

loaderVars == <<boot, fw, key, pool, memmap, held, elf, ph, mem, image, pm, nEvents>>
vars == <<loaderVars, pciVars, xhciVars>>

Frames == 1 .. NumFrames
Bytes == 0 .. NumFrames * PageSize - 1
Pages(bytes) == (bytes + PageSize - 1) \div PageSize

ASSUME BootAssumption ==
  /\ NumFrames \in Nat \ {0} /\ PageSize \in Nat \ {0} /\ MaxEvents \in Nat
  /\ BlockSize \in Nat \ {0} /\ LastBlock \in Nat
  /\ ChunkSize \in Nat /\ ChunkSize % BlockSize = 0 /\ MaxVolume \in Nat /\ MaxVolume % BlockSize = 0
  /\ WaitTicks \in Nat /\ TimerModulus \in Nat /\ WaitTicks < TimerModulus /\ MaxJump \in Nat \ {0}

\* what an ELF file promises of its PT_LOAD segments: no more bytes in the file
\* than in memory, and no two of them overlap
ASSUME ElfAssumption ==
  \A e \in Elfs :
    /\ e \in Seq([load : BOOLEAN, vaddr : Nat, filesz : Nat, memsz : Nat])
    /\ \A i \in DOMAIN e : e[i].filesz <= e[i].memsz
    /\ \A i, j \in DOMAIN e :
         i # j /\ e[i].load /\ e[j].load => \/ e[i].vaddr + e[i].memsz <= e[j].vaddr
                                             \/ e[j].vaddr + e[j].memsz <= e[i].vaddr

NoMap == [key |-> -1, types |-> <<>>, room |-> 0]
NothingHeld == [map |-> {}, file |-> {}, kernel |-> {}, volume |-> {}]

BootInit ==
  /\ boot = "query1"
  /\ fw \in {[f \in Frames |-> IF f = r THEN "reserved" ELSE IF f = NumFrames THEN "bootdata" ELSE "conventional"]
               : r \in {1, NumFrames - 1}}
  /\ key = 0 /\ pool = {} /\ memmap = NoMap /\ held = NothingHeld
  /\ elf \in Elfs /\ ph = 1 /\ mem = [b \in Bytes |-> "old"] /\ image = <<>>
  /\ pm = [now |-> 0, start |-> 0, waited |-> 0]
  /\ nEvents = 0

Init == BootInit /\ PciInit /\ XhciInit

Goto(label) == boot' = label
RestUnchanged == UNCHANGED <<pciVars, xhciVars>>

-----------------------------------------------------------------------------
(***************************************************************************)
(* Firmware services                                                       *)
(***************************************************************************)
Conventional == {f \in Frames : fw[f] = "conventional"}

\* descriptors of the map: runs of frames of one type
Descriptors(types) == Cardinality({f \in Frames : f = 1 \/ types[f] # types[f - 1]})

\* AllocatePool: out of a page the pool has, or of a new one
AllocatePool(f) ==
  /\ f \in pool \cup Conventional
  /\ pool' = pool \cup {f}
  /\ fw' = [fw EXCEPT ![f] = "loader"]
  /\ key' = IF f \in pool THEN key ELSE key + 1

\* FreePool: a page nothing else is in may go back
FreePool(frames, others) ==
  \/ UNCHANGED <<fw, key, pool>>
  \/ /\ frames \ others # {}
     /\ fw' = [f \in Frames |-> IF f \in frames \ others THEN "conventional" ELSE fw[f]]
     /\ pool' = pool \ (frames \ others) /\ key' = key + 1

\* AllocatePages
AllocatePages(frames) ==
  /\ frames \subseteq Conventional
  /\ fw' = [f \in Frames |-> IF f \in frames THEN "loader" ELSE fw[f]]
  /\ key' = key + 1

LoaderRuns == boot \in {"query1", "fetch1", "files", "kernel", "pages", "copy", "volume", "chunks", "exit1",
                        "query2", "fetch2", "exit2"}

\* something in the firmware takes or returns a page of boot services data
FirmwareEvent ==
  /\ LoaderRuns /\ nEvents < MaxEvents
  /\ \E f \in Frames \ {NumFrames} :
       /\ fw[f] \in {"conventional", "bootdata"}
       /\ fw' = [fw EXCEPT ![f] = IF @ = "bootdata" THEN "conventional" ELSE "bootdata"]
  /\ key' = key + 1 /\ nEvents' = nEvents + 1
  /\ UNCHANGED <<boot, pool, memmap, held, elf, ph, mem, image, pm>> /\ RestUnchanged

\* _IfErrorHalt
Halt == Goto("halted") /\ UNCHANGED <<fw, key, pool, memmap, held, elf, ph, mem, image, pm, nEvents>>

-----------------------------------------------------------------------------
(***************************************************************************)
(* UefiMain                                                                *)
(***************************************************************************)
\* GetMemoryMap up to the answer of the first call: the old buffer is returned,
\* and room asked for two descriptors more than the map has
QueryMap(from, to) ==
  /\ boot = from /\ Goto(to)
  /\ FreePool(held.map, held.file)
  /\ memmap' = [memmap EXCEPT !.room = Descriptors(fw') + 2]
  /\ held' = [held EXCEPT !.map = {}]
  /\ UNCHANGED <<elf, ph, mem, image, pm, nEvents>> /\ RestUnchanged

\* Mutant: a second call fetches the key and keeps the old map.
FetchMapKeyOnly(from, to) ==
  /\ boot = from
  /\ \/ /\ \E f \in Frames :
             /\ AllocatePool(f)
             /\ IF Descriptors(fw') <= memmap.room
                THEN Goto(to) /\ memmap' = [memmap EXCEPT !.key = key', !.types = IF @ = <<>> THEN fw' ELSE @]
                ELSE Goto("halted") /\ UNCHANGED memmap
             /\ held' = [held EXCEPT !.map = {f}]
        /\ UNCHANGED <<elf, ph, mem, image, pm, nEvents>>
     \/ pool \cup Conventional = {} /\ Halt
  /\ RestUnchanged

\* its second call, after AllocatePool; both may fail
FetchMap(from, to) ==
  /\ boot = from
  /\ \/ /\ \E f \in Frames :
             /\ AllocatePool(f)
             /\ IF Descriptors(fw') <= memmap.room
                THEN Goto(to) /\ memmap' = [memmap EXCEPT !.key = key', !.types = fw']
                ELSE Goto("halted") /\ UNCHANGED memmap
             /\ held' = [held EXCEPT !.map = {f}]
        /\ UNCHANGED <<elf, ph, mem, image, pm, nEvents>>
     \/ pool \cup Conventional = {} /\ Halt
  /\ RestUnchanged

\* root directory, the files memmap and bootlog.txt (errors are ignored), the
\* graphics output protocol
OpenFiles ==
  /\ boot = "files"
  /\ \/ Halt
     \/ Goto("kernel") /\ UNCHANGED <<fw, key, pool, memmap, held, elf, ph, mem, image, pm, nEvents>>
  /\ RestUnchanged

\* kernel.elf into a buffer
ReadFile ==
  /\ boot = "kernel"
  /\ \/ Halt
     \/ /\ \E f \in Frames : AllocatePool(f) /\ held' = [held EXCEPT !.file = {f}]
        /\ Goto("pages") /\ UNCHANGED <<memmap, elf, ph, mem, image, pm, nEvents>>
  /\ RestUnchanged

Loads == {i \in DOMAIN elf : elf[i].load}
Setmin(S) == CHOOSE x \in S : \A y \in S : x <= y
Setmax(S) == CHOOSE x \in S : \A y \in S : x >= y

\* CalcLoadAddressRange
kernel_first_addr == Setmin({elf[i].vaddr : i \in Loads})
kernel_last_addr == Setmax({elf[i].vaddr + elf[i].memsz : i \in Loads})

\* the pages of that range, at their address
KernelFrames == LET first == kernel_first_addr \div PageSize + 1
                IN first .. first + Pages(kernel_last_addr - kernel_first_addr) - 1
AllocateKernel ==
  /\ boot = "pages"
  /\ IF kernel_first_addr % PageSize = 0 /\ KernelFrames \subseteq Conventional
     THEN /\ AllocatePages(KernelFrames) /\ held' = [held EXCEPT !.kernel = KernelFrames]
          /\ Goto("copy") /\ UNCHANGED <<pool, memmap, elf, ph, mem, image, pm, nEvents>>
     ELSE Halt
  /\ RestUnchanged

\* one turn of CopyLoadSegments: the bytes of the file, then zeros
Copied(i, m) ==
  [b \in Bytes |-> LET o == b - elf[i].vaddr
                   IN IF o \in 0 .. elf[i].filesz - 1 THEN <<i, o>>
                      ELSE IF o \in elf[i].filesz .. elf[i].memsz - 1 THEN "zero"
                      ELSE m[b]]
CopyLoadSegments ==
  /\ boot = "copy" /\ ph <= Len(elf)
  /\ mem' = IF elf[ph].load THEN Copied(ph, mem) ELSE mem
  /\ ph' = ph + 1
  /\ UNCHANGED <<boot, fw, key, pool, memmap, held, elf, image, pm, nEvents>> /\ RestUnchanged

\* kernel_buffer is returned
FreeKernelBuffer ==
  /\ boot = "copy" /\ ph > Len(elf)
  /\ FreePool(held.file, held.map) /\ held' = [held EXCEPT !.file = {}]
  /\ Goto("volume")
  /\ UNCHANGED <<memmap, elf, ph, mem, image, pm, nEvents>> /\ RestUnchanged

\* pages for the volume, or for as much of it as the loader reads
volume_bytes == IF BlockSize * (LastBlock + 1) > MaxVolume THEN MaxVolume ELSE BlockSize * (LastBlock + 1)
AllocateVolume ==
  /\ boot = "volume"
  /\ \/ Halt
     \/ /\ \E first \in Frames :
             LET frames == first .. first + Pages(volume_bytes) - 1
             IN AllocatePages(frames) /\ held' = [held EXCEPT !.volume = frames]
        /\ Goto("chunks") /\ UNCHANGED <<pool, memmap, elf, ph, mem, image, pm, nEvents>>
  /\ RestUnchanged

\* one turn of ReadBlocksChunked; the offset is what has been read so far
offset == Len(image) * BlockSize
read_size == IF offset + ChunkSize > volume_bytes THEN volume_bytes - offset ELSE ChunkSize
ReadBlocksChunked ==
  /\ boot = "chunks" /\ offset < volume_bytes
  /\ \/ Halt
     \/ /\ image' = image \o [i \in 1 .. read_size \div BlockSize |-> Len(image) + i - 1]
        /\ UNCHANGED <<boot, fw, key, pool, memmap, held, elf, ph, mem, pm, nEvents>>
  /\ RestUnchanged

\* the log file is closed
CloseLog ==
  /\ boot = "chunks" /\ offset >= volume_bytes
  /\ Goto("exit1")
  /\ UNCHANGED <<fw, key, pool, memmap, held, elf, ph, mem, image, pm, nEvents>> /\ RestUnchanged

\* ExitBootServices with the key of the loader's map: if that is not the
\* current one, once more with a new map
ExitBootServices(from, otherwise) ==
  /\ boot = from
  /\ Goto(IF memmap.key = key THEN "entry" ELSE otherwise)
  /\ UNCHANGED <<fw, key, pool, memmap, held, elf, ph, mem, image, pm, nEvents>> /\ RestUnchanged

-----------------------------------------------------------------------------
(***************************************************************************)
(* KernelMainNewStack                                                      *)
(***************************************************************************)
\* exit(1)
Stop == Goto("stopped")
LoaderUnchanged == UNCHANGED <<fw, key, pool, memmap, held, elf, ph, mem, image, nEvents>>

\* graphics, console, segments, paging, memory manager, interrupts, volume,
\* log file, font: several of them may stop the kernel.  From here on memory
\* is the memory manager's, and what the loader kept is gone.
InitializeKernel ==
  /\ boot = "entry"
  /\ Goto("pci") \/ Stop
  /\ fw' = [f \in Frames |-> "kernel"] /\ key' = 0 /\ pool' = {} /\ nEvents' = 0
  /\ memmap' = NoMap /\ held' = NothingHeld
  /\ elf' = <<>> /\ ph' = 1 /\ mem' = [b \in Bytes |-> "old"] /\ image' = <<>>
  /\ UNCHANGED pm /\ RestUnchanged

\* InitializePCI
InitializePCI ==
  /\ boot = "pci"
  /\ \/ config = NoConfig /\ BeginScan /\ UNCHANGED boot
     \/ (ScanAllBus \/ ScanFunction) /\ UNCHANGED boot
     \/ ScanEnded /\ (IF full THEN Stop ELSE Goto("acpi")) /\ UNCHANGED pciVars
  /\ LoaderUnchanged /\ UNCHANGED <<pm, xhciVars>>

\* layers and windows; acpi::Initialize: a valid RSDP, XSDT and FADT; then
\* InitializeLAPICTimer, with the first read of WaitMilliseconds
InitializeACPI ==
  /\ boot = "acpi"
  /\ \/ Stop /\ UNCHANGED pm
     \/ \E t \in 0 .. TimerModulus - 1 :
          /\ pm' = [now |-> t, start |-> t, waited |-> 0]
          /\ Goto("wrap")
  /\ LoaderUnchanged /\ RestUnchanged

\* WaitMilliseconds: one read of the timer in its two loops
end == (pm.start + WaitTicks) % TimerModulus
Reads(t) == pm' = [pm EXCEPT !.now = (@ + t) % TimerModulus, !.waited = IF @ + t > WaitTicks THEN WaitTicks ELSE @ + t]
\* Mutant: the first loop is missing.
WaitMillisecondsNoWrap ==
  /\ boot \in {"wrap", "wait"}
  /\ IF boot = "wrap" THEN Goto("wait") /\ UNCHANGED pm
     ELSE /\ \E t \in 1 .. MaxJump : Reads(t)
          /\ Goto(IF pm'.now < end THEN "wait" ELSE "timers")
  /\ LoaderUnchanged /\ RestUnchanged

WaitMilliseconds ==
  /\ boot \in {"wrap", "wait"}
  /\ IF boot = "wrap" /\ end >= pm.start THEN Goto("wait") /\ UNCHANGED pm
     ELSE /\ \E t \in 1 .. MaxJump : Reads(t)
          /\ CASE boot = "wrap" -> Goto(IF pm'.now >= pm.start THEN "wrap" ELSE "wait")
               [] boot = "wait" -> Goto(IF pm'.now < end THEN "wait" ELSE "timers")
  /\ LoaderUnchanged /\ RestUnchanged

\* timers, system calls, tasks; then usb::Initialize
InitializeUsb ==
  /\ boot = "timers"
  /\ Goto("usb") /\ pc' = "devices" /\ pm' = [now |-> 0, start |-> 0, waited |-> pm.waited]
  /\ LoaderUnchanged
  /\ UNCHANGED <<pciVars, dev, controllers, port, slot, td, rings, events, event, dcbaa, hcVars, historyVars>>

\* the event loop
EnterEventLoop ==
  /\ boot = "usb" /\ pc = "ended" /\ Goto("running")
  /\ LoaderUnchanged /\ UNCHANGED pm /\ RestUnchanged

Usb == boot = "usb" /\ Driver /\ UNCHANGED <<loaderVars, pciVars>>
Hardware == boot = "usb" /\ Controller /\ UNCHANGED <<loaderVars, pciVars>>

Loader ==
  \/ QueryMap("query1", "fetch1") \/ FetchMap("fetch1", "files")
  \/ OpenFiles \/ ReadFile \/ AllocateKernel \/ CopyLoadSegments \/ FreeKernelBuffer
  \/ AllocateVolume \/ ReadBlocksChunked \/ CloseLog
  \/ ExitBootServices("exit1", "query2") \/ ExitBootServices("exit2", "halted")
  \/ QueryMap("query2", "fetch2") \/ FetchMap("fetch2", "exit2")

Kernel ==
  \/ InitializeKernel \/ InitializePCI \/ InitializeACPI \/ WaitMilliseconds \/ InitializeUsb \/ EnterEventLoop

Next == FirmwareEvent \/ Loader \/ Kernel \/ Usb \/ Hardware

\* The kernel runs alone and never sleeps during initialization, and the
\* hardware answers every request in the end; nothing is assumed of plugs.
Spec ==
  /\ Init /\ [][Next]_vars
  /\ WF_vars(Usb)
  /\ WF_vars(boot = "usb" /\ HcStatus /\ UNCHANGED <<loaderVars, pciVars>>)
  /\ WF_vars(boot = "usb" /\ HcCommand /\ UNCHANGED <<loaderVars, pciVars>>)
  /\ \A s \in Slots : WF_vars(boot = "usb" /\ HcTransfer(s) /\ UNCHANGED <<loaderVars, pciVars>>)
  /\ \A p \in Ports : WF_vars(boot = "usb" /\ HcPortReset(p) /\ UNCHANGED <<loaderVars, pciVars>>)

-----------------------------------------------------------------------------
(***************************************************************************)
(* Properties                                                              *)
(***************************************************************************)
\* IsAvailable in memory_map.hpp: what the memory manager will hand out
IsAvailable(type) == type \in {"conventional", "bootdata"}

\* The kernel starts with the memory map as it was when boot services ended,
\* and that map marks no frame as available that holds the kernel, the volume
\* or the map itself, whatever the firmware did in between and whether the
\* first or the second ExitBootServices succeeded; the kernel lies where its
\* program headers put it, file bytes and zeros, and the volume image is the
\* beginning of the volume, block by block.
HandoffSound ==
  boot = "entry" =>
    /\ memmap.types = fw
    /\ \A f \in held.kernel \cup held.volume \cup held.map : ~IsAvailable(memmap.types[f])
    /\ \A i \in Loads : \A o \in 0 .. elf[i].memsz - 1 :
         /\ mem[elf[i].vaddr + o] = IF o < elf[i].filesz THEN <<i, o>> ELSE "zero"
         /\ (elf[i].vaddr + o) \div PageSize + 1 \in held.kernel
    /\ image = [n \in 1 .. volume_bytes \div BlockSize |-> n - 1]

\* WaitMilliseconds returns only after the ticks it was asked for, also when the
\* timer wraps in between: the calibration of the local APIC timer rests on it.
WaitLongEnough == boot \in {"timers", "usb", "running"} => pm.waited >= WaitTicks
=============================================================================
