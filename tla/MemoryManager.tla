--------------------------- MODULE MemoryManager ---------------------------
(***************************************************************************)
(* The physical frame allocator of kernel/memory_manager.cpp: how it is    *)
(* built at boot from the firmware's memory map, and its Allocate and Free. *)
(*                                                                         *)
(* Addresses are counted in frames (kBytesPerFrame and kUEFIPageSize are   *)
(* both 4096, and UEFI descriptors are page aligned, so every division in  *)
(* the source is exact).  alloc_map_ is the set of frames whose bit is 1.  *)
(* blocks, a bookkeeping variable, records who holds which frames: the     *)
(* kernel heap, the interrupt stacks of segment.cpp and the page maps and  *)
(* pages of paging.cpp, all as anonymous holders.                          *)
(*                                                                         *)
(* Allocate and Free are single actions: at boot nothing else runs, and    *)
(* the page fault handler runs with interrupts masked.  MCMemoryRace       *)
(* has the variant in which tasks are preempted inside Allocate.           *)
(***************************************************************************)
EXTENDS Integers, Sequences, FiniteSets

CONSTANTS kFrameCount,   \* frames the bitmap can describe
          kHeapFrames,   \* frames of the kernel heap, 64 * 512 in the source
          MemoryMaps,    \* the maps the firmware may hand over
          Holders,       \* bound: blocks held at one time besides the heap
          Sizes          \* bound: values of num_frames passed to Allocate

\* A descriptor of the memory map; available stands for IsAvailable(type).
Descriptors == [start : Nat, pages : Nat, available : BOOLEAN]
FrameRange(start, n) == start .. start + n - 1
Covered(d) == FrameRange(d.start, d.pages)

\* The firmware's descriptors come in any order, do not overlap and lie
\* within the memory the bitmap can describe.
ASSUME MemoryAssumption ==
  /\ kFrameCount \in Nat \ {0}
  /\ kHeapFrames \in Nat \ {0}
  /\ Sizes \subseteq Nat \ {0}
  /\ MemoryMaps \subseteq Seq(Descriptors)
  /\ \A m \in MemoryMaps : \A i \in 1 .. Len(m) :
       /\ m[i].pages > 0
       /\ m[i].start + m[i].pages <= kFrameCount
       /\ \A j \in 1 .. Len(m) : i # j => Covered(m[i]) \cap Covered(m[j]) = {}

NoBlock == [start |-> 0, n |-> 0]
Heap == "heap"
ASSUME HolderAssumption == Heap \notin Holders
AllHolders == Holders \cup {Heap}

VARIABLES
  alloc_map_, range_begin_, range_end_,
  memory_map, iter, available_end,   \* locals of InitializeMemoryManager
  phase,   \* "sort", "scan", "heap", "run", or "exit" after exit(1)
  blocks   \* the block of each holder

memoryVars == <<alloc_map_, range_begin_, range_end_, memory_map, iter, available_end,
                phase, blocks>>

\* The BitmapMemoryManager constructor, in a zeroed buffer.
InitMemory ==
  /\ alloc_map_ = {}
  /\ range_begin_ = 0 /\ range_end_ = kFrameCount
  /\ memory_map \in MemoryMaps
  /\ iter = 1
  /\ available_end = 0
  /\ phase = "sort"
  /\ blocks = [h \in AllHolders |-> NoBlock]

-----------------------------------------------------------------------------
(* InitializeMemoryManager. *)

Sorted(m) == \A i, j \in 1 .. Len(m) : i < j => m[i].start <= m[j].start

\* Mutant of SortMemoryMapInPlace: the map is left as the firmware gave it.
DoNotSort == phase = "sort" /\ phase' = "scan"
             /\ UNCHANGED <<alloc_map_, range_begin_, range_end_, memory_map, iter,
                            available_end, blocks>>

\* The exchange sort permutes the descriptors into ascending order.  (Starts
\* are distinct, so there is one such order: SortLoopSorts.)
SortMemoryMapInPlace ==
  /\ phase = "sort"
  /\ phase' = "scan"
  /\ \E p \in [1 .. Len(memory_map) -> 1 .. Len(memory_map)] :
       /\ \A i, j \in 1 .. Len(memory_map) : p[i] = p[j] => i = j
       /\ memory_map' = [i \in 1 .. Len(memory_map) |-> memory_map[p[i]]]
       /\ Sorted(memory_map')
  /\ UNCHANGED <<alloc_map_, range_begin_, range_end_, iter, available_end, blocks>>

\* Mutant of ScanDescriptor: holes between descriptors are not marked.
ScanWithoutGaps ==
  LET desc == memory_map[iter]
  IN  /\ phase = "scan" /\ iter <= Len(memory_map)
      /\ alloc_map_' = alloc_map_ \cup IF desc.available THEN {} ELSE Covered(desc)
      /\ available_end' = IF desc.available THEN desc.start + desc.pages ELSE available_end
      /\ iter' = iter + 1
      /\ UNCHANGED <<range_begin_, range_end_, memory_map, phase, blocks>>

\* One descriptor: mark the hole below it, then the descriptor itself unless
\* it is available.
ScanDescriptor ==
  LET desc == memory_map[iter]
      gap  == FrameRange(available_end, desc.start - available_end)
  IN  /\ phase = "scan" /\ iter <= Len(memory_map)
      /\ alloc_map_' = alloc_map_ \cup gap \cup
                         (IF desc.available THEN {} ELSE Covered(desc))
      /\ available_end' = IF desc.available THEN desc.start + desc.pages ELSE available_end
      /\ iter' = iter + 1
      /\ UNCHANGED <<range_begin_, range_end_, memory_map, phase, blocks>>

SetMemoryRange ==
  /\ phase = "scan" /\ iter > Len(memory_map)
  /\ range_begin_' = 1
  /\ range_end_' = available_end
  /\ phase' = "heap"
  /\ UNCHANGED <<alloc_map_, memory_map, iter, available_end, blocks>>

-----------------------------------------------------------------------------
(* Allocate and Free. *)

\* n frames from start are in range and free.
Fits(start, n) ==
  /\ start >= range_begin_ /\ start + n <= range_end_
  /\ FrameRange(start, n) \cap alloc_map_ = {}

\* The search of Allocate: the lowest place that fits.  (The loop of the
\* source finds exactly this one: SearchLoopIsFirstFit.)
IsFirstFit(start, n) == Fits(start, n) /\ \A s \in 0 .. start - 1 : ~Fits(s, n)

\* Allocate when it succeeds; when nothing fits it returns kNoEnoughMemory
\* and changes nothing.
Allocate(h, n) ==
  /\ blocks[h] = NoBlock
  /\ \E start \in 0 .. kFrameCount :
       /\ IsFirstFit(start, n)
       /\ alloc_map_' = alloc_map_ \cup FrameRange(start, n)
       /\ blocks' = [blocks EXCEPT ![h] = [start |-> start, n |-> n]]
  /\ UNCHANGED <<range_begin_, range_end_, memory_map, iter, available_end>>

InitializeHeap == phase = "heap" /\ Allocate(Heap, kHeapFrames) /\ phase' = "run"

\* The heap does not fit: InitializeMemoryManager calls exit(1).
HeapFails ==
  /\ phase = "heap"
  /\ ~\E start \in 0 .. kFrameCount : Fits(start, kHeapFrames)
  /\ phase' = "exit"
  /\ UNCHANGED <<alloc_map_, range_begin_, range_end_, memory_map, iter,
                 available_end, blocks>>

NewBlock(h, n) == phase = "run" /\ h # Heap /\ Allocate(h, n) /\ UNCHANGED phase

\* Callers free exactly what they got from Allocate; nobody frees the heap.
Free(h) ==
  /\ phase = "run" /\ h # Heap /\ blocks[h] # NoBlock
  /\ alloc_map_' = alloc_map_ \ FrameRange(blocks[h].start, blocks[h].n)
  /\ blocks' = [blocks EXCEPT ![h] = NoBlock]
  /\ UNCHANGED <<range_begin_, range_end_, memory_map, iter, available_end, phase>>

NextMemory ==
  \/ SortMemoryMapInPlace
  \/ ScanDescriptor
  \/ SetMemoryRange
  \/ InitializeHeap
  \/ HeapFails
  \/ \E h \in Holders : Free(h) \/ \E n \in Sizes : NewBlock(h, n)

MemorySpec == InitMemory /\ [][NextMemory]_memoryVars

-----------------------------------------------------------------------------
(* Properties. *)

MemoryTypeOK ==
  /\ alloc_map_ \subseteq 0 .. kFrameCount - 1
  /\ range_begin_ \in 0 .. kFrameCount /\ range_end_ \in 0 .. kFrameCount
  /\ memory_map \in Seq(Descriptors)
  /\ iter \in 1 .. Len(memory_map) + 1
  /\ available_end \in 0 .. kFrameCount
  /\ phase \in {"sort", "scan", "heap", "run", "exit"}
  /\ blocks \in [AllHolders -> [start : 0 .. kFrameCount, n : Nat]]

\* Frames the firmware lets the kernel use.
Usable == UNION {Covered(memory_map[i]) :
                   i \in {k \in 1 .. Len(memory_map) : memory_map[k].available}}

HeldFrames == UNION {FrameRange(blocks[h].start, blocks[h].n) : h \in AllHolders}

\* Once the range is set, the frames Allocate may hand out are exactly the
\* usable ones that nobody holds, frame 0 excepted: no hole, reserved range
\* or held frame is ever given away, and no usable frame is lost, whatever
\* the order of the firmware's map and the calls so far.
FreeFramesExact ==
  phase \in {"heap", "run", "exit"} =>
    (range_begin_ .. range_end_ - 1) \ alloc_map_ = (Usable \ {0}) \ HeldFrames

\* No frame has two holders.
BlocksDisjoint ==
  \A h, k \in AllHolders : h # k =>
    FrameRange(blocks[h].start, blocks[h].n) \cap FrameRange(blocks[k].start, blocks[k].n) = {}

\* A block that is held lies in usable memory and is marked in the bitmap.
HeldIsUsable == HeldFrames \subseteq Usable /\ HeldFrames \subseteq alloc_map_

\* The allocator gives away exactly the usable frames nobody holds, and what is
\* held lies in usable memory, is marked and has one holder, after the scan of
\* any memory map and any sequence of Allocate and Free.
AllocatorSound == FreeFramesExact /\ BlocksDisjoint /\ HeldIsUsable
=============================================================================
