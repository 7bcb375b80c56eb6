---------------------------- MODULE MCMemoryRace ----------------------------
(***************************************************************************)
(* NewPageMap as LoadApp reaches it: a terminal task calls Allocate(1)     *)
(* with interrupts enabled, so that the timer can switch to another        *)
(* terminal task between the search and MarkAllocated.                     *)
(***************************************************************************)
EXTENDS MCMemoryManager

\* The frame each task's Allocate has found and not yet marked (-1: none).
VARIABLE found

racevars == <<memoryVars, found>>

Search(h) ==
  /\ phase = "run" /\ blocks[h] = NoBlock /\ found[h] = -1
  /\ \E start \in 0 .. kFrameCount :
       IsFirstFit(start, 1) /\ found' = [found EXCEPT ![h] = start]
  /\ UNCHANGED memoryVars

MarkAllocated(h) ==
  /\ found[h] # -1
  /\ alloc_map_' = alloc_map_ \cup {found[h]}
  /\ blocks' = [blocks EXCEPT ![h] = [start |-> found[h], n |-> 1]]
  /\ found' = [found EXCEPT ![h] = -1]
  /\ UNCHANGED <<range_begin_, range_end_, memory_map, iter, available_end, phase>>

RaceSpec ==
  /\ InitMemory /\ found = [h \in Holders |-> -1]
  /\ [][ \/ /\ \/ SortMemoryMapInPlace \/ ScanDescriptor \/ SetMemoryRange
               \/ InitializeHeap \/ HeapFails \/ \E h \in Holders : Free(h)
            /\ UNCHANGED found
         \/ \E h \in Holders : Search(h) \/ MarkAllocated(h) ]_racevars

\* "A new page is created and linked" (paging.cpp): the frame NewPageMap
\* returns belongs to nobody else.
NewPageIsNew == BlocksDisjoint
=============================================================================
