-------------------------- MODULE MCMemoryManager --------------------------
(***************************************************************************)
(* MemoryManager for TLC: all memory maps of a few descriptors.            *)
(***************************************************************************)
EXTENDS MemoryManager, SequencesExt

CONSTANTS MaxDescriptors   \* bound: length of a memory map

Overlaps(d, e) == d.start < e.start + e.pages /\ e.start < d.start + d.pages

\* Every map of at most MaxDescriptors descriptors in kFrameCount frames, in
\* every order, with and without holes.
SmallDescriptors ==
  {d \in [start : 0 .. kFrameCount - 1, pages : 1 .. kFrameCount, available : BOOLEAN] :
     d.start + d.pages <= kFrameCount}

AllMaps ==
  UNION {{m \in [1 .. k -> SmallDescriptors] :
            \A i, j \in 1 .. k : i # j => ~Overlaps(m[i], m[j])} :
         k \in 1 .. MaxDescriptors}

=============================================================================
