-------------------------------- MODULE Fat --------------------------------
(***************************************************************************)
(* The FAT volume of kernel/fat.cpp: the table, a directory and the files  *)
(* in it, and the read and write positions of FileDescriptor.              *)
(*                                                                         *)
(* The volume lies in memory and every call works on it directly.  A call  *)
(* is one action, but the loop of Write is one action per turn, so that    *)
(* the calls of other tasks fall between the clusters of a long write.     *)
(* Allocation of clusters inside one turn is not interrupted here.         *)
(*                                                                         *)
(* A directory entry is its file with first_cluster and file_size; the     *)
(* directory is the root.  Names and paths are the subject of Names.       *)
(* Nothing in the kernel deletes, so clusters are never freed; deleted     *)
(* entries (0xe5) come with the image.  A byte is named by the descriptor  *)
(* that wrote it and its offset.  content, what a file should hold, is     *)
(* bookkeeping.                                                            *)
(***************************************************************************)
EXTENDS Integers, Sequences, FiniteSets

CONSTANTS NumClusters,        \* clusters of the volume, numbered from 2
          bytes_per_cluster,
          EntriesPerCluster,  \* bytes_per_cluster / sizeof(DirectoryEntry)
          Files, Fds,
          WriteSizes, ReadSizes,
          MaxSize             \* bound: bytes in a file, and positions read from

ASSUME FatAssumption ==
  /\ NumClusters \in Nat \ {0}
  /\ bytes_per_cluster \in Nat \ {0}
  /\ EntriesPerCluster \in Nat \ {0}
  /\ WriteSizes \subseteq Nat /\ ReadSizes \subseteq Nat /\ MaxSize \in Nat
  /\ Files \cap {"0x00", "0xe5", "image", "stale", "none", "root"} = {}

Clusters == 2 .. NumClusters + 1
Free == 0
kEndOfClusterchain == NumClusters + 2   \* 0x0fffffff in the source
Root == 2

\* An entry of the directory: the end (its name begins with 0x00), deleted
\* (0xe5), a file, another file of the image, or whatever was in a cluster
\* before it became part of the directory.
Slots == {"0x00", "0xe5", "image", "stale"} \cup Files
Stale == <<"stale", 0>>   \* a byte never written
Wild == <<"wild", 0>>     \* a byte from outside the file's clusters
Bytes == (Fds \X Nat) \cup {Stale, Wild}

VARIABLES
  fat, slots, disk,           \* the volume: table, directories, data
  first_cluster, file_size,   \* per directory entry
  fds,                        \* open descriptors
  writing,                    \* the Write in progress on each descriptor
  content

vars == <<fat, slots, disk, first_cluster, file_size, fds, writing, content>>

NotOpen == [file |-> "none", rd_off_ |-> 0, rd_cluster_ |-> 0, rd_cluster_off_ |-> 0,
            wr_off_ |-> 0, wr_cluster_ |-> 0, wr_cluster_off_ |-> 0]
Idle == [active |-> FALSE, len |-> 0, total |-> 0]
IsOpen(d) == fds[d] # NotOpen
InCall(d) == writing[d].active

Minimum(a, b) == IF a < b THEN a ELSE b
Lowest(S) == CHOOSE x \in S : \A y \in S : x <= y
Highest(S) == CHOOSE x \in S : \A y \in S : x >= y

-----------------------------------------------------------------------------
(* The table. *)

\* An index outside the table (kEndOfClusterchain) leads nowhere.
NextCluster(c) == IF c \in Clusters THEN fat[c] ELSE kEndOfClusterchain

\* The cluster k links after c.
Follow(c, k) ==
  LET walk[i \in 0 .. k] == IF i = 0 THEN c ELSE NextCluster(walk[i - 1])
  IN  walk[k]

LastCluster(c) ==
  Follow(c, CHOOSE k \in 0 .. NumClusters :
              /\ NextCluster(Follow(c, k)) = kEndOfClusterchain
              /\ \A j \in 0 .. k - 1 : NextCluster(Follow(c, j)) # kEndOfClusterchain)

\* The n free clusters the scan from cluster 2 finds first.
FreeClusters == {c \in Clusters : fat[c] = Free}
Candidates(n) == {c \in FreeClusters : Cardinality({b \in FreeClusters : b < c}) < n}

\* Bound: the volume has room.  (The source scans past the end of the table.)
HasRoom(n) == Cardinality(FreeClusters) >= n

\* Mutant of ExtendCluster: the new end of the chain is not marked.
ExtendWithoutEnd(c, n) ==
  LET S    == Candidates(n)
      last == LastCluster(c)
  IN  [fat |-> [x \in Clusters |->
                  IF x \in S \cup {last}
                  THEN LET rest == IF x = last THEN S ELSE {y \in S : y > x}
                       IN  IF rest = {} THEN fat[x] ELSE Lowest(rest)
                  ELSE fat[x]],
       cluster |-> IF S = {} THEN last ELSE Highest(S)]

\* ExtendCluster: n free clusters, in ascending order, behind the end of the
\* chain of c.  The new table, and the cluster returned: the last one.
ExtendCluster(c, n) ==
  LET S    == Candidates(n)
      last == LastCluster(c)
  IN  [fat |-> [x \in Clusters |->
                  IF x \in S \cup {last}
                  THEN LET rest == IF x = last THEN S ELSE {y \in S : y > x}
                       IN  IF rest = {} THEN kEndOfClusterchain ELSE Lowest(rest)
                  ELSE fat[x]],
       cluster |-> IF S = {} THEN last ELSE Highest(S)]

\* AllocateClusterChain: max(n, 1) free clusters, linked in ascending order.
AllocateClusterChain(n) ==
  LET S == Candidates(IF n = 0 THEN 1 ELSE n)
  IN  [fat |-> [x \in Clusters |->
                  IF x \in S
                  THEN LET rest == {y \in S : y > x}
                       IN  IF rest = {} THEN kEndOfClusterchain ELSE Lowest(rest)
                  ELSE fat[x]],
       cluster |-> Lowest(S)]

num_cluster(bytes) == (bytes + bytes_per_cluster - 1) \div bytes_per_cluster

-----------------------------------------------------------------------------
(* The directory. *)

\* The clusters of the root directory, and its entries in order.
DirLength == Cardinality({k \in 0 .. NumClusters : Follow(Root, k) \in Clusters})
DirEntries == 0 .. DirLength * EntriesPerCluster - 1
Slot(k) == slots[Follow(Root, k \div EntriesPerCluster)][k % EntriesPerCluster]

\* FindFile in the root: entries after the first 0x00 are not looked at.
FindFile(f) ==
  \E k \in DirEntries : Slot(k) = f /\ \A j \in 0 .. k - 1 : Slot(j) \notin {"0x00", f}

Usable == {k \in DirEntries : Slot(k) \in {"0x00", "0xe5"}}

\* Mutant of CreateFile: the new cluster of the directory is not cleared.
CreateFileWithoutClear(f) ==
  /\ IF Usable # {}
     THEN LET k == Lowest(Usable)
          IN  /\ slots' = [slots EXCEPT ![Follow(Root, k \div EntriesPerCluster)]
                                            [k % EntriesPerCluster] = f]
              /\ UNCHANGED fat
     ELSE LET e == ExtendCluster(Root, 1)
          IN  /\ HasRoom(1)
              /\ fat' = e.fat
              /\ slots' = [slots EXCEPT ![e.cluster][0] = f]
  /\ first_cluster' = [first_cluster EXCEPT ![f] = 0]
  /\ file_size' = [file_size EXCEPT ![f] = 0]

\* CreateFile: AllocateEntry takes the first entry that is free or deleted,
\* or extends the directory by a cleared cluster; the entry is cleared.
CreateFile(f) ==
  /\ IF Usable # {}
     THEN LET k == Lowest(Usable)
          IN  /\ slots' = [slots EXCEPT ![Follow(Root, k \div EntriesPerCluster)]
                                            [k % EntriesPerCluster] = f]
              /\ UNCHANGED fat
     ELSE LET e == ExtendCluster(Root, 1)
          IN  /\ HasRoom(1)
              /\ fat' = e.fat
              /\ slots' = [slots EXCEPT ![e.cluster] =
                   [i \in 0 .. EntriesPerCluster - 1 |-> IF i = 0 THEN f ELSE "0x00"]]
  /\ first_cluster' = [first_cluster EXCEPT ![f] = 0]
  /\ file_size' = [file_size EXCEPT ![f] = 0]

-----------------------------------------------------------------------------
(* The system calls. *)

\* A volume whose root directory has other files and deleted entries in it.
Init ==
  /\ fat = [c \in Clusters |-> IF c = Root THEN kEndOfClusterchain ELSE Free]
  /\ \E used \in 0 .. EntriesPerCluster :
       \E entries \in [0 .. used - 1 -> {"0xe5", "image"}] :
         slots = [c \in Clusters |-> [i \in 0 .. EntriesPerCluster - 1 |->
                    IF c # Root THEN "stale" ELSE IF i < used THEN entries[i] ELSE "0x00"]]
  /\ disk = [c \in Clusters |-> [i \in 0 .. bytes_per_cluster - 1 |-> Stale]]
  /\ first_cluster = [f \in Files |-> 0]
  /\ file_size = [f \in Files |-> 0]
  /\ fds = [d \in Fds |-> NotOpen]
  /\ writing = [d \in Fds |-> Idle]
  /\ content = [f \in Files |-> <<>>]

\* OpenFile with O_CREAT, or a redirection.
OpenFile(d, f) ==
  /\ ~IsOpen(d)
  /\ fds' = [fds EXCEPT ![d] = [NotOpen EXCEPT !.file = f]]
  /\ IF FindFile(f) THEN UNCHANGED <<fat, slots, first_cluster, file_size>> ELSE CreateFile(f)
  /\ UNCHANGED <<disk, writing, content>>

\* Read from a descriptor's position: the cluster and the offset in it where
\* the next byte lies, and the number of bytes.  file_size - rd_off_ wraps
\* around if the file has become shorter, and exceeds any len.
ReadLength(fd, len) ==
  IF file_size[fd.file] >= fd.rd_off_ THEN Minimum(len, file_size[fd.file] - fd.rd_off_)
  ELSE len

ReadStart(fd) == IF fd.rd_cluster_ = 0 THEN first_cluster[fd.file] ELSE fd.rd_cluster_

ReadBytes(fd, len) ==
  [k \in 1 .. ReadLength(fd, len) |->
     LET pos == fd.rd_cluster_off_ + k - 1
         c   == Follow(ReadStart(fd), pos \div bytes_per_cluster)
     IN  IF c \in Clusters THEN disk[c][pos % bytes_per_cluster] ELSE Wild]

\* Mutant of AfterRead: the offset in the cluster is not reset.
AfterReadKeepsOffset(fd, len) ==
  LET pos == fd.rd_cluster_off_ + ReadLength(fd, len)
  IN  [fd EXCEPT !.rd_off_ = @ + ReadLength(fd, len),
                 !.rd_cluster_ = ReadStart(fd),
                 !.rd_cluster_off_ = Minimum(pos, bytes_per_cluster)]

AfterRead(fd, len) ==
  LET pos == fd.rd_cluster_off_ + ReadLength(fd, len)
  IN  [fd EXCEPT !.rd_off_ = @ + ReadLength(fd, len),
                 !.rd_cluster_ = Follow(ReadStart(fd), pos \div bytes_per_cluster),
                 !.rd_cluster_off_ = pos % bytes_per_cluster]

Read(d, len) ==
  /\ IsOpen(d) /\ ~InCall(d) /\ fds[d].rd_off_ <= MaxSize
  /\ fds' = [fds EXCEPT ![d] = AfterRead(fds[d], len)]
  /\ UNCHANGED <<fat, slots, disk, first_cluster, file_size, writing, content>>

\* Load, for a page of a mapped file: a Read of a fresh descriptor at the
\* offset, which leaves no trace.
LoadFd(f, offset) ==
  [NotOpen EXCEPT !.file = f, !.rd_off_ = offset,
                  !.rd_cluster_ = Follow(first_cluster[f], offset \div bytes_per_cluster),
                  !.rd_cluster_off_ = offset % bytes_per_cluster]

\* Write up to its loop: the first cluster.
Write(d, len) ==
  LET f == fds[d].file
      e == AllocateClusterChain(num_cluster(len))
  IN  /\ IsOpen(d) /\ ~InCall(d) /\ fds[d].wr_off_ + len <= MaxSize
      /\ writing' = [writing EXCEPT ![d] = [active |-> TRUE, len |-> len, total |-> 0]]
      /\ IF fds[d].wr_cluster_ # 0 THEN UNCHANGED <<fat, first_cluster, fds>>
         ELSE IF first_cluster[f] # 0
         THEN /\ fds' = [fds EXCEPT ![d].wr_cluster_ = first_cluster[f]]
              /\ UNCHANGED <<fat, first_cluster>>
         ELSE /\ HasRoom(IF len = 0 THEN 1 ELSE num_cluster(len))
              /\ fat' = e.fat
              /\ first_cluster' = [first_cluster EXCEPT ![f] = e.cluster]
              /\ fds' = [fds EXCEPT ![d].wr_cluster_ = e.cluster]
      /\ UNCHANGED <<slots, disk, file_size, content>>

\* A file's bytes with new ones from offset on.
Overwrite(bytes, offset, new) ==
  [k \in 1 .. (IF offset + Len(new) > Len(bytes) THEN offset + Len(new) ELSE Len(bytes)) |->
     IF k > offset /\ k <= offset + Len(new) THEN new[k - offset] ELSE bytes[k]]

\* Filling cluster c from off with the next n bytes of the Write.
Fill(d, c, off) ==
  LET fd  == fds[d]
      at  == fd.wr_off_ + writing[d].total
      n   == Minimum(writing[d].len - writing[d].total, bytes_per_cluster - off)
      new == [k \in 1 .. n |-> <<d, at + k>>]
  IN  /\ disk' = [disk EXCEPT ![c] = [i \in 0 .. bytes_per_cluster - 1 |->
                     IF i >= off /\ i < off + n THEN new[i - off + 1] ELSE disk[c][i]]]
      /\ fds' = [fds EXCEPT ![d].wr_cluster_ = c, ![d].wr_cluster_off_ = off + n]
      /\ writing' = [writing EXCEPT ![d].total = @ + n]
      /\ content' = [content EXCEPT ![fd.file] = Overwrite(@, at, new)]

\* Mutant of WriteLoop: a full cluster is always followed by a new one.
WriteLoopAlwaysExtends(d) ==
  LET fd   == fds[d]
      left == writing[d].len - writing[d].total
      e    == ExtendCluster(fd.wr_cluster_, num_cluster(left))
  IN  /\ InCall(d) /\ left > 0
      /\ IF fd.wr_cluster_off_ < bytes_per_cluster
         THEN Fill(d, fd.wr_cluster_, fd.wr_cluster_off_) /\ UNCHANGED fat
         ELSE HasRoom(num_cluster(left)) /\ fat' = e.fat /\ Fill(d, e.cluster, 0)
      /\ UNCHANGED <<slots, first_cluster, file_size>>

\* One turn of the loop of Write.
WriteLoop(d) ==
  LET fd   == fds[d]
      left == writing[d].len - writing[d].total
      next == NextCluster(fd.wr_cluster_)
      e    == ExtendCluster(fd.wr_cluster_, num_cluster(left))
  IN  /\ InCall(d) /\ left > 0
      /\ IF fd.wr_cluster_off_ < bytes_per_cluster
         THEN Fill(d, fd.wr_cluster_, fd.wr_cluster_off_) /\ UNCHANGED fat
         ELSE IF next # kEndOfClusterchain
         THEN Fill(d, next, 0) /\ UNCHANGED fat
         ELSE HasRoom(num_cluster(left)) /\ fat' = e.fat /\ Fill(d, e.cluster, 0)
      /\ UNCHANGED <<slots, first_cluster, file_size>>

\* The end of Write: the size becomes the position, even if that is less.
WriteEnd(d) ==
  LET end == fds[d].wr_off_ + writing[d].total
  IN  /\ InCall(d) /\ writing[d].total = writing[d].len
      /\ fds' = [fds EXCEPT ![d].wr_off_ = end]
      /\ file_size' = [file_size EXCEPT ![fds[d].file] = end]
      /\ writing' = [writing EXCEPT ![d] = Idle]
      /\ UNCHANGED <<fat, slots, disk, first_cluster, content>>

Next ==
  \E d \in Fds :
    \/ \E f \in Files : OpenFile(d, f)
    \/ \E len \in ReadSizes : Read(d, len)
    \/ \E len \in WriteSizes : Write(d, len)
    \/ WriteLoop(d)
    \/ WriteEnd(d)

Spec == Init /\ [][Next]_vars

-----------------------------------------------------------------------------
(* Properties. *)

Descriptors == [file : Files, rd_off_ : Nat, rd_cluster_ : Nat,
                rd_cluster_off_ : 0 .. bytes_per_cluster - 1,
                wr_off_ : Nat, wr_cluster_ : {0} \cup Clusters,
                wr_cluster_off_ : 0 .. bytes_per_cluster]

TypeOK ==
  /\ fat \in [Clusters -> {Free, kEndOfClusterchain} \cup Clusters]
  /\ slots \in [Clusters -> [0 .. EntriesPerCluster - 1 -> Slots]]
  /\ disk \in [Clusters -> [0 .. bytes_per_cluster - 1 -> Bytes]]
  /\ first_cluster \in [Files -> {0} \cup Clusters]
  /\ file_size \in [Files -> Nat]
  /\ fds \in [Fds -> Descriptors \cup {NotOpen}]
  /\ writing \in [Fds -> [active : BOOLEAN, len : Nat, total : Nat]]
  /\ content \in [Files -> Seq(Bytes)]

\* The chains of the volume: of the directory and of each file that has one.
Owners == {"root"} \cup {f \in Files : first_cluster[f] # 0}
Chain(o) ==
  LET c == IF o = "root" THEN Root ELSE first_cluster[o]
  IN  {Follow(c, k) : k \in 0 .. NumClusters} \cap Clusters

\* Every chain ends, no cluster is in two chains, and a cluster that is not
\* free is in one: the scans for free clusters of ExtendCluster and
\* AllocateClusterChain hand out a cluster once and lose none.
ChainsSound ==
  /\ TypeOK
  /\ \A o \in Owners :
       Follow(IF o = "root" THEN Root ELSE first_cluster[o], NumClusters) = kEndOfClusterchain
  /\ \A o, p \in Owners : o # p => Chain(o) \cap Chain(p) = {}
  /\ UNION {Chain(o) : o \in Owners} = Clusters \ FreeClusters

\* Every byte written to a file lies where one finds it by following the
\* file's chain, whichever descriptors wrote, in whatever pieces.
ContentStored ==
  \A f \in Files : \A k \in 1 .. Len(content[f]) :
    LET c == Follow(first_cluster[f], (k - 1) \div bytes_per_cluster)
    IN  c \in Clusters /\ disk[c][(k - 1) % bytes_per_cluster] = content[f][k]

\* The directory shows exactly the files that were created: none hides behind
\* the 0x00 that ends it, and it has no entry that nobody made.
DirectoryExact ==
  /\ \A d \in Fds : IsOpen(d) => FindFile(fds[d].file)
  /\ \A k \in DirEntries : Slot(k) = "stale" => \E j \in 0 .. k - 1 : Slot(j) = "0x00"

\* A descriptor that another one has overtaken: the file is now shorter than
\* its position; or it had read the last byte of the last cluster, kept
\* kEndOfClusterchain, and the file has grown.
Outrun(fd) == fd.rd_off_ > file_size[fd.file] \/ fd.rd_cluster_ = kEndOfClusterchain

\* A Read returns the bytes of the file from its position on, and a Load those
\* from its offset on, up to the size of the file: whatever was read before,
\* and whatever is being written meanwhile.
Expected(fd, len) ==
  SubSeq(content[fd.file], fd.rd_off_ + 1,
         fd.rd_off_ + Minimum(len, file_size[fd.file] - fd.rd_off_))

ReadReturnsContent ==
  \A d \in Fds, len \in ReadSizes : (IsOpen(d) /\ ~InCall(d)) =>
    /\ ~Outrun(fds[d]) => ReadBytes(fds[d], len) = Expected(fds[d], len)
    /\ \A offset \in 0 .. file_size[fds[d].file] - 1 :
         LET fd == LoadFd(fds[d].file, offset)
         IN  ReadBytes(fd, len) = Expected(fd, len)
=============================================================================
