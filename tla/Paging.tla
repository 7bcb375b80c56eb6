------------------------------- MODULE Paging -------------------------------
(***************************************************************************)
(* Address spaces of applications: page maps, copy on write, demand paging *)
(* and file mapping (paging.cpp), loading an application and the images    *)
(* kept in app_loads (LoadApp, ExecuteFile in terminal.cpp), the page      *)
(* fault handler and KillApp (interrupt.cpp), DemandPages and MapFile      *)
(* (syscall.cpp).                                                          *)
(*                                                                         *)
(* Only the user half of an address space is modelled: a root (PML4), one  *)
(* table per region standing for the three lower levels, and leaf entries. *)
(* Pages are numbered upwards: the image of the program, demand pages that *)
(* grow up from it, file maps that grow down from the stack, the stack and *)
(* the page of the arguments.                                              *)
(***************************************************************************)
EXTENDS Integers, FiniteSets, FiniteSetsExt, Functions

CONSTANTS
  Tasks,         \* terminals that execute files
  Apps,          \* executable files
  Broken,        \* files that are not executable: LoadApp's format errors
  NumFrames,     \* physical frames
  ImageSize,     \* pages of a program's LOAD segments
  GapSize,       \* bound: pages between the image and the stack
  MaxRuns,       \* bound: calls of ExecuteFile
  KernelBuffers, \* pages the kernel writes to on behalf of an application
  NoApp

ASSUME PagingAssumption ==
  /\ NumFrames \in Nat \ {0} /\ ImageSize \in Nat \ {0} /\ GapSize \in Nat /\ MaxRuns \in Nat
  /\ NoApp \notin Apps /\ Broken \subseteq Apps
  /\ KernelBuffers \subseteq 0 .. ImageSize + GapSize + 1

VARIABLES
  free,   \* frames the memory manager has
  mem,    \* contents of the frames
  space,  \* per task the address space in CR3 (NoSpace: the kernel's)
  temp,   \* per task temp_pml4 of the LoadApp call in progress
  loads,  \* app_loads: per file the address space of its image
  pc,     \* per task where ExecuteFile is
  app,    \* per task the file it executes
  dpEnd,  \* per task DPagingEnd
  fmBegin,\* per task FileMapEnd: the lowest file map
  ref,    \* what each page the application was given should hold (history)
  failed, \* some ExecuteFile returned an error (history)
  doubled,\* two tasks loaded the same file at once (history)
  runs    \* calls of ExecuteFile so far

vars == <<free, mem, space, temp, loads, pc, app, dpEnd, fmBegin, ref, failed, doubled, runs>>

Frames == 1 .. NumFrames
ImagePages == 0 .. ImageSize - 1
StackPage == ImageSize + GapSize
ArgsPage == StackPage + 1
Pages == 0 .. ArgsPage
Regions == {"low", "high"}
Region(p) == IF p < ImageSize + GapSize \div 2 THEN "low" ELSE "high"

Zero == <<"zero">>
Image(a, p) == <<"image", a, p>>
Args == <<"args">>
FileData(n) == <<"file", n>>
Data(t) == <<"data", t>>
Contents ==
  {Zero, Args} \cup {Image(a, p) : a \in Apps, p \in ImagePages}
    \cup {FileData(n) : n \in Pages} \cup {Data(t) : t \in Tasks}

Empty == [x \in {} |-> x]
Over(f, g) == [x \in DOMAIN f \cup DOMAIN g |-> IF x \in DOMAIN f THEN f[x] ELSE g[x]]
With(f, x, v) == [y \in DOMAIN f \cup {x} |-> IF y = x THEN v ELSE f[y]]
NoSpace == [root |-> 0, tables |-> Empty, leaf |-> Empty]

(***************************************************************************)
(* Page maps.  An operation works on st = [free, mem, as, ok]; after an    *)
(* error (ok = FALSE) it leaves what it has built so far.                  *)
(***************************************************************************)
State(t) == [free |-> free, mem |-> mem, as |-> space[t], ok |-> TRUE]
NewFrame(st) == Min(st.free)        \* Allocate(1) is first fit

\* NewPageMap: a frame of zeros
Taken(st) == [st EXCEPT !.free = @ \ {NewFrame(st)}, !.mem[NewFrame(st)] = Zero]
Fail(st) == [st EXCEPT !.ok = FALSE]

\* SetNewPageMapIfNotPresent for the tables above a page, and for its leaf
WithTable(st, r) ==
  IF r \in DOMAIN st.as.tables THEN st
  ELSE IF st.free = {} THEN Fail(st)
  ELSE [Taken(st) EXCEPT !.as.tables = With(@, r, NewFrame(st))]

WithLeaf(st, p, writable) ==
  IF p \in DOMAIN st.as.leaf THEN [st EXCEPT !.as.leaf[p].w = writable]
  ELSE IF st.free = {} THEN Fail(st)
  ELSE [Taken(st) EXCEPT !.as.leaf = With(@, p, [frame |-> NewFrame(st), w |-> writable])]

SetupPageMap(st, p, writable) ==
  LET table == IF st.ok THEN WithTable(st, Region(p)) ELSE st
  IN IF table.ok THEN WithLeaf(table, p, writable) ELSE table

SetupPageMaps(st, addr, num_4kpages, writable) ==
  LET done[n \in 0 .. num_4kpages] ==
        IF n = 0 THEN st ELSE SetupPageMap(done[n - 1], addr + n - 1, writable)
  IN done[num_4kpages]

\* the last level of CopyPageMaps: frames are shared, read only
CopyLeaves(leaf) == [p \in DOMAIN leaf |-> [leaf[p] EXCEPT !.w = FALSE]]

\* CopyPageMaps of one region: a new table, shared frames
CopyRegion(st, src, r) ==
  LET table == IF st.ok THEN WithTable(st, r) ELSE st
      copy == CopyLeaves(Restrict(src.leaf, {p \in DOMAIN src.leaf : Region(p) = r}))
  IN IF r \notin DOMAIN src.tables THEN st
     ELSE IF ~table.ok THEN table
     ELSE [table EXCEPT !.as.leaf = Over(copy, @)]

CopyPageMaps(st, src) == CopyRegion(CopyRegion(st, src, "low"), src, "high")

\* Mutant: every leaf's frame is freed, shared ones too.
FreedLeavesAll(leaf) == {leaf[p].frame : p \in DOMAIN leaf}

\* CleanPageMap frees the frame of a leaf only when the leaf is writable
FreedLeaves(leaf) == {leaf[p].frame : p \in {q \in DOMAIN leaf : leaf[q].w}}

\* CleanPageMaps of the whole user half: tables and writable leaves are freed
CleanPageMaps(st) ==
  [st EXCEPT !.free = @ \cup Range(st.as.tables) \cup FreedLeaves(st.as.leaf),
             !.as.tables = Empty, !.as.leaf = Empty]

\* Mutant: the content of the shared page is not copied.
CopyOnePageEmpty(st, p) ==
  IF st.free = {} THEN Fail(st)
  ELSE [Taken(st) EXCEPT !.as.leaf[p] = [frame |-> NewFrame(st), w |-> TRUE]]

\* CopyOnePage and SetPageContent
CopyOnePage(st, p) ==
  IF st.free = {} THEN Fail(st)
  ELSE [Taken(st) EXCEPT !.mem[NewFrame(st)] = st.mem[st.as.leaf[p].frame],
                         !.as.leaf[p] = [frame |-> NewFrame(st), w |-> TRUE]]

\* SetupPML4: a new root; the kernel half is shared and not modelled
SetupPML4(st) ==
  IF st.free = {} THEN Fail(st)
  ELSE [Taken(st) EXCEPT !.as = [NoSpace EXCEPT !.root = NewFrame(st)]]

\* Mutant: the root is forgotten.
FreePML4Keeps(st) == [st EXCEPT !.as = NoSpace]

FreePML4(st) == [st EXCEPT !.free = @ \cup {st.as.root}, !.as = NoSpace]

\* kernel stores go through read-only leaves: SetupIdentityPageTable clears CR0.WP
Store(st, p, value) == [st EXCEPT !.mem[st.as.leaf[p].frame] = value]

\* CopyLoadSegments: the image's contents, to the frames of its pages
CopyLoadSegments(st, a) ==
  [st EXCEPT !.mem = [f \in Frames |->
     IF \E p \in ImagePages : f = st.as.leaf[p].frame
     THEN Image(a, CHOOSE p \in ImagePages : f = st.as.leaf[p].frame)
     ELSE st.mem[f]]]

Commit(t, st) ==
  /\ free' = st.free /\ mem' = st.mem
  /\ space' = [space EXCEPT ![t] = st.as]

Goto(t, there) == pc' = [pc EXCEPT ![t] = there]

Init ==
  /\ free = Frames /\ mem = [f \in Frames |-> Zero]
  /\ space = [t \in Tasks |-> NoSpace] /\ temp = [t \in Tasks |-> NoSpace]
  /\ loads = [a \in Apps |-> NoSpace]
  /\ pc = [t \in Tasks |-> "idle"] /\ app = [t \in Tasks |-> NoApp]
  /\ dpEnd = [t \in Tasks |-> ImageSize] /\ fmBegin = [t \in Tasks |-> StackPage]
  /\ ref = [t \in Tasks |-> Empty]
  /\ failed = FALSE /\ doubled = FALSE /\ runs = 0

(***************************************************************************)
(* LoadApp and ExecuteFile.  Errors return to the caller and free nothing. *)
(***************************************************************************)
\* where ExecuteFile goes after a call that returned st
Proceed(t, st, there) ==
  /\ Commit(t, st)
  /\ Goto(t, IF st.ok THEN there ELSE "idle")
  /\ failed' = (failed \/ ~st.ok)

Loaded(a) == loads[a] # NoSpace

\* SetupPML4, and the page maps of an image that is already in app_loads
LoadApp(t, a) ==
  /\ pc[t] = "idle" /\ runs < MaxRuns
  /\ runs' = runs + 1
  /\ app' = [app EXCEPT ![t] = a]
  /\ LET own == SetupPML4(State(t))
     IN IF own.ok /\ Loaded(a) THEN Proceed(t, CopyPageMaps(own, loads[a]), "stack")
                               ELSE Proceed(t, own, "load")
  /\ UNCHANGED <<temp, loads, dpEnd, fmBegin, ref, doubled>>

\* the file is read; LoadELF maps its pages read only and fills them
LoadELF(t) ==
  /\ pc[t] = "load"
  /\ LET a == app[t]
         mapped == SetupPageMaps(State(t), 0, ImageSize, FALSE)
     IN IF a \in Broken
        THEN Proceed(t, Fail(State(t)), "record") /\ UNCHANGED temp
        ELSE /\ Proceed(t, IF mapped.ok THEN CopyLoadSegments(mapped, a) ELSE mapped, "record")
             /\ temp' = [temp EXCEPT ![t] = IF mapped.ok THEN mapped.as ELSE NoSpace]
  /\ UNCHANGED <<loads, app, dpEnd, fmBegin, ref, doubled, runs>>

\* the image is recorded (insert keeps an entry that is already there) and the
\* application gets an address space of its own
RecordApp(t) ==
  /\ pc[t] = "record"
  /\ loads' = IF Loaded(app[t]) THEN loads ELSE [loads EXCEPT ![app[t]] = temp[t]]
  /\ doubled' = (doubled \/ Loaded(app[t]))
  /\ LET own == SetupPML4(State(t))
     IN Proceed(t, IF own.ok THEN CopyPageMaps(own, temp[t]) ELSE own, "stack")
  /\ temp' = [temp EXCEPT ![t] = NoSpace]
  /\ UNCHANGED <<app, dpEnd, fmBegin, ref, runs>>

\* ExecuteFile: stack, arguments (MakeArgVector fails with too many), CallApp
CallApp(t) ==
  /\ pc[t] = "stack"
  /\ LET stack == SetupPageMaps(State(t), StackPage, 1, TRUE)
         args == IF stack.ok THEN SetupPageMaps(stack, ArgsPage, 1, TRUE) ELSE stack
         ready == IF args.ok THEN Store(args, ArgsPage, Args) ELSE args
     IN \E fits \in BOOLEAN : Proceed(t, IF fits THEN ready ELSE Fail(ready), "running")
  /\ dpEnd' = [dpEnd EXCEPT ![t] = ImageSize]
  /\ fmBegin' = [fmBegin EXCEPT ![t] = StackPage]
  /\ ref' = [ref EXCEPT ![t] = With(With([p \in ImagePages |-> Image(app[t], p)], StackPage, Zero),
                                    ArgsPage, Args)]
  /\ UNCHANGED <<temp, loads, app, doubled, runs>>

(***************************************************************************)
(* The running application.                                                *)
(***************************************************************************)
Running(t) == pc[t] = "running"
Leaf(t, p) == space[t].leaf[p]
Present(t, p) == p \in DOMAIN space[t].leaf

UserWrite(t, p) ==
  /\ Running(t) /\ Present(t, p) /\ Leaf(t, p).w
  /\ Commit(t, Store(State(t), p, Data(t)))
  /\ ref' = [ref EXCEPT ![t][p] = Data(t)]
  /\ UNCHANGED <<temp, loads, pc, app, dpEnd, fmBegin, failed, doubled, runs>>

\* a system call stores into the application's buffer (ReadFile, ReadEvent)
KernelWrite(t, p) ==
  /\ Running(t) /\ Present(t, p) /\ p \in KernelBuffers
  /\ Commit(t, Store(State(t), p, Data(t)))
  /\ ref' = [ref EXCEPT ![t][p] = Data(t)]
  /\ UNCHANGED <<temp, loads, pc, app, dpEnd, fmBegin, failed, doubled, runs>>

InDemandRange(t, p) == ImageSize <= p /\ p < dpEnd[t]
\* FindFileMapping: the maps of a task are adjacent
InFileMap(t, p) == fmBegin[t] <= p /\ p < StackPage

\* HandlePageFault repairs the access ...
FaultResult(t, p) ==
  LET mapped == SetupPageMaps(State(t), p, 1, TRUE)
  IN IF Present(t, p) THEN CopyOnePage(State(t), p)
     ELSE IF InDemandRange(t, p) THEN mapped
     ELSE IF InFileMap(t, p) THEN IF mapped.ok THEN Store(mapped, p, FileData(p)) ELSE mapped
     ELSE Fail(State(t))

\* ... or KillApp ends the application; a write to a present page faults when the
\* leaf is read only, any access when the page is absent
PageFault(t, p) ==
  /\ Running(t) /\ (Present(t, p) => ~Leaf(t, p).w)
  /\ LET st == FaultResult(t, p)
     IN Commit(t, st) /\ Goto(t, IF st.ok THEN "running" ELSE "exiting")
  /\ UNCHANGED <<temp, loads, app, dpEnd, fmBegin, ref, failed, doubled, runs>>

\* Bound, here and in MapFile: the source lets the two ranges grow without a test;
\* the model ends where they meet.
DemandPages(t) ==
  /\ Running(t) /\ dpEnd[t] < fmBegin[t]
  /\ dpEnd' = [dpEnd EXCEPT ![t] = @ + 1]
  /\ ref' = [ref EXCEPT ![t] = With(@, dpEnd[t], Zero)]
  /\ UNCHANGED <<free, mem, space, temp, loads, pc, app, fmBegin, failed, doubled, runs>>

MapFile(t) ==
  /\ Running(t) /\ dpEnd[t] < fmBegin[t]
  /\ fmBegin' = [fmBegin EXCEPT ![t] = @ - 1]
  /\ ref' = [ref EXCEPT ![t] = With(@, fmBegin[t] - 1, FileData(fmBegin[t] - 1))]
  /\ UNCHANGED <<free, mem, space, temp, loads, pc, app, dpEnd, failed, doubled, runs>>

ExitApp(t) ==
  /\ Running(t) /\ Goto(t, "exiting")
  /\ UNCHANGED <<free, mem, space, temp, loads, app, dpEnd, fmBegin, ref, failed, doubled, runs>>

\* the end of ExecuteFile: FileMaps().clear, CleanPageMaps, FreePML4
Clean(t) ==
  /\ pc[t] = "exiting"
  /\ Commit(t, FreePML4(CleanPageMaps(State(t))))
  /\ Goto(t, "idle")
  /\ ref' = [ref EXCEPT ![t] = Empty]
  /\ UNCHANGED <<temp, loads, app, dpEnd, fmBegin, failed, doubled, runs>>

Next ==
  \E t \in Tasks :
    \/ \E a \in Apps : LoadApp(t, a)
    \/ LoadELF(t) \/ RecordApp(t) \/ CallApp(t)
    \/ \E p \in Pages : UserWrite(t, p) \/ KernelWrite(t, p) \/ PageFault(t, p)
    \/ DemandPages(t) \/ MapFile(t) \/ ExitApp(t) \/ Clean(t)

Spec == Init /\ [][Next]_vars

(***************************************************************************)
(* Correctness.                                                            *)
(***************************************************************************)
LeafFrames(as) == {as.leaf[p].frame : p \in DOMAIN as.leaf}
WritableFrames(as) == FreedLeaves(as.leaf)
OwnFrames(as) == ({as.root} \ {0}) \cup Range(as.tables) \cup WritableFrames(as)
Reach(as) == OwnFrames(as) \cup LeafFrames(as)
Spaces == {space[t] : t \in Tasks} \cup {temp[t] : t \in Tasks} \cup {loads[a] : a \in Apps}

TypeOK ==
  /\ free \subseteq Frames /\ mem \in [Frames -> Contents]
  /\ \A as \in Spaces : /\ Reach(as) \subseteq Frames
                        /\ DOMAIN as.leaf \subseteq Pages
                        /\ DOMAIN as.tables \subseteq Regions
  /\ pc \in [Tasks -> {"idle", "load", "record", "stack", "running", "exiting"}]
  /\ app \in [Tasks -> Apps \cup {NoApp}]
  /\ dpEnd \in [Tasks -> ImageSize .. StackPage] /\ fmBegin \in [Tasks -> ImageSize .. StackPage]
  /\ \A t \in Tasks : dpEnd[t] <= fmBegin[t]
  /\ runs \in 0 .. MaxRuns /\ failed \in BOOLEAN /\ doubled \in BOOLEAN

\* No frame an address space uses is free, and the tables and writable pages of
\* one address space are in no other, although images are shared and CleanPageMap
\* decides by the writable bit what to free.
FramesExclusive ==
  /\ TypeOK
  /\ \A as \in Spaces : Reach(as) \cap free = {}
  /\ \A as1, as2 \in Spaces : as1.root # as2.root => OwnFrames(as1) \cap Reach(as2) = {}
  /\ \A as \in Spaces : Cardinality(OwnFrames(as)) =
       Cardinality({as.root} \ {0}) + Cardinality(DOMAIN as.tables)
         + Cardinality({p \in DOMAIN as.leaf : as.leaf[p].w})

\* Every mapped page of a running application holds what the application itself
\* (or the kernel for it) last put there, or its initial content: copy on write,
\* demand pages and file maps give each its own memory.
MemoryIsPrivate ==
  \A t \in Tasks : Running(t) =>
    \A p \in DOMAIN space[t].leaf :
      p \in DOMAIN ref[t] /\ mem[Leaf(t, p).frame] = ref[t][p]

\* A frame that is not free is in use by an address space, until an ExecuteFile
\* fails (it frees nothing) or two tasks load the same file at once.
NoLeakWithoutError ==
  (~failed /\ ~doubled) => Frames \ free = UNION {Reach(as) : as \in Spaces}
=============================================================================
