---------------------------- MODULE MemoryProofs ----------------------------
(***************************************************************************)
(* Proofs about memory.  Of address spaces (Paging): frames are exclusive, *)
(* memory is private and nothing is leaked, for any number of tasks, files,*)
(* frames and pages.  Of physical frames (MemoryManager), at the end: the  *)
(* allocator gives away exactly the usable frames nobody holds, for every  *)
(* memory map whose descriptors do not overlap and every sequence of       *)
(* Allocate and Free.                                                      *)
(***************************************************************************)
EXTENDS Paging, MemoryManager, FiniteSetTheorems, SequenceTheorems, WellFoundedInduction, TLAPS

-----------------------------------------------------------------------------
(* Numbers *)

\* A nonempty set of numbers has a least element.
LEMMA LeastExists ==
  ASSUME NEW T \in SUBSET Nat, T # {}
  PROVE  \E m \in T : \A k \in T : m <= k
<1> DEFINE R == OpToRel(<, Nat)
<1>1. \E x \in T : \A y \in T : ~(<<y, x>> \in R)
  BY NatLessThanWellFounded, WFMin
<1>2. \A x, y \in T : <<y, x>> \notin R => ~(y < x)
  BY DEF OpToRel
<1>3. \E x \in T : \A y \in T : ~(y < x)
  BY <1>1, <1>2, Zenon
<1> QED BY <1>3

\* Induction over a set: one with 0 that is closed under successor has every
\* number.
LEMMA NatSetInduction ==
  ASSUME NEW S, 0 \in S, \A n \in Nat : n \in S => n + 1 \in S
  PROVE  Nat \subseteq S
<1> SUFFICES ASSUME Nat \ S # {} PROVE FALSE
  OBVIOUS
<1>1. PICK m \in Nat \ S : \A k \in Nat \ S : m <= k
  BY LeastExists
<1>2. m - 1 \in Nat /\ m - 1 \in S
  BY <1>1
<1> QED BY <1>1, <1>2

-----------------------------------------------------------------------------
(* Address spaces and the states operations work on. *)

Leaves == [frame : Frames, w : BOOLEAN]

IsSpace(as) ==
  /\ as = [root |-> as.root, tables |-> as.tables, leaf |-> as.leaf]
  /\ as.root \in 0 .. NumFrames
  /\ as.tables \in [DOMAIN as.tables -> Frames] /\ DOMAIN as.tables \subseteq Regions
  /\ as.leaf \in [DOMAIN as.leaf -> Leaves] /\ DOMAIN as.leaf \subseteq Pages

IsState(st) ==
  /\ st = [free |-> st.free, mem |-> st.mem, as |-> st.as, ok |-> st.ok]
  /\ st.free \subseteq Frames
  /\ st.mem \in [Frames -> Contents]
  /\ IsSpace(st.as)
  /\ st.ok \in BOOLEAN

\* No frame has two uses in an address space.
Single(as) ==
  /\ \A r, q \in DOMAIN as.tables : as.tables[r] = as.tables[q] => r = q
  /\ \A p, q \in DOMAIN as.leaf : as.leaf[p].frame = as.leaf[q].frame => p = q
  /\ \A r \in DOMAIN as.tables : \A p \in DOMAIN as.leaf : as.tables[r] # as.leaf[p].frame
  /\ \A r \in DOMAIN as.tables : as.tables[r] # as.root
  /\ \A p \in DOMAIN as.leaf : as.leaf[p].frame # as.root

Sound(st) == IsState(st) /\ Single(st.as) /\ Reach(st.as) \cap st.free = {}

LEMMA ReachIs ==
  \A as, f : f \in Reach(as) <=> \/ f = as.root /\ f # 0
                                 \/ \E r \in DOMAIN as.tables : f = as.tables[r]
                                 \/ \E p \in DOMAIN as.leaf : f = as.leaf[p].frame
BY DEF Reach, OwnFrames, LeafFrames, WritableFrames, FreedLeaves, Range

LEMMA OwnIs ==
  \A as, f : f \in OwnFrames(as) <=> \/ f = as.root /\ f # 0
                                     \/ \E r \in DOMAIN as.tables : f = as.tables[r]
                                     \/ \E p \in DOMAIN as.leaf : as.leaf[p].w /\ f = as.leaf[p].frame
BY DEF OwnFrames, WritableFrames, FreedLeaves, Range

\* Allocate returns a free frame, and NewPageMap clears it.
LEMMA TakenIs ==
  ASSUME NEW st, IsState(st), st.free # {}
  PROVE  /\ NewFrame(st) \in st.free
         /\ Taken(st) = [free |-> st.free \ {NewFrame(st)}, mem |-> [st.mem EXCEPT ![NewFrame(st)] = Zero],
                         as |-> st.as, ok |-> st.ok]
<1>1. st.free \in SUBSET Nat
  BY PagingAssumption DEF IsState, Frames
<1>2. \E m \in st.free : \A k \in st.free : m <= k
  BY <1>1, LeastExists
<1>3. NewFrame(st) \in st.free
  BY <1>2 DEF NewFrame, Min
<1>4. st = [free |-> st.free, mem |-> st.mem, as |-> st.as, ok |-> st.ok]
  BY DEF IsState
<1>5. PICK n : n = NewFrame(st)
  OBVIOUS
<1>6. PICK u : u = [st EXCEPT !.free = st.free \ {n}]
  OBVIOUS
<1>7. u = [free |-> st.free \ {n}, mem |-> st.mem, as |-> st.as, ok |-> st.ok]
  BY <1>4, <1>6
<1>8. [u EXCEPT !.mem[n] = Zero]
        = [free |-> st.free \ {n}, mem |-> [st.mem EXCEPT ![n] = Zero], as |-> st.as, ok |-> st.ok]
  BY ONLY <1>7
<1>9. Taken(st) = [u EXCEPT !.mem[n] = Zero]
  BY <1>5, <1>6 DEF Taken
<1> QED BY <1>3, <1>5, <1>8, <1>9

-----------------------------------------------------------------------------
(* SetNewPageMapIfNotPresent. *)

\* From s an operation has come to u: it took frames that were free and put
\* them into its address space, and left the contents of all others alone.
Grows(s, u) ==
  /\ Sound(u)
  /\ u.free \subseteq s.free
  /\ \A f \in Frames \ s.free : u.mem[f] = s.mem[f]
  /\ u.as.root = s.as.root
  /\ Reach(u.as) = Reach(s.as) \cup (s.free \ u.free)
  /\ OwnFrames(s.as) \subseteq OwnFrames(u.as)
  /\ OwnFrames(u.as) \subseteq OwnFrames(s.as) \cup (s.free \ u.free)

\* No leaf was changed, and the new ones, all for pages of P, are clear.
Maps(s, u, P, w) ==
  /\ Grows(s, u)
  /\ \A p \in DOMAIN s.as.leaf : p \in DOMAIN u.as.leaf /\ u.as.leaf[p] = s.as.leaf[p]
  /\ \A p \in DOMAIN u.as.leaf : p \notin DOMAIN s.as.leaf =>
       p \in P /\ u.as.leaf[p].w = w /\ u.as.leaf[p].frame \in s.free /\ u.mem[u.as.leaf[p].frame] = Zero
  /\ u.ok => s.ok /\ P \subseteq DOMAIN u.as.leaf

LEMMA GrowsTransitive ==
  ASSUME NEW s, NEW u, NEW v, IsState(s), Grows(s, u), Grows(u, v)
  PROVE  Grows(s, v)
<1>1. v.free \subseteq s.free /\ v.as.root = s.as.root
  BY DEF Grows
<1>2. \A f \in Frames \ s.free : v.mem[f] = s.mem[f]
  BY DEF Grows
<1>3. Reach(v.as) = Reach(s.as) \cup (s.free \ v.free)
  BY DEF Grows
<1>4. /\ OwnFrames(s.as) \subseteq OwnFrames(v.as)
      /\ OwnFrames(v.as) \subseteq OwnFrames(s.as) \cup (s.free \ v.free)
  BY DEF Grows
<1> QED BY <1>1, <1>2, <1>3, <1>4 DEF Grows

LEMMA GrowsSelf == ASSUME NEW s, Sound(s) PROVE Grows(s, s)
BY DEF Grows

LEMMA FailIs ==
  ASSUME NEW s, IsState(s)
  PROVE  Fail(s) = [free |-> s.free, mem |-> s.mem, as |-> s.as, ok |-> FALSE] /\ IsState(Fail(s))
<1>1. s = [free |-> s.free, mem |-> s.mem, as |-> s.as, ok |-> s.ok]
  BY DEF IsState
<1>2. PICK k : k = FALSE
  OBVIOUS
<1>3. [s EXCEPT !.ok = k] = [free |-> s.free, mem |-> s.mem, as |-> s.as, ok |-> k]
  BY <1>1
<1>4. Fail(s) = [free |-> s.free, mem |-> s.mem, as |-> s.as, ok |-> FALSE]
  BY <1>2, <1>3, Zenon DEF Fail
<1> QED BY <1>4 DEF IsState

LEMMA FailGrows == ASSUME NEW s, Sound(s) PROVE Grows(s, Fail(s))
<1>1. Sound(Fail(s))
  BY FailIs DEF Sound
<1> QED BY <1>1, FailIs DEF Grows, Sound

\* A state whose address space has one more frame.
LEMMA NewTable ==
  ASSUME NEW s, Sound(s), s.free # {}, NEW r \in Regions, r \notin DOMAIN s.as.tables
  PROVE  LET u == [Taken(s) EXCEPT !.as.tables = With(@, r, NewFrame(s))]
         IN  Grows(s, u) /\ u.as.leaf = s.as.leaf /\ u.ok = s.ok /\ r \in DOMAIN u.as.tables
<1> DEFINE n == NewFrame(s)
           u == [Taken(s) EXCEPT !.as.tables = With(@, r, NewFrame(s))]
<1>0. IsState(s) /\ IsSpace(s.as) /\ n \in s.free /\ n \in Frames /\ n \notin Reach(s.as) /\ n # 0
  BY TakenIs, PagingAssumption DEF Sound, IsState, Frames
<1>1. u = [free |-> s.free \ {n}, mem |-> [s.mem EXCEPT ![n] = Zero],
           as |-> [root |-> s.as.root, tables |-> With(s.as.tables, r, n), leaf |-> s.as.leaf], ok |-> s.ok]
  <2>1. PICK a : a = s.as /\ a = [root |-> a.root, tables |-> a.tables, leaf |-> a.leaf]
    BY <1>0 DEF IsSpace
  <2>2. PICK v : v = Taken(s) /\ v = [free |-> s.free \ {n}, mem |-> [s.mem EXCEPT ![n] = Zero], as |-> a, ok |-> s.ok]
    BY <1>0, <2>1, TakenIs
  <2>3. [v EXCEPT !.as.tables = With(@, r, n)]
          = [free |-> s.free \ {n}, mem |-> [s.mem EXCEPT ![n] = Zero],
             as |-> [root |-> a.root, tables |-> With(a.tables, r, n), leaf |-> a.leaf], ok |-> s.ok]
    <3> HIDE DEF n
    <3> QED BY <2>1, <2>2
  <2> QED BY <2>1, <2>2, <2>3
<1> HIDE DEF n, u
<1>2. PICK x : x = u.as
  OBVIOUS
<1>3. /\ x.root = s.as.root /\ x.leaf = s.as.leaf /\ DOMAIN x.tables = DOMAIN s.as.tables \cup {r} /\ x.tables[r] = n
      /\ \A q \in DOMAIN s.as.tables : x.tables[q] = s.as.tables[q]
      /\ IsSpace(x)
  <2>1. x = [root |-> s.as.root, tables |-> With(s.as.tables, r, n), leaf |-> s.as.leaf]
    BY <1>1, <1>2
  <2>2. With(s.as.tables, r, n) \in [DOMAIN s.as.tables \cup {r} -> Frames]
    BY <1>0 DEF With, IsSpace
  <2> QED BY <1>0, <2>1, <2>2 DEF With, IsSpace
<1>4. Reach(x) = Reach(s.as) \cup {n}
  BY <1>0, <1>3, ReachIs
<1>5. OwnFrames(x) = OwnFrames(s.as) \cup {n}
  BY <1>0, <1>3, OwnIs
<1>6. Single(x)
  <2>1. /\ \A q \in DOMAIN s.as.tables : s.as.tables[q] # n
        /\ \A p \in DOMAIN s.as.leaf : s.as.leaf[p].frame # n
        /\ s.as.root # n
    BY <1>0, ReachIs
  <2> QED BY <1>3, <2>1 DEF Single, Sound
<1>7. u.free = s.free \ {n} /\ u.mem = [s.mem EXCEPT ![n] = Zero] /\ u.ok = s.ok
  BY <1>1
<1>8. Zero \in Contents
  BY DEF Contents
<1>9. IsState(u)
  BY <1>0, <1>1, <1>2, <1>3, <1>7, <1>8 DEF IsState
<1>10. Sound(u)
  BY <1>2, <1>4, <1>6, <1>7, <1>9 DEF Sound
<1>11. \A f \in Frames \ s.free : u.mem[f] = s.mem[f]
  BY <1>0, <1>7 DEF IsState
<1>12. s.free \ u.free = {n}
  BY <1>0, <1>7
<1>13. Grows(s, u)
  BY <1>2, <1>3, <1>4, <1>5, <1>7, <1>10, <1>11, <1>12 DEF Grows
<1> QED BY <1>2, <1>3, <1>7, <1>13 DEF u

LEMMA NewLeaf ==
  ASSUME NEW s, Sound(s), s.free # {}, NEW p \in Pages, p \notin DOMAIN s.as.leaf, NEW w \in BOOLEAN
  PROVE  LET u == [Taken(s) EXCEPT !.as.leaf = With(@, p, [frame |-> NewFrame(s), w |-> w])]
         IN  Maps(s, u, {p}, w) /\ u.ok = s.ok
<1> DEFINE n == NewFrame(s)
           l == [frame |-> NewFrame(s), w |-> w]
           u == [Taken(s) EXCEPT !.as.leaf = With(@, p, [frame |-> NewFrame(s), w |-> w])]
<1>0. /\ IsState(s) /\ IsSpace(s.as) /\ n \in s.free /\ n \in Frames /\ n \notin Reach(s.as) /\ n # 0
      /\ l \in Leaves /\ l.frame = n /\ l.w = w
  BY TakenIs, PagingAssumption DEF Sound, IsState, Frames, Leaves
<1>1. u = [free |-> s.free \ {n}, mem |-> [s.mem EXCEPT ![n] = Zero],
           as |-> [root |-> s.as.root, tables |-> s.as.tables, leaf |-> With(s.as.leaf, p, l)], ok |-> s.ok]
  <2>1. PICK a : a = s.as /\ a = [root |-> a.root, tables |-> a.tables, leaf |-> a.leaf]
    BY <1>0 DEF IsSpace
  <2>2. PICK v : v = Taken(s) /\ v = [free |-> s.free \ {n}, mem |-> [s.mem EXCEPT ![n] = Zero], as |-> a, ok |-> s.ok]
    BY <1>0, <2>1, TakenIs
  <2>3. u = [v EXCEPT !.as.leaf = With(@, p, l)]
    BY <2>2
  <2>4. [v EXCEPT !.as.leaf = With(@, p, l)]
          = [free |-> s.free \ {n}, mem |-> [s.mem EXCEPT ![n] = Zero],
             as |-> [root |-> a.root, tables |-> a.tables, leaf |-> With(a.leaf, p, l)], ok |-> s.ok]
    <3> HIDE DEF n, l
    <3> QED BY <2>1, <2>2
  <2> QED BY <2>1, <2>3, <2>4
<1> HIDE DEF n, l, u
<1>2. PICK x : x = u.as
  OBVIOUS
<1>3. /\ x.root = s.as.root /\ x.tables = s.as.tables /\ DOMAIN x.leaf = DOMAIN s.as.leaf \cup {p} /\ x.leaf[p] = l
      /\ \A q \in DOMAIN s.as.leaf : x.leaf[q] = s.as.leaf[q]
      /\ IsSpace(x)
  <2>1. x = [root |-> s.as.root, tables |-> s.as.tables, leaf |-> With(s.as.leaf, p, l)]
    BY <1>1, <1>2
  <2>2. With(s.as.leaf, p, l) \in [DOMAIN s.as.leaf \cup {p} -> Leaves]
    BY <1>0 DEF With, IsSpace
  <2> QED BY <1>0, <2>1, <2>2 DEF With, IsSpace
<1>4. Reach(x) = Reach(s.as) \cup {n}
  BY <1>0, <1>3, ReachIs
<1>5. OwnFrames(s.as) \subseteq OwnFrames(x) /\ OwnFrames(x) \subseteq OwnFrames(s.as) \cup {n}
  BY <1>0, <1>3, OwnIs
<1>6. Single(x)
  <2>1. /\ \A q \in DOMAIN s.as.tables : s.as.tables[q] # n
        /\ \A q \in DOMAIN s.as.leaf : s.as.leaf[q].frame # n
        /\ s.as.root # n
    BY <1>0, ReachIs
  <2> QED BY <1>0, <1>3, <2>1 DEF Single, Sound
<1>7. u.free = s.free \ {n} /\ u.mem = [s.mem EXCEPT ![n] = Zero] /\ u.ok = s.ok
  BY <1>1
<1>8. Zero \in Contents
  BY DEF Contents
<1>9. IsState(u)
  BY <1>0, <1>1, <1>2, <1>3, <1>7, <1>8 DEF IsState
<1>10. Sound(u)
  BY <1>2, <1>4, <1>6, <1>7, <1>9 DEF Sound
<1>11. (\A f \in Frames \ s.free : u.mem[f] = s.mem[f]) /\ u.mem[n] = Zero
  BY <1>0, <1>7 DEF IsState
<1>12. s.free \ u.free = {n}
  BY <1>0, <1>7
<1>13. Grows(s, u)
  BY <1>2, <1>3, <1>4, <1>5, <1>7, <1>10, <1>11, <1>12 DEF Grows
<1>14. Maps(s, u, {p}, w)
  BY <1>0, <1>2, <1>3, <1>7, <1>11, <1>13 DEF Maps
<1> QED BY <1>7, <1>14 DEF u, l, n

\* SetupPageMap for a page that is absent.
LEMMA PageMaps ==
  ASSUME NEW s, Sound(s), NEW p \in Pages, p \notin DOMAIN s.as.leaf, NEW w \in BOOLEAN
  PROVE  Maps(s, SetupPageMap(s, p, w), {p}, w)
<1> DEFINE t == IF s.ok THEN WithTable(s, Region(p)) ELSE s
<1>0. Region(p) \in Regions
  BY DEF Region, Regions
<1>1. Grows(s, t) /\ t.as.leaf = s.as.leaf /\ (t.ok => s.ok)
  <2>1. CASE ~s.ok \/ Region(p) \in DOMAIN s.as.tables
    <3>1. t = s
      BY <2>1 DEF WithTable
    <3> QED BY <3>1, GrowsSelf
  <2>2. CASE s.ok /\ Region(p) \notin DOMAIN s.as.tables /\ s.free = {}
    <3>1. t = Fail(s)
      BY <2>2 DEF WithTable
    <3>2. Grows(s, Fail(s)) /\ Fail(s).as = s.as
      BY FailGrows, FailIs DEF Sound
    <3> QED BY <2>2, <3>1, <3>2
  <2>3. CASE s.ok /\ Region(p) \notin DOMAIN s.as.tables /\ s.free # {}
    <3>1. t = [Taken(s) EXCEPT !.as.tables = With(@, Region(p), NewFrame(s))]
      BY <2>3 DEF WithTable
    <3> HIDE DEF t
    <3> QED BY <1>0, <2>3, <3>1, NewTable
  <2> QED BY <2>1, <2>2, <2>3
<1>2. SetupPageMap(s, p, w) = IF t.ok THEN WithLeaf(t, p, w) ELSE t
  BY DEF SetupPageMap
<1> HIDE DEF t
<1>3. Sound(t)
  BY <1>1 DEF Grows
<1>4. CASE ~t.ok
  <2>1. SetupPageMap(s, p, w) = t
    BY <1>2, <1>4
  <2> QED BY <1>1, <1>4, <2>1 DEF Maps
<1>5. CASE t.ok /\ t.free = {}
  <2>1. SetupPageMap(s, p, w) = Fail(t)
    BY <1>1, <1>2, <1>5 DEF WithLeaf
  <2>2. Grows(t, Fail(t)) /\ Fail(t).as = t.as /\ ~Fail(t).ok
    BY <1>3, FailGrows, FailIs DEF Sound
  <2>3. Grows(s, Fail(t))
    BY <1>1, <2>2, GrowsTransitive DEF Sound
  <2> QED BY <1>1, <2>1, <2>2, <2>3 DEF Maps
<1>6. CASE t.ok /\ t.free # {}
  <2>1. PICK u : u = SetupPageMap(s, p, w)
    OBVIOUS
  <2>2. u = [Taken(t) EXCEPT !.as.leaf = With(@, p, [frame |-> NewFrame(t), w |-> w])]
    BY <1>1, <1>2, <1>6, <2>1 DEF WithLeaf
  <2>3. Maps(t, u, {p}, w) /\ u.ok = t.ok
    BY <1>1, <1>3, <1>6, <2>2, NewLeaf
  <2>4. Grows(s, u)
    BY <1>1, <2>3, GrowsTransitive DEF Sound, Maps
  <2>5. t.free \subseteq s.free
    BY <1>1 DEF Grows
  <2>6. Maps(s, u, {p}, w)
    BY <1>1, <2>3, <2>4, <2>5 DEF Maps
  <2> QED BY <2>1, <2>6
<1>7. t.ok \in BOOLEAN
  BY <1>3 DEF Sound, IsState
<1> QED BY <1>4, <1>5, <1>6

LEMMA MapsTransitive ==
  ASSUME NEW s, NEW u, NEW v, NEW P, NEW Q, NEW w, Sound(s), Maps(s, u, P, w), Maps(u, v, Q, w)
  PROVE  Maps(s, v, P \cup Q, w)
<1>1. Grows(s, v)
  BY GrowsTransitive DEF Maps, Sound
<1>2. \A p \in DOMAIN s.as.leaf : p \in DOMAIN v.as.leaf /\ v.as.leaf[p] = s.as.leaf[p]
  BY DEF Maps
<1>3. ASSUME NEW p \in DOMAIN v.as.leaf, p \notin DOMAIN s.as.leaf
      PROVE  /\ p \in P \cup Q /\ v.as.leaf[p].w = w /\ v.as.leaf[p].frame \in s.free
             /\ v.mem[v.as.leaf[p].frame] = Zero
  <2>1. CASE p \in DOMAIN u.as.leaf
    <3>1. /\ p \in P /\ u.as.leaf[p].w = w /\ u.as.leaf[p].frame \in s.free
          /\ u.mem[u.as.leaf[p].frame] = Zero /\ v.as.leaf[p] = u.as.leaf[p]
      BY <1>3, <2>1 DEF Maps
    <3>2. u.as.leaf[p].frame \in Reach(u.as)
      BY <2>1, ReachIs
    <3>3. u.as.leaf[p].frame \in Frames \ u.free
      BY <3>1, <3>2 DEF Maps, Grows, Sound, IsState
    <3> QED BY <3>1, <3>3 DEF Maps, Grows
  <2>2. CASE p \notin DOMAIN u.as.leaf
    <3>1. /\ p \in Q /\ v.as.leaf[p].w = w /\ v.as.leaf[p].frame \in u.free
          /\ v.mem[v.as.leaf[p].frame] = Zero
      BY <2>2 DEF Maps
    <3> QED BY <3>1 DEF Maps, Grows
  <2> QED BY <2>1, <2>2
<1>4. v.ok => s.ok /\ P \cup Q \subseteq DOMAIN v.as.leaf
  BY DEF Maps
<1> QED BY <1>1, <1>2, <1>3, <1>4 DEF Maps

-----------------------------------------------------------------------------
(* The loop of SetupPageMaps. *)

IsLoop(d, s, addr, num, w) ==
  d = [n \in 0 .. num |-> IF n = 0 THEN s ELSE SetupPageMap(d[n - 1], addr + n - 1, w)]

LEMMA LoopSteps ==
  \A d, s, w : \A addr, num \in Nat : IsLoop(d, s, addr, num, w) =>
    d[0] = s /\ \A n \in 0 .. num - 1 : d[n + 1] = SetupPageMap(d[n], addr + n, w)
<1> SUFFICES ASSUME NEW d, NEW s, NEW w, NEW addr \in Nat, NEW num \in Nat, IsLoop(d, s, addr, num, w)
             PROVE  d[0] = s /\ \A n \in 0 .. num - 1 : d[n + 1] = SetupPageMap(d[n], addr + n, w)
  OBVIOUS
<1>1. \A n \in 0 .. num : d[n] = IF n = 0 THEN s ELSE SetupPageMap(d[n - 1], addr + n - 1, w)
  BY DEF IsLoop
<1>2. ASSUME NEW n \in 0 .. num - 1 PROVE d[n + 1] = SetupPageMap(d[n], addr + n, w)
  <2>1. n + 1 \in 0 .. num /\ n + 1 # 0 /\ (n + 1) - 1 = n /\ addr + (n + 1) - 1 = addr + n
    OBVIOUS
  <2> QED BY <1>1, <2>1
<1> QED BY <1>1, <1>2

LEMMA LoopExists ==
  ASSUME NEW s, NEW addr \in Nat, NEW num \in Nat, NEW w
  PROVE  \E d : IsLoop(d, s, addr, num, w)
<1> DEFINE S == {k \in Nat : \E d : IsLoop(d, s, addr, k, w)}
<1>1. 0 \in S
  <2> DEFINE d == [n \in 0 .. 0 |-> s]
  <2>1. d = [n \in 0 .. 0 |-> IF n = 0 THEN s ELSE SetupPageMap(d[n - 1], addr + n - 1, w)]
    OBVIOUS
  <2> QED BY <2>1 DEF IsLoop
<1>2. ASSUME NEW k \in Nat, k \in S PROVE k + 1 \in S
  <2>1. PICK d : IsLoop(d, s, addr, k, w)
    BY <1>2
  <2>0. d[0] = s
    BY <2>1, LoopSteps
  <2>2. \A n \in 0 .. k - 1 : d[n + 1] = SetupPageMap(d[n], addr + n, w)
    BY <2>1, LoopSteps
  <2> DEFINE e == [n \in 0 .. k + 1 |-> IF n = k + 1 THEN SetupPageMap(d[k], addr + k, w) ELSE d[n]]
  <2>3. ASSUME NEW n \in 0 .. k + 1
        PROVE  e[n] = IF n = 0 THEN s ELSE SetupPageMap(e[n - 1], addr + n - 1, w)
    <3>1. CASE n = 0
      BY <2>0, <3>1
    <3>2. CASE n # 0 /\ n # k + 1
      <4>1. n - 1 \in 0 .. k - 1 /\ (n - 1) + 1 = n /\ addr + (n - 1) = addr + n - 1
        BY <3>2
      <4>2. d[n] = SetupPageMap(d[n - 1], addr + n - 1, w)
        BY <2>2, <4>1
      <4>3. e[n] = d[n] /\ e[n - 1] = d[n - 1]
        BY <3>2, <4>1
      <4> QED BY <3>2, <4>2, <4>3
    <3>3. CASE n = k + 1
      <4>1. e[n - 1] = d[k] /\ e[n] = SetupPageMap(d[k], addr + k, w) /\ addr + n - 1 = addr + k
        BY <3>3
      <4> QED BY <3>3, <4>1
    <3> QED BY <3>1, <3>2, <3>3
  <2>4. IsLoop(e, s, addr, k + 1, w)
    <3>1. e = [n \in 0 .. k + 1 |-> e[n]]
      OBVIOUS
    <3> HIDE DEF e
    <3> QED BY <2>3, <3>1 DEF IsLoop
  <2> HIDE DEF e
  <2> QED BY <2>4
<1> HIDE DEF S
<1>3. Nat \subseteq S
  BY <1>1, <1>2, NatSetInduction
<1> QED BY <1>3 DEF S

LEMMA SetupIsLoop ==
  \A s, w : \A addr, num \in Nat :
    \E d : IsLoop(d, s, addr, num, w) /\ SetupPageMaps(s, addr, num, w) = d[num]
<1> SUFFICES ASSUME NEW s, NEW w, NEW addr \in Nat, NEW num \in Nat
             PROVE  \E d : IsLoop(d, s, addr, num, w) /\ SetupPageMaps(s, addr, num, w) = d[num]
  OBVIOUS
<1> DEFINE done == CHOOSE d : d = [n \in 0 .. num |-> IF n = 0 THEN s ELSE SetupPageMap(d[n - 1], addr + n - 1, w)]
<1>1. PICK d : IsLoop(d, s, addr, num, w)
  BY LoopExists
<1>2. done = [n \in 0 .. num |-> IF n = 0 THEN s ELSE SetupPageMap(done[n - 1], addr + n - 1, w)]
  BY <1>1 DEF IsLoop
<1>3. SetupPageMaps(s, addr, num, w) = done[num]
  BY DEF SetupPageMaps
<1> HIDE DEF done
<1>4. IsLoop(done, s, addr, num, w)
  BY <1>2 DEF IsLoop
<1> QED BY <1>3, <1>4

\* SetupPageMaps of absent pages.
LEMMA PagesMapped ==
  ASSUME NEW s, Sound(s), NEW addr \in Nat, NEW num \in Nat, NEW w \in BOOLEAN,
         addr .. addr + num - 1 \subseteq Pages, (addr .. addr + num - 1) \cap DOMAIN s.as.leaf = {}
  PROVE  Maps(s, SetupPageMaps(s, addr, num, w), addr .. addr + num - 1, w)
<1>0. PICK v : v = w
  OBVIOUS
<1>1. PICK d : IsLoop(d, s, addr, num, v) /\ SetupPageMaps(s, addr, num, v) = d[num]
  BY SetupIsLoop
<1>2. d[0] = s
  BY <1>1, LoopSteps
<1>a. \A n \in 0 .. num - 1 : d[n + 1] = SetupPageMap(d[n], addr + n, v)
  BY <1>1, LoopSteps
<1> DEFINE S == {n \in Nat : n <= num => Maps(s, d[n], addr .. addr + n - 1, w)}
<1>3. 0 \in S
  <2>1. addr .. addr + 0 - 1 = {}
    OBVIOUS
  <2>2. Maps(s, s, {}, w)
    BY GrowsSelf DEF Maps
  <2> QED BY <1>2, <2>1, <2>2
<1>4. ASSUME NEW n \in Nat, n \in S PROVE n + 1 \in S
  <2> SUFFICES ASSUME n + 1 <= num PROVE Maps(s, d[n + 1], addr .. addr + (n + 1) - 1, w)
    OBVIOUS
  <2>1. Maps(s, d[n], addr .. addr + n - 1, w) /\ d[n + 1] = SetupPageMap(d[n], addr + n, w)
    BY <1>0, <1>a, <1>4
  <2> HIDE DEF S
  <2>2. addr + n \in addr .. addr + num - 1 /\ addr + n \notin addr .. addr + n - 1
    OBVIOUS
  <2>3. addr + n \notin DOMAIN d[n].as.leaf /\ Sound(d[n]) /\ addr + n \in Pages
    BY <2>1, <2>2 DEF Maps, Grows
  <2>4. Maps(d[n], d[n + 1], {addr + n}, w)
    BY <2>1, <2>3, PageMaps
  <2>5. Maps(s, d[n + 1], (addr .. addr + n - 1) \cup {addr + n}, w)
    BY <2>1, <2>4, MapsTransitive
  <2>6. (addr .. addr + n - 1) \cup {addr + n} = addr .. addr + (n + 1) - 1
    OBVIOUS
  <2> QED BY <2>5, <2>6
<1> HIDE DEF S
<1>5. Nat \subseteq S
  BY <1>3, <1>4, NatSetInduction
<1> QED BY <1>0, <1>1, <1>5 DEF S

\* SetupPageMaps of one absent page, writable.
LEMMA PageMapped ==
  ASSUME NEW s, Sound(s), NEW p \in Pages, p \notin DOMAIN s.as.leaf
  PROVE  Maps(s, SetupPageMaps(s, p, 1, TRUE), {p}, TRUE)
<1>1. PICK w \in BOOLEAN : w = TRUE
  OBVIOUS
<1>2. p \in Nat /\ p .. p + 1 - 1 = {p} /\ 1 \in Nat
  BY PagingAssumption DEF Pages, ArgsPage, StackPage
<1>3. Maps(s, SetupPageMaps(s, p, 1, w), p .. p + 1 - 1, w)
  BY <1>2, PagesMapped
<1> QED BY <1>1, <1>2, <1>3

-----------------------------------------------------------------------------
(* SetupPML4 and CopyPageMaps: a new address space that shares the frames   *)
(* of another.                                                              *)

Copies(s, u, src) ==
  /\ Sound(u)
  /\ u.free \subseteq s.free
  /\ \A f \in Frames \ s.free : u.mem[f] = s.mem[f]
  /\ u.as.root \in s.free
  /\ OwnFrames(u.as) = s.free \ u.free
  /\ \A p \in DOMAIN u.as.leaf :
       p \in DOMAIN src.leaf /\ u.as.leaf[p].frame = src.leaf[p].frame /\ ~u.as.leaf[p].w

LEMMA RootCopies ==
  ASSUME NEW s, IsState(s), s.free # {}, NEW src
  PROVE  /\ Copies(s, SetupPML4(s), src) /\ SetupPML4(s).ok = s.ok
         /\ SetupPML4(s).as.leaf = Empty /\ SetupPML4(s).as.tables = Empty
<1> DEFINE n == NewFrame(s)
           u == SetupPML4(s)
<1>0. n \in s.free /\ n \in Frames /\ n # 0 /\ n \in 0 .. NumFrames
  BY TakenIs, PagingAssumption DEF IsState, Frames
<1>1. u = [free |-> s.free \ {n}, mem |-> [s.mem EXCEPT ![n] = Zero],
           as |-> [root |-> n, tables |-> Empty, leaf |-> Empty], ok |-> s.ok]
  <2>1. PICK v : v = Taken(s) /\ v = [free |-> s.free \ {n}, mem |-> [s.mem EXCEPT ![n] = Zero], as |-> s.as, ok |-> s.ok]
    BY TakenIs
  <2>2. PICK e : e = [NoSpace EXCEPT !.root = n]
    OBVIOUS
  <2>3. e = [root |-> n, tables |-> Empty, leaf |-> Empty]
    BY <2>2 DEF NoSpace
  <2>4. u = [v EXCEPT !.as = e]
    BY <2>1, <2>2 DEF SetupPML4
  <2> HIDE DEF n, u
  <2>5. [v EXCEPT !.as = e] = [free |-> s.free \ {n}, mem |-> [s.mem EXCEPT ![n] = Zero], as |-> e, ok |-> s.ok]
    BY ONLY <2>1
  <2> QED BY <2>3, <2>4, <2>5
<1> HIDE DEF n, u
<1>2. PICK x : x = u.as
  OBVIOUS
<1>3. /\ x = [root |-> n, tables |-> Empty, leaf |-> Empty] /\ DOMAIN x.tables = {} /\ DOMAIN x.leaf = {}
      /\ u.free = s.free \ {n} /\ u.mem = [s.mem EXCEPT ![n] = Zero] /\ u.ok = s.ok
  BY <1>1, <1>2 DEF Empty
<1>4. Reach(x) = {n} /\ OwnFrames(x) = {n}
  BY <1>0, <1>3, ReachIs, OwnIs
<1>5. IsSpace(x)
  BY <1>0, <1>3 DEF IsSpace, Empty
<1>6. Single(x)
  BY <1>3 DEF Single
<1>7. Zero \in Contents
  BY DEF Contents
<1>8. IsState(u)
  BY <1>0, <1>1, <1>2, <1>3, <1>5, <1>7 DEF IsState
<1>9. Sound(u)
  BY <1>2, <1>3, <1>4, <1>6, <1>8 DEF Sound
<1>10. \A f \in Frames \ s.free : u.mem[f] = s.mem[f]
  BY <1>0, <1>3 DEF IsState
<1>11. Copies(s, u, src)
  BY <1>0, <1>2, <1>3, <1>4, <1>9, <1>10 DEF Copies
<1> QED BY <1>2, <1>3, <1>11 DEF u

LEMMA RegionCopies ==
  ASSUME NEW s, IsState(s), NEW src, IsSpace(src), Single(src), LeafFrames(src) \cap s.free = {},
         NEW v, Copies(s, v, src), NEW r \in Regions
  PROVE  Copies(s, CopyRegion(v, src, r), src) /\ (CopyRegion(v, src, r).ok => v.ok)
<1> DEFINE t == IF v.ok THEN WithTable(v, r) ELSE v
           S == {p \in DOMAIN src.leaf : Region(p) = r}
           copy == CopyLeaves(Restrict(src.leaf, S))
           u == CopyRegion(v, src, r)
<1>0. Sound(v) /\ IsState(v)
  BY DEF Copies, Sound
<1>1. Grows(v, t) /\ t.as.leaf = v.as.leaf /\ (t.ok => v.ok)
  <2>1. CASE ~v.ok \/ r \in DOMAIN v.as.tables
    <3>1. t = v
      BY <2>1 DEF WithTable
    <3> QED BY <1>0, <3>1, GrowsSelf
  <2>2. CASE v.ok /\ r \notin DOMAIN v.as.tables /\ v.free = {}
    <3>1. t = Fail(v)
      BY <2>2 DEF WithTable
    <3>2. Grows(v, Fail(v)) /\ Fail(v).as = v.as
      BY <1>0, FailGrows, FailIs DEF Sound
    <3> QED BY <2>2, <3>1, <3>2
  <2>3. CASE v.ok /\ r \notin DOMAIN v.as.tables /\ v.free # {}
    <3>1. t = [Taken(v) EXCEPT !.as.tables = With(@, r, NewFrame(v))]
      BY <2>3 DEF WithTable
    <3> HIDE DEF t
    <3> QED BY <1>0, <2>3, <3>1, NewTable
  <2> QED BY <2>1, <2>2, <2>3
<1>2. u = IF r \notin DOMAIN src.tables THEN v ELSE IF ~t.ok THEN t ELSE [t EXCEPT !.as.leaf = Over(copy, @)]
  BY DEF CopyRegion
<1> HIDE DEF t, u
<1>3. Sound(t) /\ IsState(t) /\ IsSpace(t.as)
  BY <1>1 DEF Grows, Sound, IsState
<1>4. Copies(s, t, src)
  <2>1. \A f \in Frames \ s.free : t.mem[f] = s.mem[f]
    BY <1>1 DEF Grows, Copies
  <2>2. OwnFrames(t.as) = s.free \ t.free
    <3>1. OwnFrames(v.as) = s.free \ v.free /\ v.free \subseteq s.free /\ t.free \subseteq v.free
      BY <1>1 DEF Grows, Copies
    <3>2. /\ OwnFrames(v.as) \subseteq OwnFrames(t.as)
          /\ OwnFrames(t.as) \subseteq OwnFrames(v.as) \cup (v.free \ t.free)
          /\ Reach(t.as) = Reach(v.as) \cup (v.free \ t.free)
      BY <1>1 DEF Grows
    <3>3. \A f \in Reach(t.as) \ Reach(v.as) : f \in OwnFrames(t.as)
      BY <1>1, ReachIs, OwnIs DEF Grows
    <3>4. Reach(v.as) \cap v.free = {}
      BY <1>0 DEF Sound
    <3> QED BY <3>1, <3>2, <3>3, <3>4
  <2> QED BY <1>1, <1>3, <2>1, <2>2 DEF Grows, Copies
<1>5. CASE u = v \/ u = t
  BY <1>1, <1>4, <1>5 DEF u
<1>6. CASE u = [t EXCEPT !.as.leaf = Over(copy, @)]
  <2>1. /\ DOMAIN copy = S /\ S \subseteq DOMAIN src.leaf
        /\ \A p \in S : copy[p] = [src.leaf[p] EXCEPT !.w = FALSE] /\ copy[p] \in Leaves
    BY DEF CopyLeaves, Restrict, IsSpace, Leaves
  <2>a. ASSUME NEW p \in S PROVE copy[p].frame = src.leaf[p].frame /\ ~copy[p].w
    <3>1. PICK l : l = src.leaf[p]
      OBVIOUS
    <3>2. l \in [frame : Frames, w : BOOLEAN] /\ copy[p] = [l EXCEPT !.w = FALSE]
      BY <2>1, <3>1 DEF IsSpace, Leaves
    <3>3. [l EXCEPT !.w = FALSE].frame = l.frame
      BY <3>2
    <3>4. ~[l EXCEPT !.w = FALSE].w
      BY <3>2
    <3> QED BY <3>1, <3>2, <3>3, <3>4
  <2> HIDE DEF copy, S
  <2>2. u = [free |-> t.free, mem |-> t.mem,
             as |-> [root |-> t.as.root, tables |-> t.as.tables, leaf |-> Over(copy, t.as.leaf)], ok |-> t.ok]
    <3>1. PICK a : a = t.as /\ a = [root |-> a.root, tables |-> a.tables, leaf |-> a.leaf]
      BY <1>3 DEF IsSpace
    <3>2. t = [free |-> t.free, mem |-> t.mem, as |-> a, ok |-> t.ok]
      BY <1>3, <3>1 DEF IsState
    <3> QED BY <1>6, <3>1, <3>2
  <2>3. PICK x : x = u.as
    OBVIOUS
  <2>4. x = [root |-> t.as.root, tables |-> t.as.tables, leaf |-> Over(copy, t.as.leaf)]
    BY <2>2, <2>3
  <2>5. /\ DOMAIN x.leaf = S \cup DOMAIN t.as.leaf
        /\ \A p \in DOMAIN x.leaf : x.leaf[p].frame = src.leaf[p].frame /\ ~x.leaf[p].w /\ p \in DOMAIN src.leaf
    BY <1>4, <2>1, <2>a, <2>4 DEF Over, Copies
  <2>6. IsSpace(x)
    <3>1. Over(copy, t.as.leaf) \in [S \cup DOMAIN t.as.leaf -> Leaves]
      BY <1>3, <2>1 DEF Over, IsSpace
    <3> QED BY <1>3, <2>1, <2>4, <3>1 DEF IsSpace
  <2>7. OwnFrames(x) = OwnFrames(t.as)
    BY <1>4, <2>4, <2>5, OwnIs DEF Copies
  <2>8. \A f : f \in Reach(x) <=> f \in OwnFrames(x) \/ \E p \in DOMAIN x.leaf : f = src.leaf[p].frame
    BY <2>5, ReachIs, OwnIs
  <2>9. \A p \in DOMAIN x.leaf : src.leaf[p].frame \notin s.free
    BY <2>5 DEF LeafFrames
  <2>10. Reach(x) \cap t.free = {}
    BY <1>4, <2>7, <2>8, <2>9 DEF Copies
  <2>11. Single(x)
    <3>1. x.tables = t.as.tables /\ x.root = t.as.root
      BY <2>4
    <3>2. x.root \in s.free /\ \A q \in DOMAIN x.tables : x.tables[q] \in s.free
      BY <1>4, <3>1, OwnIs DEF Copies
    <3>3. \A p \in DOMAIN x.leaf : x.leaf[p].frame = src.leaf[p].frame
      BY <2>5
    <3> QED BY <1>3, <2>5, <2>9, <3>1, <3>2, <3>3 DEF Single, Sound
  <2>12. u.free = t.free /\ u.mem = t.mem /\ u.ok = t.ok
    BY <2>2
  <2>13. IsState(u)
    BY <1>3, <2>2, <2>3, <2>4, <2>6 DEF IsState
  <2>14. Sound(u)
    BY <2>3, <2>10, <2>11, <2>12, <2>13 DEF Sound
  <2>15. Copies(s, u, src)
    BY <1>4, <2>3, <2>4, <2>5, <2>7, <2>12, <2>14 DEF Copies
  <2> QED BY <1>1, <2>12, <2>15 DEF u
<1> QED BY <1>2, <1>5, <1>6

LEMMA SpaceCopies ==
  ASSUME NEW s, IsState(s), s.free # {},
         NEW src, IsSpace(src), Single(src), LeafFrames(src) \cap s.free = {}
  PROVE  Copies(s, CopyPageMaps(SetupPML4(s), src), src)
<1>1. Copies(s, SetupPML4(s), src)
  BY RootCopies
<1>2. "low" \in Regions /\ "high" \in Regions
  BY DEF Regions
<1>3. PICK v : v = CopyRegion(SetupPML4(s), src, "low")
  OBVIOUS
<1>4. Copies(s, v, src)
  BY <1>1, <1>2, <1>3, RegionCopies
<1>5. Copies(s, CopyRegion(v, src, "high"), src)
  BY <1>2, <1>4, RegionCopies
<1> QED BY <1>3, <1>5 DEF CopyPageMaps

-----------------------------------------------------------------------------
(* CopyOnePage, stores, and the end of an address space. *)

Unshares(s, u, p) ==
  /\ Sound(u)
  /\ u.free \subseteq s.free
  /\ \A f \in Frames \ s.free : u.mem[f] = s.mem[f]
  /\ u.as.root = s.as.root
  /\ OwnFrames(u.as) = OwnFrames(s.as) \cup (s.free \ u.free)
  /\ Reach(u.as) \subseteq Reach(s.as) \cup (s.free \ u.free)
  /\ DOMAIN u.as.leaf = DOMAIN s.as.leaf
  /\ \A q \in DOMAIN s.as.leaf : q # p => u.as.leaf[q] = s.as.leaf[q]
  /\ u.as.leaf[p].w /\ u.mem[u.as.leaf[p].frame] = s.mem[s.as.leaf[p].frame]

LEMMA PageUnshared ==
  ASSUME NEW s, Sound(s), s.free # {}, NEW p \in DOMAIN s.as.leaf, ~s.as.leaf[p].w
  PROVE  Unshares(s, CopyOnePage(s, p), p) /\ CopyOnePage(s, p).ok = s.ok
<1> DEFINE n == NewFrame(s)
           m == s.mem[s.as.leaf[p].frame]
           l == [frame |-> NewFrame(s), w |-> TRUE]
           u == CopyOnePage(s, p)
<1>0. /\ IsState(s) /\ IsSpace(s.as) /\ n \in s.free /\ n \in Frames /\ n \notin Reach(s.as) /\ n # 0
      /\ l \in Leaves /\ l.frame = n
  BY TakenIs, PagingAssumption DEF Sound, IsState, Frames, Leaves
<1>w. l.w
  OBVIOUS
<1>m. m \in Contents
  BY <1>0 DEF IsState, IsSpace, Leaves
<1>1. u = [free |-> s.free \ {n}, mem |-> [s.mem EXCEPT ![n] = m],
           as |-> [root |-> s.as.root, tables |-> s.as.tables, leaf |-> [s.as.leaf EXCEPT ![p] = l]], ok |-> s.ok]
  <2>1. PICK a : a = s.as /\ a = [root |-> a.root, tables |-> a.tables, leaf |-> a.leaf]
    BY <1>0 DEF IsSpace
  <2>2. PICK v : v = Taken(s) /\ v = [free |-> s.free \ {n}, mem |-> [s.mem EXCEPT ![n] = Zero], as |-> a, ok |-> s.ok]
    BY <1>0, <2>1, TakenIs
  <2>3. PICK x : x = [v EXCEPT !.mem[n] = m]
    OBVIOUS
  <2>4. u = [x EXCEPT !.as.leaf[p] = l]
    <3>1. u = [v EXCEPT !.mem[n] = m, !.as.leaf[p] = l]
      BY <2>2 DEF CopyOnePage
    <3> HIDE DEF u, n, m, l
    <3> QED BY ONLY <2>3, <3>1
  <2> HIDE DEF u, n, m, l
  <2>5. x = [free |-> s.free \ {n}, mem |-> [[s.mem EXCEPT ![n] = Zero] EXCEPT ![n] = m], as |-> a, ok |-> s.ok]
    BY <2>2, <2>3
  <2>6. [[s.mem EXCEPT ![n] = Zero] EXCEPT ![n] = m] = [s.mem EXCEPT ![n] = m]
    BY <1>0 DEF IsState
  <2>7. x = [free |-> s.free \ {n}, mem |-> [s.mem EXCEPT ![n] = m],
             as |-> [root |-> a.root, tables |-> a.tables, leaf |-> a.leaf], ok |-> s.ok]
    BY <2>1, <2>5, <2>6
  <2> QED BY <2>1, <2>4, <2>7
<1> HIDE DEF n, m, l, u
<1>2. PICK x : x = u.as
  OBVIOUS
<1>3. /\ x.root = s.as.root /\ x.tables = s.as.tables /\ DOMAIN x.leaf = DOMAIN s.as.leaf /\ x.leaf[p] = l
      /\ \A q \in DOMAIN s.as.leaf : q # p => x.leaf[q] = s.as.leaf[q]
      /\ IsSpace(x)
  <2>1. x = [root |-> s.as.root, tables |-> s.as.tables, leaf |-> [s.as.leaf EXCEPT ![p] = l]]
    BY <1>1, <1>2
  <2>2. [s.as.leaf EXCEPT ![p] = l] \in [DOMAIN s.as.leaf -> Leaves]
    BY <1>0 DEF IsSpace
  <2> QED BY <1>0, <2>1, <2>2 DEF IsSpace
<1>4. Reach(x) \subseteq Reach(s.as) \cup {n}
  BY <1>0, <1>3, ReachIs
<1>5. OwnFrames(x) = OwnFrames(s.as) \cup {n}
  BY <1>0, <1>w, <1>3, OwnIs
<1>6. Single(x)
  <2>1. /\ \A q \in DOMAIN s.as.tables : s.as.tables[q] # n
        /\ \A q \in DOMAIN s.as.leaf : s.as.leaf[q].frame # n
        /\ s.as.root # n
    BY <1>0, ReachIs
  <2> QED BY <1>0, <1>3, <2>1 DEF Single, Sound
<1>7. u.free = s.free \ {n} /\ u.mem = [s.mem EXCEPT ![n] = m] /\ u.ok = s.ok
  BY <1>1
<1>9. IsState(u)
  BY <1>0, <1>m, <1>1, <1>2, <1>3, <1>7 DEF IsState
<1>10. Sound(u)
  BY <1>0, <1>2, <1>4, <1>6, <1>7, <1>9 DEF Sound
<1>11. (\A f \in Frames \ s.free : u.mem[f] = s.mem[f]) /\ u.mem[n] = m
  BY <1>0, <1>7 DEF IsState
<1>12. s.free \ u.free = {n}
  BY <1>0, <1>7
<1>13. u.as.leaf[p].w /\ u.mem[u.as.leaf[p].frame] = m
  BY <1>0, <1>w, <1>2, <1>3, <1>11
<1>14. Unshares(s, u, p)
  BY <1>2, <1>3, <1>4, <1>5, <1>7, <1>10, <1>11, <1>12, <1>13 DEF Unshares, m
<1> QED BY <1>7, <1>14 DEF u

LEMMA StoreIs ==
  ASSUME NEW s, IsState(s), NEW p \in DOMAIN s.as.leaf, NEW v \in Contents
  PROVE  /\ IsState(Store(s, p, v))
         /\ Store(s, p, v).free = s.free /\ Store(s, p, v).as = s.as /\ Store(s, p, v).ok = s.ok
         /\ Store(s, p, v).mem = [s.mem EXCEPT ![s.as.leaf[p].frame] = v]
<1>1. PICK f : f = s.as.leaf[p].frame
  OBVIOUS
<1>2. s = [free |-> s.free, mem |-> s.mem, as |-> s.as, ok |-> s.ok]
  BY DEF IsState
<1>3. [s EXCEPT !.mem[f] = v] = [free |-> s.free, mem |-> [s.mem EXCEPT ![f] = v], as |-> s.as, ok |-> s.ok]
  BY <1>2
<1>4. Store(s, p, v) = [free |-> s.free, mem |-> [s.mem EXCEPT ![f] = v], as |-> s.as, ok |-> s.ok]
  BY <1>1, <1>3 DEF Store
<1>5. [s.mem EXCEPT ![f] = v] \in [Frames -> Contents]
  BY DEF IsState
<1> QED BY <1>1, <1>4, <1>5 DEF IsState

LEMMA SegmentsCopied ==
  ASSUME NEW s, Sound(s), NEW a \in Apps, ImagePages \subseteq DOMAIN s.as.leaf
  PROVE  LET u == CopyLoadSegments(s, a)
         IN  /\ Sound(u) /\ u.free = s.free /\ u.as = s.as /\ u.ok = s.ok
             /\ \A p \in ImagePages : u.mem[s.as.leaf[p].frame] = Image(a, p)
             /\ \A f \in Frames : (\A p \in ImagePages : f # s.as.leaf[p].frame) => u.mem[f] = s.mem[f]
<1> DEFINE u == CopyLoadSegments(s, a)
           ImageOf(f) == CHOOSE p \in ImagePages : f = s.as.leaf[p].frame
           m == [f \in Frames |-> IF \E p \in ImagePages : f = s.as.leaf[p].frame THEN Image(a, ImageOf(f)) ELSE s.mem[f]]
<1>1. s = [free |-> s.free, mem |-> s.mem, as |-> s.as, ok |-> s.ok] /\ IsState(s) /\ IsSpace(s.as)
  BY DEF Sound, IsState
<1>2. u = [s EXCEPT !.mem = m]
  BY DEF CopyLoadSegments
<1>3. \A p \in ImagePages : s.as.leaf[p].frame \in Frames /\ ImageOf(s.as.leaf[p].frame) = p
  BY <1>1 DEF IsSpace, Leaves, Sound, Single
<1>4. \A f : (\E p \in ImagePages : f = s.as.leaf[p].frame) => ImageOf(f) \in ImagePages
  OBVIOUS
<1> HIDE DEF ImageOf
<1>5. \A p \in ImagePages : m[s.as.leaf[p].frame] = Image(a, p)
  BY <1>3
<1>6. \A f \in Frames : (\A p \in ImagePages : f # s.as.leaf[p].frame) => m[f] = s.mem[f]
  OBVIOUS
<1>7. m \in [Frames -> Contents]
  <2>1. ASSUME NEW f \in Frames
        PROVE  (IF \E p \in ImagePages : f = s.as.leaf[p].frame THEN Image(a, ImageOf(f)) ELSE s.mem[f]) \in Contents
    <3>1. CASE \E p \in ImagePages : f = s.as.leaf[p].frame
      <4>1. Image(a, ImageOf(f)) \in Contents
        BY <1>4, <3>1 DEF Contents
      <4> QED BY <3>1, <4>1
    <3>2. CASE ~\E p \in ImagePages : f = s.as.leaf[p].frame
      BY <1>1, <3>2 DEF IsState
    <3> QED BY <3>1, <3>2
  <2> QED BY <2>1
<1> HIDE DEF m, u
<1>8. u = [free |-> s.free, mem |-> m, as |-> s.as, ok |-> s.ok]
  BY <1>1, <1>2
<1>9. Sound(u)
  BY <1>1, <1>7, <1>8 DEF Sound, IsState
<1> QED BY <1>5, <1>6, <1>8, <1>9 DEF u

LEMMA Cleaned ==
  ASSUME NEW s, IsState(s), s.as.root # 0
  PROVE  LET u == FreePML4(CleanPageMaps(s))
         IN  u.free = s.free \cup OwnFrames(s.as) /\ u.mem = s.mem /\ u.as = NoSpace
<1> DEFINE own == Range(s.as.tables) \cup FreedLeaves(s.as.leaf)
<1>1. s = [free |-> s.free, mem |-> s.mem, as |-> s.as, ok |-> s.ok]
  BY DEF IsState
<1>2. PICK a : a = s.as /\ a = [root |-> a.root, tables |-> a.tables, leaf |-> a.leaf]
  BY DEF IsState, IsSpace
<1>3. PICK v : v = [s EXCEPT !.free = @ \cup Range(s.as.tables) \cup FreedLeaves(s.as.leaf)]
  OBVIOUS
<1>4. v = [free |-> s.free \cup own, mem |-> s.mem, as |-> [root |-> a.root, tables |-> a.tables, leaf |-> a.leaf], ok |-> s.ok]
  BY <1>1, <1>2, <1>3
<1>5. PICK x : x = [v EXCEPT !.as.tables = Empty]
  OBVIOUS
<1>6. x = [free |-> s.free \cup own, mem |-> s.mem, as |-> [root |-> a.root, tables |-> Empty, leaf |-> a.leaf], ok |-> s.ok]
  <2> HIDE DEF own
  <2> QED BY <1>4, <1>5
<1>7. PICK y : y = [x EXCEPT !.as.leaf = Empty]
  OBVIOUS
<1>8. y.free = s.free \cup own /\ y.mem = s.mem /\ y.as.root = a.root
      /\ y = [free |-> y.free, mem |-> y.mem, as |-> y.as, ok |-> y.ok]
  <2> HIDE DEF own
  <2> QED BY <1>6, <1>7
<1>9. CleanPageMaps(s) = y
  BY <1>3, <1>5, <1>7 DEF CleanPageMaps
<1>10. PICK z : z = [y EXCEPT !.free = @ \cup {y.as.root}]
  OBVIOUS
<1>11. z = [free |-> y.free \cup {y.as.root}, mem |-> y.mem, as |-> y.as, ok |-> y.ok]
  BY <1>8, <1>10
<1>12. FreePML4(y) = [z EXCEPT !.as = NoSpace]
  BY <1>10 DEF FreePML4
<1>13. [z EXCEPT !.as = NoSpace] = [free |-> y.free \cup {y.as.root}, mem |-> y.mem, as |-> NoSpace, ok |-> y.ok]
  BY ONLY <1>11
<1>14. OwnFrames(s.as) = {a.root} \cup own
  BY <1>2 DEF OwnFrames, WritableFrames
<1> HIDE DEF own
<1> QED BY <1>8, <1>9, <1>12, <1>13, <1>14

-----------------------------------------------------------------------------
(* Sets of address spaces. *)

\* An address space is known by its root, and what it owns is in no other.
Exclusive(S, fr) ==
  /\ \A x \in S : IsSpace(x) /\ Single(x) /\ Reach(x) \cap fr = {} /\ (x.root = 0 => x = NoSpace)
  /\ \A x, y \in S : x.root = y.root => x = y
  /\ \A x, y \in S : x.root # y.root => OwnFrames(x) \cap Reach(y) = {}

LEMMA OwnInReach == \A x : OwnFrames(x) \subseteq Reach(x)
BY DEF Reach

LEMMA RootOwned == \A x : x.root # 0 => x.root \in OwnFrames(x)
BY OwnIs

LEMMA NoSpaceIs ==
  /\ NoSpace.root = 0 /\ IsSpace(NoSpace) /\ Single(NoSpace) /\ Reach(NoSpace) = {} /\ OwnFrames(NoSpace) = {}
  /\ DOMAIN NoSpace.leaf = {} /\ DOMAIN NoSpace.tables = {}
<1>1. /\ NoSpace.root = 0 /\ NoSpace.tables = Empty /\ NoSpace.leaf = Empty
      /\ NoSpace = [root |-> NoSpace.root, tables |-> NoSpace.tables, leaf |-> NoSpace.leaf]
  BY DEF NoSpace
<1>2. DOMAIN Empty = {} /\ Empty \in [{} -> Frames] /\ Empty \in [{} -> Leaves]
  BY DEF Empty
<1>3. Reach(NoSpace) = {} /\ OwnFrames(NoSpace) = {}
  BY <1>1, <1>2, ReachIs, OwnIs
<1>4. IsSpace(NoSpace)
  BY <1>1, <1>2, PagingAssumption DEF IsSpace
<1>5. Single(NoSpace)
  BY <1>1, <1>2 DEF Single
<1> QED BY <1>1, <1>2, <1>3, <1>4, <1>5

LEMMA ExclusiveSubset ==
  ASSUME NEW S, NEW fr, Exclusive(S, fr), NEW T, T \subseteq S
  PROVE  Exclusive(T, fr)
BY DEF Exclusive

LEMMA ExclusiveNone ==
  ASSUME NEW S, NEW fr, Exclusive(S, fr)
  PROVE  Exclusive(S \cup {NoSpace}, fr)
BY NoSpaceIs DEF Exclusive

\* Task t's address space becomes u: it owns more, out of the free frames.
LEMMA ExclusiveGrow ==
  ASSUME NEW S, NEW x, NEW u, NEW fr, NEW fr2, Exclusive(S \cup {x}, fr), \A y \in S : y.root # x.root,
         IsSpace(u), Single(u), u.root = x.root, x.root # 0, fr2 \subseteq fr, Reach(u) \cap fr2 = {},
         OwnFrames(u) \subseteq OwnFrames(x) \cup (fr \ fr2), Reach(u) \subseteq Reach(x) \cup (fr \ fr2)
  PROVE  Exclusive(S \cup {u}, fr2)
<1>1. \A y \in S : /\ IsSpace(y) /\ Single(y) /\ Reach(y) \cap fr = {} /\ (y.root = 0 => y = NoSpace)
                   /\ OwnFrames(x) \cap Reach(y) = {} /\ OwnFrames(y) \cap Reach(x) = {}
  BY DEF Exclusive
<1>2. \A y \in S : OwnFrames(u) \cap Reach(y) = {} /\ OwnFrames(y) \cap Reach(u) = {}
  BY <1>1, OwnInReach
<1>3. \A y, z \in S : /\ y.root = z.root => y = z
                      /\ y.root # z.root => OwnFrames(y) \cap Reach(z) = {}
  BY DEF Exclusive
<1>4. \A y \in S : y.root # u.root
  OBVIOUS
<1>5. \A y \in S \cup {u} : IsSpace(y) /\ Single(y) /\ Reach(y) \cap fr2 = {} /\ (y.root = 0 => y = NoSpace)
  BY <1>1
<1>6. \A y, z \in S \cup {u} : y.root = z.root => y = z
  BY <1>3, <1>4
<1>7. \A y, z \in S \cup {u} : y.root # z.root => OwnFrames(y) \cap Reach(z) = {}
  BY <1>2, <1>3
<1> QED BY <1>5, <1>6, <1>7 DEF Exclusive

\* A new address space that owns frames that were free and shares frames that
\* nobody owns.
LEMMA ExclusiveNew ==
  ASSUME NEW S, NEW u, NEW fr, NEW fr2, Exclusive(S, fr),
         IsSpace(u), Single(u), u.root \in fr, u.root # 0, fr2 \subseteq fr, Reach(u) \cap fr2 = {},
         OwnFrames(u) \subseteq fr, \A y \in S : OwnFrames(y) \cap Reach(u) = {}
  PROVE  Exclusive(S \cup {u}, fr2)
<1>1. \A y \in S : IsSpace(y) /\ Single(y) /\ Reach(y) \cap fr = {} /\ (y.root = 0 => y = NoSpace)
  BY DEF Exclusive
<1>2. \A y \in S : OwnFrames(u) \cap Reach(y) = {}
  BY <1>1
<1>3. \A y, z \in S : /\ y.root = z.root => y = z
                      /\ y.root # z.root => OwnFrames(y) \cap Reach(z) = {}
  BY DEF Exclusive
<1>4. \A y \in S : y.root # u.root
  BY <1>1, RootOwned, OwnInReach
<1>5. \A y \in S \cup {u} : IsSpace(y) /\ Single(y) /\ Reach(y) \cap fr2 = {} /\ (y.root = 0 => y = NoSpace)
  BY <1>1
<1>6. \A y, z \in S \cup {u} : y.root = z.root => y = z
  BY <1>3, <1>4
<1>7. \A y, z \in S \cup {u} : y.root # z.root => OwnFrames(y) \cap Reach(z) = {}
  BY <1>2, <1>3
<1> QED BY <1>5, <1>6, <1>7 DEF Exclusive

LEMMA ExclusiveClean ==
  ASSUME NEW S, NEW x, NEW fr, Exclusive(S \cup {x}, fr), \A y \in S : y.root # x.root
  PROVE  Exclusive(S, fr \cup OwnFrames(x))
<1>1. \A y \in S : /\ IsSpace(y) /\ Single(y) /\ Reach(y) \cap fr = {} /\ (y.root = 0 => y = NoSpace)
                   /\ OwnFrames(x) \cap Reach(y) = {}
  BY DEF Exclusive
<1>2. \A y, z \in S : /\ y.root = z.root => y = z
                      /\ y.root # z.root => OwnFrames(y) \cap Reach(z) = {}
  BY DEF Exclusive
<1> QED BY <1>1, <1>2 DEF Exclusive

-----------------------------------------------------------------------------
(* The inductive invariant. *)

\* What other tasks hold, and the images kept.
Others(t) ==
  {space[u] : u \in Tasks \ {t}} \cup {temp[u] : u \in Tasks \ {t}} \cup {loads[a] : a \in Apps}

\* From SetupPML4 to FreePML4 a task's address space is nobody else's.
Alone(t) == space[t].root # 0 /\ \A x \in Others(t) : x.root # space[t].root

Held(t) ==
  /\ pc[t] # "idle" => Alone(t) /\ app[t] \in Apps
  /\ temp[t] = IF pc[t] = "record" THEN space[t] ELSE NoSpace

ImageOnly(as) == \A p \in DOMAIN as.leaf : p \in ImagePages /\ ~as.leaf[p].w

\* An image is read only, everything else is writable: so CleanPageMap frees
\* neither too much nor too little.
Shape(as, at) ==
  /\ at = "load" => DOMAIN as.leaf = {}
  /\ at \in {"record", "stack"} => ImageOnly(as)
  /\ at \in {"running", "exiting"} => \A p \in DOMAIN as.leaf : p \notin ImagePages => as.leaf[p].w

AreFunctions ==
  /\ space = [t \in Tasks |-> space[t]]
  /\ temp = [t \in Tasks |-> temp[t]]
  /\ loads = [a \in Apps |-> loads[a]]

Typed ==
  /\ AreFunctions
  /\ free \subseteq Frames /\ mem \in [Frames -> Contents]
  /\ pc \in [Tasks -> {"idle", "load", "record", "stack", "running", "exiting"}]
  /\ app \in [Tasks -> Apps \cup {NoApp}]
  /\ dpEnd \in [Tasks -> ImageSize .. StackPage] /\ fmBegin \in [Tasks -> ImageSize .. StackPage]
  /\ \A t \in Tasks : dpEnd[t] <= fmBegin[t]
  /\ runs \in 0 .. MaxRuns /\ failed \in BOOLEAN /\ doubled \in BOOLEAN

IInv ==
  /\ Typed
  /\ Exclusive(Spaces, free)
  /\ \A t \in Tasks : Held(t) /\ Shape(space[t], pc[t])
  /\ \A a \in Apps : ImageOnly(loads[a])

LEMMA SpacesIs ==
  ASSUME NEW t \in Tasks
  PROVE  Spaces = Others(t) \cup {space[t], temp[t]}
BY DEF Spaces, Others

\* A step of task t in LoadApp or ExecuteFile: what has to be shown.
LEMMA TaskStep ==
  ASSUME IInv, Typed', NEW t \in Tasks, NEW x, NEW at,
         space' = [space EXCEPT ![t] = x], pc' = [pc EXCEPT ![t] = at],
         temp' = [temp EXCEPT ![t] = IF at = "record" THEN x ELSE NoSpace],
         loads' = loads \/ \E a \in Apps : loads' = [loads EXCEPT ![a] = temp[t]],
         \A u \in Tasks \ {t} : app'[u] = app[u],
         Exclusive(Others(t) \cup {temp[t], x}, free'),
         x.root = space[t].root \/ x.root \in free \/ x.root = 0,
         at # "idle" => /\ x.root # 0 /\ app'[t] \in Apps
                        /\ \A z \in Others(t) \cup {temp[t]} : z.root # x.root,
         Shape(x, at)
  PROVE  IInv'
<1>1. /\ \A u \in Tasks \ {t} : space'[u] = space[u] /\ temp'[u] = temp[u] /\ pc'[u] = pc[u]
      /\ space'[t] = x /\ pc'[t] = at /\ temp'[t] = IF at = "record" THEN x ELSE NoSpace
  BY DEF IInv, Typed, AreFunctions
<1>2. \A a \in Apps : loads'[a] = loads[a] \/ loads'[a] = temp[t]
  BY DEF IInv, Typed, AreFunctions
<1>3. Others(t)' \subseteq Others(t) \cup {temp[t]}
  BY <1>1, <1>2 DEF Others
<1>4. Exclusive(Spaces', free')
  <2>1. Spaces' \subseteq (Others(t) \cup {temp[t], x}) \cup {NoSpace}
    <3>1. Spaces' = Others(t)' \cup {space'[t], temp'[t]}
      BY DEF Spaces, Others
    <3> QED BY <1>1, <1>3, <3>1
  <2>2. Exclusive((Others(t) \cup {temp[t], x}) \cup {NoSpace}, free')
    BY ExclusiveNone
  <2> QED BY <2>1, <2>2, ExclusiveSubset
<1>5. ASSUME NEW u \in Tasks PROVE Held(u)'
  <2>1. CASE u = t
    <3>1. at # "idle" => Alone(t)' /\ app'[t] \in Apps
      BY <1>1, <1>3 DEF Alone
    <3> QED BY <1>1, <2>1, <3>1 DEF Held
  <2>2. CASE u # t
    <3>1. Held(u) /\ pc'[u] = pc[u] /\ space'[u] = space[u] /\ temp'[u] = temp[u] /\ app'[u] = app[u]
      BY <1>1, <2>2 DEF IInv
    <3>2. ASSUME pc[u] # "idle" PROVE Alone(u)'
      <4>1. Alone(u) /\ space[u].root # 0
        BY <3>1, <3>2 DEF Held, Alone
      <4>2. space[u].root \notin free
        <5>1. space[u] \in Spaces
          BY DEF Spaces
        <5> QED BY <4>1, <5>1, RootOwned, OwnInReach DEF IInv, Exclusive
      <4>3. space[t] \in Others(u) /\ temp[t] \in Others(u)
        BY <2>2 DEF Others
      <4>4. Others(u)' \subseteq Others(u) \cup {x, NoSpace}
        BY <1>1, <1>2, <4>3 DEF Others
      <4>5. \A z \in Others(u) : z.root # space[u].root
        BY <4>1 DEF Alone
      <4>6. x.root # space[u].root
        BY <4>1, <4>2, <4>3, <4>5
      <4>7. NoSpace.root # space[u].root
        BY <4>1, NoSpaceIs
      <4>8. \A z \in Others(u)' : z.root # space[u].root
        BY <4>4, <4>5, <4>6, <4>7
      <4> QED BY <3>1, <4>1, <4>8 DEF Alone
    <3> QED BY <3>1, <3>2 DEF Held
  <2> QED BY <2>1, <2>2
<1>6. \A u \in Tasks : Shape(space'[u], pc'[u])
  BY <1>1 DEF IInv
<1>7. \A a \in Apps : ImageOnly(loads'[a])
  <2>1. ImageOnly(temp[t])
    <3>1. CASE pc[t] = "record"
      BY <3>1 DEF IInv, Held, Shape
    <3>2. CASE pc[t] # "record"
      BY <3>2, NoSpaceIs DEF IInv, Held, ImageOnly
    <3> QED BY <3>1, <3>2
  <2> QED BY <1>2, <2>1 DEF IInv
<1> QED BY <1>4, <1>5, <1>6, <1>7 DEF IInv

\* The state an operation of task t begins with.
LEMMA StateOf ==
  ASSUME IInv, NEW t \in Tasks
  PROVE  /\ Sound(State(t)) /\ State(t).free = free /\ State(t).mem = mem /\ State(t).as = space[t] /\ State(t).ok
         /\ \A x \in Spaces : IsSpace(x) /\ Single(x) /\ Reach(x) \cap free = {}
<1>1. State(t).free = free /\ State(t).mem = mem /\ State(t).as = space[t] /\ State(t).ok
  BY DEF State
<1>2. space[t] \in Spaces
  BY DEF Spaces
<1>3. \A x \in Spaces : IsSpace(x) /\ Single(x) /\ Reach(x) \cap free = {}
  BY DEF IInv, Exclusive
<1>4. State(t) = [free |-> State(t).free, mem |-> State(t).mem, as |-> State(t).as, ok |-> State(t).ok]
  BY DEF State
<1>5. IsState(State(t))
  BY <1>1, <1>2, <1>3, <1>4 DEF IsState, IInv, Typed
<1> QED BY <1>1, <1>2, <1>3, <1>5 DEF Sound

-----------------------------------------------------------------------------
(* What the operations of ExecuteFile and of the running application do.   *)

\* An error before anything was built.
Halts(t, u) == u.as = space[t] /\ u.free = free /\ u.mem = mem /\ u.ok \in BOOLEAN /\ ~u.ok

LEMMA FailHalts ==
  ASSUME IInv, NEW t \in Tasks
  PROVE  Halts(t, Fail(State(t)))
<1>1. IsState(State(t)) /\ State(t).free = free /\ State(t).mem = mem /\ State(t).as = space[t]
  BY StateOf DEF Sound
<1>2. Fail(State(t)) = [free |-> State(t).free, mem |-> State(t).mem, as |-> State(t).as, ok |-> FALSE]
  BY <1>1, FailIs
<1>3. ~Fail(State(t)).ok /\ Fail(State(t)).ok \in BOOLEAN
  BY <1>2
<1> QED BY <1>1, <1>2, <1>3 DEF Halts

\* A copy of an address space's page maps, when its frames are in use.
LEMMA CopyOf ==
  ASSUME IInv, NEW t \in Tasks, NEW src \in Spaces, free # {}
  PROVE  /\ SetupPML4(State(t)).ok
         /\ Copies(State(t), SetupPML4(State(t)), src)
         /\ DOMAIN SetupPML4(State(t)).as.leaf = {}
         /\ Copies(State(t), CopyPageMaps(SetupPML4(State(t)), src), src)
<1>1. IsState(State(t)) /\ State(t).free = free /\ State(t).ok
  BY StateOf DEF Sound
<1>2. IsSpace(src) /\ Single(src) /\ Reach(src) \cap free = {}
  BY StateOf
<1>3. LeafFrames(src) \cap State(t).free = {}
  BY <1>1, <1>2 DEF Reach
<1>4. /\ Copies(State(t), SetupPML4(State(t)), src) /\ SetupPML4(State(t)).ok = State(t).ok
      /\ SetupPML4(State(t)).as.leaf = Empty
  BY <1>1, RootCopies
<1>5. Copies(State(t), CopyPageMaps(SetupPML4(State(t)), src), src)
  BY <1>1, <1>2, <1>3, SpaceCopies
<1>6. DOMAIN Empty = {}
  BY DEF Empty
<1> QED BY <1>1, <1>4, <1>5, <1>6

LEMMA LoadAppDoes ==
  ASSUME IInv, NEW t \in Tasks, NEW a \in Apps, LoadApp(t, a)
  PROVE  \E u : \E there \in {"load", "stack"} :
           /\ Proceed(t, u, there)
           /\ Halts(t, u) \/ (Copies(State(t), u, loads[a]) /\ (there = "load" => DOMAIN u.as.leaf = {}))
<1> DEFINE own == SetupPML4(State(t))
<1>1. IF own.ok /\ Loaded(a) THEN Proceed(t, CopyPageMaps(own, loads[a]), "stack") ELSE Proceed(t, own, "load")
  BY DEF LoadApp
<1>2. CASE free = {}
  <2>1. own = Fail(State(t))
    BY <1>2, StateOf DEF SetupPML4
  <2>2. Halts(t, own)
    BY <2>1, FailHalts
  <2> QED BY <1>1, <2>2 DEF Halts
<1>3. CASE free # {}
  <2>1. loads[a] \in Spaces
    BY DEF Spaces
  <2>2. /\ Copies(State(t), own, loads[a]) /\ DOMAIN own.as.leaf = {}
        /\ Copies(State(t), CopyPageMaps(own, loads[a]), loads[a])
    BY <1>3, <2>1, CopyOf
  <2> HIDE DEF own
  <2>3. CASE own.ok /\ Loaded(a)
    BY <1>1, <2>2, <2>3
  <2>4. CASE ~(own.ok /\ Loaded(a))
    BY <1>1, <2>2, <2>4
  <2> QED BY <2>3, <2>4
<1> QED BY <1>2, <1>3

LEMMA RecordAppDoes ==
  ASSUME IInv, NEW t \in Tasks, RecordApp(t)
  PROVE  \E u : Proceed(t, u, "stack") /\ (Halts(t, u) \/ Copies(State(t), u, temp[t]))
<1> DEFINE own == SetupPML4(State(t))
<1>1. Proceed(t, IF own.ok THEN CopyPageMaps(own, temp[t]) ELSE own, "stack")
  BY DEF RecordApp
<1>2. CASE free = {}
  <2>1. own = Fail(State(t))
    BY <1>2, StateOf DEF SetupPML4
  <2>2. Halts(t, own)
    BY <2>1, FailHalts
  <2> QED BY <1>1, <2>2 DEF Halts
<1>3. CASE free # {}
  <2>1. temp[t] \in Spaces
    BY DEF Spaces
  <2>2. own.ok /\ Copies(State(t), CopyPageMaps(own, temp[t]), temp[t])
    BY <1>3, <2>1, CopyOf
  <2> HIDE DEF own
  <2> QED BY <1>1, <2>2
<1> QED BY <1>2, <1>3

LEMMA LoadELFDoes ==
  ASSUME IInv, NEW t \in Tasks, LoadELF(t)
  PROVE  \E u : /\ Proceed(t, u, "record")
                /\ temp' = [temp EXCEPT ![t] = IF u.ok THEN u.as ELSE NoSpace]
                /\ \/ Halts(t, u)
                   \/ /\ Grows(State(t), u) /\ ImageOnly(u.as)
                      /\ u.ok => \A p \in DOMAIN u.as.leaf : u.mem[u.as.leaf[p].frame] = Image(app[t], p)
<1> DEFINE s == State(t)
           mapped == SetupPageMaps(s, 0, ImageSize, FALSE)
           filled == CopyLoadSegments(mapped, app[t])
<1>0. /\ Sound(s) /\ s.free = free /\ s.mem = mem /\ s.as = space[t] /\ pc[t] = "load"
      /\ DOMAIN s.as.leaf = {} /\ app[t] \in Apps /\ temp[t] = NoSpace
  BY StateOf DEF LoadELF, IInv, Shape, Held
<1>1. CASE app[t] \in Broken
  <2>1. Proceed(t, Fail(s), "record") /\ temp' = temp
    BY <1>1 DEF LoadELF
  <2>2. Halts(t, Fail(s))
    BY FailHalts
  <2>3. temp = [temp EXCEPT ![t] = NoSpace]
    BY <1>0 DEF IInv, Typed, AreFunctions
  <2> HIDE DEF s
  <2> QED BY <2>1, <2>2, <2>3 DEF Halts
<1>2. CASE app[t] \notin Broken
  <2>1. /\ Proceed(t, IF mapped.ok THEN filled ELSE mapped, "record")
        /\ temp' = [temp EXCEPT ![t] = IF mapped.ok THEN mapped.as ELSE NoSpace]
    BY <1>2 DEF LoadELF
  <2>2. Maps(s, mapped, ImagePages, FALSE)
    <3>1. 0 .. 0 + ImageSize - 1 = ImagePages /\ ImagePages \subseteq Pages
      BY PagingAssumption DEF ImagePages, Pages, ArgsPage, StackPage
    <3> HIDE DEF s
    <3> QED BY <1>0, <3>1, PagesMapped, PagingAssumption
  <2> HIDE DEF s, mapped, filled
  <2>3. Grows(s, mapped) /\ ImageOnly(mapped.as) /\ (mapped.ok => ImagePages \subseteq DOMAIN mapped.as.leaf)
        /\ \A p \in DOMAIN mapped.as.leaf : p \in ImagePages /\ mapped.as.leaf[p].frame \in s.free
    BY <1>0, <2>2 DEF Maps, ImageOnly
  <2>4. CASE ~mapped.ok
    BY <2>1, <2>3, <2>4 DEF s
  <2>5. CASE mapped.ok
    <3>1. /\ Sound(filled) /\ filled.free = mapped.free /\ filled.as = mapped.as /\ filled.ok = mapped.ok
          /\ \A p \in ImagePages : filled.mem[mapped.as.leaf[p].frame] = Image(app[t], p)
          /\ \A f \in Frames : (\A p \in ImagePages : f # mapped.as.leaf[p].frame) => filled.mem[f] = mapped.mem[f]
      BY <1>0, <2>3, <2>5, SegmentsCopied DEF filled, Grows
    <3>2. \A f \in Frames \ s.free : filled.mem[f] = s.mem[f]
      BY <2>3, <2>5, <3>1 DEF Grows
    <3>3. Grows(s, filled)
      BY <2>3, <3>1, <3>2 DEF Grows
    <3>4. \A p \in DOMAIN filled.as.leaf : filled.mem[filled.as.leaf[p].frame] = Image(app[t], p)
      BY <2>3, <3>1
    <3> QED BY <2>1, <2>3, <2>5, <3>1, <3>3, <3>4 DEF s
  <2>6. mapped.ok \in BOOLEAN
    BY <2>3 DEF Grows, Sound, IsState
  <2> QED BY <2>4, <2>5, <2>6
<1> QED BY <1>1, <1>2

LEMMA CallAppDoes ==
  ASSUME IInv, NEW t \in Tasks, CallApp(t)
  PROVE  \E u : /\ Proceed(t, u, "running")
                /\ Grows(State(t), u)
                /\ \A p \in DOMAIN space[t].leaf : p \in DOMAIN u.as.leaf /\ u.as.leaf[p] = space[t].leaf[p]
                /\ \A p \in DOMAIN u.as.leaf : p \notin DOMAIN space[t].leaf =>
                     /\ p \in {StackPage, ArgsPage} /\ u.as.leaf[p].w
                     /\ u.ok => u.mem[u.as.leaf[p].frame] = IF p = ArgsPage THEN Args ELSE Zero
<1> DEFINE s == State(t)
           stack == SetupPageMaps(s, StackPage, 1, TRUE)
           args == IF stack.ok THEN SetupPageMaps(stack, ArgsPage, 1, TRUE) ELSE stack
           ready == IF args.ok THEN Store(args, ArgsPage, Args) ELSE args
<1>0. Sound(s) /\ s.free = free /\ s.as = space[t] /\ ImageOnly(s.as)
  BY StateOf DEF CallApp, IInv, Shape
<1>1. PICK fits \in BOOLEAN : Proceed(t, IF fits THEN ready ELSE Fail(ready), "running")
  BY DEF CallApp
<1>2. /\ StackPage \in Nat /\ ArgsPage \in Nat /\ StackPage # ArgsPage /\ StackPage \in Pages /\ ArgsPage \in Pages
      /\ StackPage \notin ImagePages /\ ArgsPage \notin ImagePages
  BY PagingAssumption DEF StackPage, ArgsPage, Pages, ImagePages
<1> HIDE DEF s
<1>4. Maps(s, stack, {StackPage}, TRUE)
  <2>1. StackPage \notin DOMAIN s.as.leaf
    BY <1>0, <1>2 DEF ImageOnly
  <2> QED BY <1>0, <1>2, <2>1, PageMapped
<1> HIDE DEF stack
<1>5. Maps(s, args, {StackPage, ArgsPage}, TRUE) \/ (args = stack /\ ~stack.ok)
  <2>1. CASE stack.ok
    <3>1. ArgsPage \notin DOMAIN stack.as.leaf /\ Sound(stack)
      BY <1>0, <1>2, <1>4 DEF ImageOnly, Maps, Grows
    <3>2. Maps(stack, SetupPageMaps(stack, ArgsPage, 1, TRUE), {ArgsPage}, TRUE)
      BY <1>2, <3>1, PageMapped
    <3>3. args = SetupPageMaps(stack, ArgsPage, 1, TRUE)
      BY <2>1
    <3> HIDE DEF args
    <3>4. Maps(stack, args, {ArgsPage}, TRUE)
      BY <3>2, <3>3
    <3>5. Maps(s, args, {StackPage} \cup {ArgsPage}, TRUE)
      BY <1>0, <1>4, <3>4, MapsTransitive
    <3>6. {StackPage} \cup {ArgsPage} = {StackPage, ArgsPage}
      OBVIOUS
    <3> QED BY <3>5, <3>6
  <2>2. CASE ~stack.ok
    BY <2>2
  <2> QED BY <2>1, <2>2
<1> HIDE DEF args
<1>6. /\ Grows(s, args) /\ (args.ok => ArgsPage \in DOMAIN args.as.leaf)
      /\ \A p \in DOMAIN s.as.leaf : p \in DOMAIN args.as.leaf /\ args.as.leaf[p] = s.as.leaf[p]
      /\ \A p \in DOMAIN args.as.leaf : p \notin DOMAIN s.as.leaf =>
           p \in {StackPage, ArgsPage} /\ args.as.leaf[p].w /\ args.as.leaf[p].frame \in s.free
             /\ args.mem[args.as.leaf[p].frame] = Zero
  <2>1. CASE Maps(s, args, {StackPage, ArgsPage}, TRUE)
    BY <2>1 DEF Maps
  <2>2. CASE args = stack /\ ~stack.ok
    BY <1>4, <2>2 DEF Maps
  <2> QED BY <1>5, <2>1, <2>2
<1>7. Sound(args) /\ IsState(args) /\ IsSpace(args.as)
  BY <1>6 DEF Grows, Sound, IsState
<1>8. /\ Grows(s, ready) /\ ready.as = args.as
      /\ ready.ok => \A p \in DOMAIN args.as.leaf : p \notin DOMAIN s.as.leaf =>
                       ready.mem[args.as.leaf[p].frame] = IF p = ArgsPage THEN Args ELSE Zero
  <2>1. CASE ~args.ok
    BY <1>6, <2>1
  <2>2. CASE args.ok
    <3>1. ready = Store(args, ArgsPage, Args)
      BY <2>2
    <3> HIDE DEF ready
    <3>2. Args \in Contents
      BY DEF Contents
    <3>3. PICK f : f = args.as.leaf[ArgsPage].frame
      OBVIOUS
    <3>4. f \in s.free /\ f \in Frames
      BY <1>0, <1>2, <1>6, <1>7, <2>2, <3>3 DEF ImageOnly, IsSpace, Leaves
    <3>5. /\ IsState(ready) /\ ready.free = args.free /\ ready.as = args.as /\ ready.ok = args.ok
          /\ ready.mem = [args.mem EXCEPT ![f] = Args]
      <4>1. ArgsPage \in DOMAIN args.as.leaf
        BY <1>6, <2>2
      <4> QED BY ONLY <1>7, <3>1, <3>2, <3>3, <4>1, StoreIs
    <3>6. ready.mem[f] = Args /\ \A g \in Frames : g # f => ready.mem[g] = args.mem[g]
      BY <1>7, <3>4, <3>5 DEF IsState
    <3>7. Sound(ready)
      BY <1>7, <3>5 DEF Sound
    <3>8. \A g \in Frames \ s.free : ready.mem[g] = s.mem[g]
      BY <1>6, <3>4, <3>6 DEF Grows
    <3>9. Grows(s, ready)
      BY <1>6, <3>5, <3>7, <3>8 DEF Grows
    <3>10. \A p \in DOMAIN args.as.leaf : p # ArgsPage => args.as.leaf[p].frame # f /\ args.as.leaf[p].frame \in Frames
      BY <1>6, <1>7, <2>2, <3>3 DEF Sound, Single, IsSpace, Leaves
    <3> QED BY <1>6, <3>3, <3>5, <3>6, <3>9, <3>10
  <2>3. args.ok \in BOOLEAN
    BY <1>7 DEF IsState
  <2> QED BY <2>1, <2>2, <2>3
<1> HIDE DEF ready
<1>9. Grows(s, Fail(ready)) /\ Fail(ready).as = ready.as
  <2>1. Sound(ready) /\ IsState(ready)
    BY <1>8 DEF Grows, Sound
  <2>2. Grows(ready, Fail(ready)) /\ Fail(ready).as = ready.as
    BY <2>1, FailGrows, FailIs
  <2> QED BY <1>0, <1>8, <2>2, GrowsTransitive DEF Sound
<1>10. ~Fail(ready).ok
  BY <1>8, FailIs DEF Grows, Sound
<1>11. PICK u : u = IF fits THEN ready ELSE Fail(ready)
  OBVIOUS
<1>12. Proceed(t, u, "running") /\ Grows(s, u) /\ u.as = args.as /\ (u = ready \/ ~u.ok)
  BY <1>1, <1>8, <1>9, <1>10, <1>11
<1>13. \A p \in DOMAIN space[t].leaf : p \in DOMAIN u.as.leaf /\ u.as.leaf[p] = space[t].leaf[p]
  BY <1>0, <1>6, <1>12
<1>14. \A p \in DOMAIN u.as.leaf : p \notin DOMAIN space[t].leaf =>
         /\ p \in {StackPage, ArgsPage} /\ u.as.leaf[p].w
         /\ u.ok => u.mem[u.as.leaf[p].frame] = IF p = ArgsPage THEN Args ELSE Zero
  BY <1>0, <1>6, <1>8, <1>12
<1> QED BY <1>12, <1>13, <1>14 DEF s

LEMMA PageFaultDoes ==
  ASSUME IInv, NEW t \in Tasks, NEW p \in Pages, PageFault(t, p)
  PROVE  \E u : /\ Commit(t, u) /\ Goto(t, IF u.ok THEN "running" ELSE "exiting")
                /\ \/ Halts(t, u)
                   \/ Present(t, p) /\ ~Leaf(t, p).w /\ Unshares(State(t), u, p)
                   \/ /\ ~Present(t, p) /\ (InDemandRange(t, p) \/ InFileMap(t, p)) /\ p \notin ImagePages
                      /\ Grows(State(t), u)
                      /\ \A q \in DOMAIN space[t].leaf : q \in DOMAIN u.as.leaf /\ u.as.leaf[q] = space[t].leaf[q]
                      /\ \A q \in DOMAIN u.as.leaf : q \notin DOMAIN space[t].leaf =>
                           /\ q = p /\ u.as.leaf[p].w
                           /\ u.ok => u.mem[u.as.leaf[p].frame] = IF InDemandRange(t, p) THEN Zero ELSE FileData(p)
<1> DEFINE s == State(t)
           u == FaultResult(t, p)
           mapped == SetupPageMaps(s, p, 1, TRUE)
<1>0. Sound(s) /\ s.free = free /\ s.as = space[t] /\ s.mem = mem
  BY StateOf
<1>1. Commit(t, u) /\ Goto(t, IF u.ok THEN "running" ELSE "exiting")
  BY DEF PageFault
<1>2. Halts(t, Fail(s))
  BY FailHalts
<1>3. p \in Nat
  BY PagingAssumption DEF Pages, ArgsPage, StackPage
<1> HIDE DEF s
<1>4. CASE Present(t, p)
  <2>1. u = CopyOnePage(s, p)
    BY <1>4 DEF FaultResult, s
  <2>2. ~Leaf(t, p).w /\ p \in DOMAIN s.as.leaf /\ ~s.as.leaf[p].w
    BY <1>0, <1>4 DEF PageFault, Leaf, Present
  <2> HIDE DEF u
  <2>3. CASE s.free = {}
    <3>1. u = Fail(s)
      BY <2>1, <2>3 DEF CopyOnePage
    <3> QED BY <1>1, <1>2, <3>1
  <2>4. CASE s.free # {}
    <3>1. Unshares(s, u, p)
      BY <1>0, <2>1, <2>2, <2>4, PageUnshared
    <3> QED BY <1>1, <1>4, <2>2, <3>1 DEF s
  <2> QED BY <2>3, <2>4
<1>5. CASE ~Present(t, p) /\ ~InDemandRange(t, p) /\ ~InFileMap(t, p)
  <2>1. u = Fail(s)
    BY <1>5 DEF FaultResult, s
  <2> HIDE DEF u
  <2> QED BY <1>1, <1>2, <2>1
<1>6. CASE ~Present(t, p) /\ (InDemandRange(t, p) \/ InFileMap(t, p))
  <2>1. p \notin ImagePages /\ p \notin DOMAIN s.as.leaf
    <3>1. fmBegin[t] >= ImageSize /\ fmBegin[t] \in Int
      BY PagingAssumption DEF IInv, Typed, StackPage
    <3>2. ImageSize <= p
      BY <1>3, <1>6, <3>1, PagingAssumption DEF InDemandRange, InFileMap
    <3> QED BY <1>0, <1>3, <1>6, <3>2, PagingAssumption DEF Present, ImagePages
  <2>2. Maps(s, mapped, {p}, TRUE)
    BY <1>0, <2>1, PageMapped
  <2>3. CASE InDemandRange(t, p)
    <3>1. u = mapped
      BY <1>6, <2>3 DEF FaultResult, s
    <3> HIDE DEF u, mapped
    <3>2. /\ Grows(s, u)
          /\ \A q \in DOMAIN s.as.leaf : q \in DOMAIN u.as.leaf /\ u.as.leaf[q] = s.as.leaf[q]
          /\ \A q \in DOMAIN u.as.leaf : q \notin DOMAIN s.as.leaf =>
               q = p /\ u.as.leaf[p].w /\ u.mem[u.as.leaf[p].frame] = Zero
      BY <2>2, <3>1 DEF Maps
    <3> QED BY <1>0, <1>1, <1>6, <2>1, <2>3, <3>2 DEF s
  <2>4. CASE ~InDemandRange(t, p)
    <3>1. u = IF mapped.ok THEN Store(mapped, p, FileData(p)) ELSE mapped
      BY <1>6, <2>4 DEF FaultResult, s
    <3> HIDE DEF u, mapped
    <3>2. /\ Grows(s, mapped) /\ (mapped.ok => p \in DOMAIN mapped.as.leaf)
          /\ \A q \in DOMAIN s.as.leaf : q \in DOMAIN mapped.as.leaf /\ mapped.as.leaf[q] = s.as.leaf[q]
          /\ \A q \in DOMAIN mapped.as.leaf : q \notin DOMAIN s.as.leaf =>
               q = p /\ mapped.as.leaf[p].w /\ mapped.as.leaf[p].frame \in s.free
      BY <2>2 DEF Maps
    <3>3. Sound(mapped) /\ IsState(mapped) /\ IsSpace(mapped.as) /\ mapped.ok \in BOOLEAN
      BY <3>2 DEF Grows, Sound, IsState
    <3>4. /\ Grows(s, u) /\ u.as = mapped.as
          /\ u.ok => u.mem[u.as.leaf[p].frame] = FileData(p)
      <4>1. CASE ~mapped.ok
        BY <3>1, <3>2, <4>1
      <4>2. CASE mapped.ok
        <5>1. u = Store(mapped, p, FileData(p)) /\ FileData(p) \in Contents
          BY <3>1, <4>2 DEF Contents
        <5>2. PICK f : f = mapped.as.leaf[p].frame
          OBVIOUS
        <5>3. f \in s.free /\ f \in Frames
          BY <2>1, <3>2, <3>3, <4>2, <5>2 DEF IsSpace, Leaves
        <5>4. /\ IsState(u) /\ u.free = mapped.free /\ u.as = mapped.as
              /\ u.mem = [mapped.mem EXCEPT ![f] = FileData(p)]
          BY <3>2, <3>3, <4>2, <5>1, <5>2, StoreIs
        <5>5. u.mem[f] = FileData(p) /\ \A g \in Frames \ {f} : u.mem[g] = mapped.mem[g]
          BY <3>3, <5>3, <5>4 DEF IsState
        <5>6. \A g \in Frames \ s.free : u.mem[g] = s.mem[g]
          BY <3>2, <5>3, <5>5 DEF Grows
        <5>7. Sound(u)
          BY <3>3, <5>4 DEF Sound
        <5>8. Grows(s, u)
          BY <3>2, <5>4, <5>6, <5>7 DEF Grows
        <5> QED BY <5>2, <5>4, <5>5, <5>8
      <4> QED BY <3>3, <4>1, <4>2
    <3>5. /\ \A q \in DOMAIN space[t].leaf : q \in DOMAIN u.as.leaf /\ u.as.leaf[q] = space[t].leaf[q]
          /\ \A q \in DOMAIN u.as.leaf : q \notin DOMAIN space[t].leaf =>
               /\ q = p /\ u.as.leaf[p].w
               /\ u.ok => u.mem[u.as.leaf[p].frame] = IF InDemandRange(t, p) THEN Zero ELSE FileData(p)
      BY <1>0, <2>4, <3>2, <3>4
    <3> QED BY <1>1, <1>6, <2>1, <3>4, <3>5 DEF s
  <2> QED BY <2>3, <2>4
<1> QED BY <1>4, <1>5, <1>6

-----------------------------------------------------------------------------
(* Every step keeps the inductive invariant. *)

\* Frames an image shares are owned by no address space.
LEMMA ImageUnowned ==
  ASSUME NEW S, NEW fr, Exclusive(S, fr), NEW src \in S, ImageOnly(src)
  PROVE  \A y \in S : OwnFrames(y) \cap LeafFrames(src) = {}
<1> SUFFICES ASSUME NEW y \in S PROVE OwnFrames(y) \cap LeafFrames(src) = {}
  OBVIOUS
<1>1. LeafFrames(src) \subseteq Reach(src)
  BY DEF Reach
<1>2. CASE y.root # src.root
  BY <1>1, <1>2 DEF Exclusive
<1>3. CASE y.root = src.root
  <2>1. y = src /\ Single(src)
    BY <1>3 DEF Exclusive
  <2>2. \A f \in OwnFrames(src) : \A p \in DOMAIN src.leaf : f # src.leaf[p].frame
    BY <2>1, OwnIs DEF Single, ImageOnly
  <2> QED BY <2>1, <2>2 DEF LeafFrames
<1> QED BY <1>2, <1>3

LEMMA CopyExclusive ==
  ASSUME IInv, NEW t \in Tasks, NEW src \in Spaces, ImageOnly(src), NEW u, Copies(State(t), u, src)
  PROVE  /\ Exclusive(Others(t) \cup {temp[t], u.as}, u.free)
         /\ u.as.root \in free /\ u.as.root # 0
         /\ \A z \in Others(t) \cup {temp[t]} : z.root # u.as.root
         /\ ImageOnly(u.as)
<1> DEFINE S == Others(t) \cup {temp[t]}
<1>1. Exclusive(S, free) /\ S \subseteq Spaces
  BY SpacesIs, ExclusiveSubset DEF IInv
<1>2. /\ Sound(u) /\ IsSpace(u.as) /\ Single(u.as) /\ Reach(u.as) \cap u.free = {} /\ u.free \subseteq free
      /\ u.as.root \in free /\ OwnFrames(u.as) \subseteq free
      /\ \A p \in DOMAIN u.as.leaf : p \in DOMAIN src.leaf /\ u.as.leaf[p].frame = src.leaf[p].frame /\ ~u.as.leaf[p].w
  BY StateOf DEF Copies, Sound, IsState
<1>3. u.as.root # 0
  BY <1>2, PagingAssumption DEF IInv, Typed, Frames
<1>4. \A f \in Reach(u.as) : f \in free \/ f \in LeafFrames(src)
  <2>1. \A f \in Reach(u.as) : f \in OwnFrames(u.as) \/ \E p \in DOMAIN u.as.leaf : f = u.as.leaf[p].frame
    BY DEF Reach, LeafFrames
  <2> QED BY <1>2, <2>1 DEF LeafFrames
<1>5. \A y \in S : OwnFrames(y) \cap Reach(u.as) = {}
  <2>1. \A y \in Spaces : OwnFrames(y) \cap LeafFrames(src) = {} /\ OwnFrames(y) \cap free = {}
    BY ImageUnowned, OwnInReach DEF IInv, Exclusive
  <2> QED BY <1>1, <1>4, <2>1
<1> HIDE DEF S
<1>6. Exclusive(S \cup {u.as}, u.free)
  BY <1>1, <1>2, <1>3, <1>5, ExclusiveNew
<1>7. \A z \in S : z.root # u.as.root
  <2>1. \A z \in S : z.root # 0 => z.root \in OwnFrames(z) /\ OwnFrames(z) \cap free = {}
    BY <1>1, RootOwned, OwnInReach DEF Exclusive
  <2> QED BY <1>2, <1>3, <2>1
<1>8. ImageOnly(u.as)
  BY <1>2 DEF ImageOnly
<1>9. S \cup {u.as} = Others(t) \cup {temp[t], u.as}
  BY DEF S
<1> QED BY <1>2, <1>3, <1>6, <1>7, <1>8, <1>9 DEF S

LEMMA GrowExclusive ==
  ASSUME IInv, NEW t \in Tasks, pc[t] \notin {"idle", "record"}, NEW u, Sound(u), u.free \subseteq free,
         u.as.root = space[t].root, OwnFrames(u.as) \subseteq OwnFrames(space[t]) \cup (free \ u.free),
         Reach(u.as) \subseteq Reach(space[t]) \cup (free \ u.free)
  PROVE  /\ Exclusive(Others(t) \cup {temp[t], u.as}, u.free)
         /\ u.as.root # 0
         /\ \A z \in Others(t) \cup {temp[t]} : z.root # u.as.root
<1> DEFINE S == Others(t) \cup {temp[t]}
<1>1. Alone(t) /\ temp[t] = NoSpace
  BY DEF IInv, Held
<1>2. \A z \in S : z.root # space[t].root
  BY <1>1, NoSpaceIs DEF Alone
<1>3. Exclusive(S \cup {space[t]}, free)
  BY SpacesIs, ExclusiveSubset DEF IInv
<1>4. IsSpace(u.as) /\ Single(u.as) /\ Reach(u.as) \cap u.free = {} /\ space[t].root # 0
  BY <1>1 DEF Sound, IsState, Alone
<1>5. S \cup {u.as} = Others(t) \cup {temp[t], u.as}
  OBVIOUS
<1> HIDE DEF S
<1>6. Exclusive(S \cup {u.as}, u.free)
  BY <1>2, <1>3, <1>4, ExclusiveGrow
<1> QED BY <1>2, <1>4, <1>5, <1>6 DEF S

\* An address space that stays as it is.
LEMMA HaltExclusive ==
  ASSUME IInv, NEW t \in Tasks
  PROVE  Exclusive(Others(t) \cup {temp[t], space[t]}, free)
BY SpacesIs, ExclusiveSubset DEF IInv

LEMMA LoadAppKeeps ==
  ASSUME IInv, NEW t \in Tasks, NEW a \in Apps, LoadApp(t, a)
  PROVE  IInv'
<1>1. PICK u : \E there \in {"load", "stack"} :
        /\ Proceed(t, u, there)
        /\ Halts(t, u) \/ (Copies(State(t), u, loads[a]) /\ (there = "load" => DOMAIN u.as.leaf = {}))
  BY LoadAppDoes
<1>2. PICK there \in {"load", "stack"} :
        /\ Proceed(t, u, there)
        /\ Halts(t, u) \/ (Copies(State(t), u, loads[a]) /\ (there = "load" => DOMAIN u.as.leaf = {}))
  BY <1>1
<1>3. PICK at : at = IF u.ok THEN there ELSE "idle"
  OBVIOUS
<1>4. /\ space' = [space EXCEPT ![t] = u.as] /\ pc' = [pc EXCEPT ![t] = at]
      /\ free' = u.free /\ mem' = u.mem /\ failed' = (failed \/ ~u.ok)
  BY <1>2, <1>3 DEF Proceed, Commit, Goto
<1>5. pc[t] = "idle" /\ temp[t] = NoSpace /\ temp' = temp /\ loads' = loads /\ app' = [app EXCEPT ![t] = a]
  BY DEF LoadApp, IInv, Held
<1>6. Typed'
  <2>1. u.free \subseteq Frames /\ u.mem \in [Frames -> Contents] /\ u.ok \in BOOLEAN
    BY <1>2 DEF Halts, Copies, Sound, IsState, IInv, Typed
  <2>2. at \in {"idle", "load", "stack"}
    BY <1>2, <1>3
  <2>3. runs' \in 0 .. MaxRuns
    BY PagingAssumption DEF LoadApp, IInv, Typed
  <2>4. UNCHANGED <<dpEnd, fmBegin, doubled>>
    BY DEF LoadApp
  <2>5. AreFunctions'
    BY <1>4, <1>5 DEF IInv, Typed, AreFunctions
  <2>6. pc' \in [Tasks -> {"idle", "load", "record", "stack", "running", "exiting"}] /\ app' \in [Tasks -> Apps \cup {NoApp}]
    BY <1>4, <1>5, <2>2 DEF IInv, Typed
  <2> QED BY <1>4, <2>1, <2>3, <2>4, <2>5, <2>6 DEF IInv, Typed
<1>7. temp' = [temp EXCEPT ![t] = IF at = "record" THEN u.as ELSE NoSpace]
  <2>1. at # "record"
    BY <1>2, <1>3
  <2> QED BY <1>5, <2>1 DEF IInv, Typed, AreFunctions
<1>8. app'[t] \in Apps /\ \A v \in Tasks \ {t} : app'[v] = app[v]
  BY <1>5 DEF IInv, Typed
<1>9. CASE Halts(t, u)
  <2>1. at = "idle" /\ u.as = space[t] /\ free' = free
    BY <1>3, <1>4, <1>9 DEF Halts
  <2>2. Exclusive(Others(t) \cup {temp[t], u.as}, free') /\ Shape(u.as, at)
    BY <2>1, HaltExclusive DEF Shape
  <2> QED BY <1>4, <1>5, <1>6, <1>7, <1>8, <2>1, <2>2, TaskStep
<1>10. CASE Copies(State(t), u, loads[a]) /\ (there = "load" => DOMAIN u.as.leaf = {})
  <2>1. loads[a] \in Spaces /\ ImageOnly(loads[a])
    BY DEF Spaces, IInv
  <2>2. /\ Exclusive(Others(t) \cup {temp[t], u.as}, free')
        /\ u.as.root \in free /\ u.as.root # 0
        /\ \A z \in Others(t) \cup {temp[t]} : z.root # u.as.root
        /\ ImageOnly(u.as)
    BY <1>4, <1>10, <2>1, CopyExclusive
  <2>3. Shape(u.as, at)
    BY <1>2, <1>3, <1>10, <2>2 DEF Shape
  <2> QED BY <1>4, <1>5, <1>6, <1>7, <1>8, <2>2, <2>3, TaskStep
<1> QED BY <1>2, <1>9, <1>10

LEMMA LoadELFKeeps ==
  ASSUME IInv, NEW t \in Tasks, LoadELF(t)
  PROVE  IInv'
<1>1. PICK u : /\ Proceed(t, u, "record")
               /\ temp' = [temp EXCEPT ![t] = IF u.ok THEN u.as ELSE NoSpace]
               /\ Halts(t, u) \/ (Grows(State(t), u) /\ ImageOnly(u.as))
  BY LoadELFDoes
<1>2. PICK at : at = IF u.ok THEN "record" ELSE "idle"
  OBVIOUS
<1>3. /\ space' = [space EXCEPT ![t] = u.as] /\ pc' = [pc EXCEPT ![t] = at]
      /\ free' = u.free /\ mem' = u.mem /\ failed' = (failed \/ ~u.ok)
  BY <1>1, <1>2 DEF Proceed, Commit, Goto
<1>4. pc[t] = "load" /\ app[t] \in Apps /\ UNCHANGED <<loads, app, dpEnd, fmBegin, doubled, runs>>
  BY DEF LoadELF, IInv, Held
<1>5. Typed'
  <2>1. u.free \subseteq Frames /\ u.mem \in [Frames -> Contents] /\ u.ok \in BOOLEAN
    BY <1>1 DEF Halts, Grows, Sound, IsState, IInv, Typed
  <2>2. AreFunctions'
    BY <1>1, <1>3, <1>4 DEF IInv, Typed, AreFunctions
  <2>3. pc' \in [Tasks -> {"idle", "load", "record", "stack", "running", "exiting"}]
    BY <1>2, <1>3 DEF IInv, Typed
  <2> QED BY <1>3, <1>4, <2>1, <2>2, <2>3 DEF IInv, Typed
<1>6. temp' = [temp EXCEPT ![t] = IF at = "record" THEN u.as ELSE NoSpace]
  BY <1>1, <1>2
<1>7. CASE Halts(t, u)
  <2>1. at = "idle" /\ u.as = space[t] /\ free' = free
    BY <1>2, <1>3, <1>7 DEF Halts
  <2>2. Exclusive(Others(t) \cup {temp[t], u.as}, free') /\ Shape(u.as, at)
    BY <2>1, HaltExclusive DEF Shape
  <2> QED BY <1>3, <1>4, <1>5, <1>6, <2>1, <2>2, TaskStep
<1>8. CASE Grows(State(t), u) /\ ImageOnly(u.as)
  <2>1. /\ Sound(u) /\ u.free \subseteq free /\ u.as.root = space[t].root
        /\ OwnFrames(u.as) \subseteq OwnFrames(space[t]) \cup (free \ u.free)
        /\ Reach(u.as) \subseteq Reach(space[t]) \cup (free \ u.free)
    BY <1>8, StateOf DEF Grows
  <2>2. /\ Exclusive(Others(t) \cup {temp[t], u.as}, free')
        /\ u.as.root # 0
        /\ \A z \in Others(t) \cup {temp[t]} : z.root # u.as.root
    BY <1>3, <1>4, <2>1, GrowExclusive
  <2>3. Shape(u.as, at)
    BY <1>2, <1>8 DEF Shape
  <2> QED BY <1>3, <1>4, <1>5, <1>6, <2>1, <2>2, <2>3, TaskStep
<1> QED BY <1>1, <1>7, <1>8

LEMMA RecordAppKeeps ==
  ASSUME IInv, NEW t \in Tasks, RecordApp(t)
  PROVE  IInv'
<1>1. PICK u : Proceed(t, u, "stack") /\ (Halts(t, u) \/ Copies(State(t), u, temp[t]))
  BY RecordAppDoes
<1>2. PICK at : at = IF u.ok THEN "stack" ELSE "idle"
  OBVIOUS
<1>3. /\ space' = [space EXCEPT ![t] = u.as] /\ pc' = [pc EXCEPT ![t] = at]
      /\ free' = u.free /\ mem' = u.mem /\ failed' = (failed \/ ~u.ok)
  BY <1>1, <1>2 DEF Proceed, Commit, Goto
<1>4. /\ pc[t] = "record" /\ app[t] \in Apps /\ temp[t] = space[t] /\ ImageOnly(space[t])
      /\ temp' = [temp EXCEPT ![t] = NoSpace]
      /\ doubled' = (doubled \/ Loaded(app[t]))
      /\ UNCHANGED <<app, dpEnd, fmBegin, runs>>
  BY DEF RecordApp, IInv, Held, Shape
<1>5. loads' = loads \/ \E a \in Apps : loads' = [loads EXCEPT ![a] = temp[t]]
  BY <1>4 DEF RecordApp
<1>6. Typed'
  <2>1. u.free \subseteq Frames /\ u.mem \in [Frames -> Contents] /\ u.ok \in BOOLEAN
    BY <1>1 DEF Halts, Copies, Sound, IsState, IInv, Typed
  <2>2. AreFunctions'
    BY <1>3, <1>4, <1>5 DEF IInv, Typed, AreFunctions
  <2>3. pc' \in [Tasks -> {"idle", "load", "record", "stack", "running", "exiting"}]
    BY <1>2, <1>3 DEF IInv, Typed
  <2> QED BY <1>3, <1>4, <2>1, <2>2, <2>3 DEF IInv, Typed
<1>7. temp' = [temp EXCEPT ![t] = IF at = "record" THEN u.as ELSE NoSpace]
  BY <1>2, <1>4
<1>8. CASE Halts(t, u)
  <2>1. at = "idle" /\ u.as = space[t] /\ free' = free
    BY <1>2, <1>3, <1>8 DEF Halts
  <2>2. Exclusive(Others(t) \cup {temp[t], u.as}, free') /\ Shape(u.as, at)
    BY <2>1, HaltExclusive DEF Shape
  <2> QED BY <1>3, <1>4, <1>5, <1>6, <1>7, <2>1, <2>2, TaskStep
<1>9. CASE Copies(State(t), u, temp[t])
  <2>1. temp[t] \in Spaces /\ ImageOnly(temp[t])
    BY <1>4 DEF Spaces
  <2>2. /\ Exclusive(Others(t) \cup {temp[t], u.as}, free')
        /\ u.as.root \in free /\ u.as.root # 0
        /\ \A z \in Others(t) \cup {temp[t]} : z.root # u.as.root
        /\ ImageOnly(u.as)
    BY <1>3, <1>9, <2>1, CopyExclusive
  <2>3. Shape(u.as, at)
    BY <1>2, <2>2 DEF Shape
  <2> QED BY <1>3, <1>4, <1>5, <1>6, <1>7, <2>2, <2>3, TaskStep
<1> QED BY <1>1, <1>8, <1>9

\* Steps that leave the images and the other tasks alone.
LEMMA RunStep ==
  ASSUME IInv, NEW t \in Tasks, pc[t] \notin {"idle", "record"}, NEW u, NEW at \in {"idle", "running", "exiting"},
         free' = u.free, mem' = u.mem, space' = [space EXCEPT ![t] = u.as], pc' = [pc EXCEPT ![t] = at],
         UNCHANGED <<temp, loads, app, doubled, runs>>, failed' \in BOOLEAN,
         dpEnd' \in [Tasks -> ImageSize .. StackPage], fmBegin' \in [Tasks -> ImageSize .. StackPage],
         \A v \in Tasks : dpEnd'[v] <= fmBegin'[v],
         Sound(u), u.free \subseteq free, u.as.root = space[t].root,
         OwnFrames(u.as) \subseteq OwnFrames(space[t]) \cup (free \ u.free),
         Reach(u.as) \subseteq Reach(space[t]) \cup (free \ u.free),
         Shape(u.as, at)
  PROVE  IInv'
<1>1. app[t] \in Apps /\ temp[t] = NoSpace
  BY DEF IInv, Held
<1>2. Typed'
  <2>1. u.free \subseteq Frames /\ u.mem \in [Frames -> Contents]
    BY DEF Sound, IsState
  <2>2. AreFunctions'
    BY DEF IInv, Typed, AreFunctions
  <2>3. pc' \in [Tasks -> {"idle", "load", "record", "stack", "running", "exiting"}]
    BY DEF IInv, Typed
  <2> QED BY <2>1, <2>2, <2>3 DEF IInv, Typed
<1>3. temp' = [temp EXCEPT ![t] = IF at = "record" THEN u.as ELSE NoSpace]
  BY <1>1 DEF IInv, Typed, AreFunctions
<1>4. /\ Exclusive(Others(t) \cup {temp[t], u.as}, free')
      /\ u.as.root # 0
      /\ \A z \in Others(t) \cup {temp[t]} : z.root # u.as.root
  BY GrowExclusive
<1> QED BY <1>1, <1>2, <1>3, <1>4, TaskStep

LEMMA GrowRunStep ==
  ASSUME IInv, NEW t \in Tasks, NEW u, Grows(State(t), u) \/ (\E p : Unshares(State(t), u, p))
  PROVE  /\ Sound(u) /\ u.free \subseteq free /\ u.as.root = space[t].root
         /\ OwnFrames(u.as) \subseteq OwnFrames(space[t]) \cup (free \ u.free)
         /\ Reach(u.as) \subseteq Reach(space[t]) \cup (free \ u.free)
BY StateOf DEF Grows, Unshares

LEMMA CallAppKeeps ==
  ASSUME IInv, NEW t \in Tasks, CallApp(t)
  PROVE  IInv'
<1>1. PICK u : /\ Proceed(t, u, "running") /\ Grows(State(t), u)
               /\ \A p \in DOMAIN space[t].leaf : p \in DOMAIN u.as.leaf /\ u.as.leaf[p] = space[t].leaf[p]
               /\ \A p \in DOMAIN u.as.leaf : p \notin DOMAIN space[t].leaf =>
                    p \in {StackPage, ArgsPage} /\ u.as.leaf[p].w
  BY CallAppDoes
<1>2. PICK at \in {"idle", "running", "exiting"} : at = IF u.ok THEN "running" ELSE "idle"
  OBVIOUS
<1>3. /\ space' = [space EXCEPT ![t] = u.as] /\ pc' = [pc EXCEPT ![t] = at]
      /\ free' = u.free /\ mem' = u.mem /\ failed' \in BOOLEAN
  BY <1>1, <1>2 DEF Proceed, Commit, Goto, IInv, Typed
<1>4. /\ pc[t] = "stack" /\ ImageOnly(space[t]) /\ UNCHANGED <<temp, loads, app, doubled, runs>>
      /\ dpEnd' = [dpEnd EXCEPT ![t] = ImageSize] /\ fmBegin' = [fmBegin EXCEPT ![t] = StackPage]
  BY DEF CallApp, IInv, Shape
<1>5. /\ dpEnd' \in [Tasks -> ImageSize .. StackPage] /\ fmBegin' \in [Tasks -> ImageSize .. StackPage]
      /\ \A v \in Tasks : dpEnd'[v] <= fmBegin'[v]
  BY <1>4, PagingAssumption DEF IInv, Typed, StackPage
<1>6. Shape(u.as, at)
  BY <1>1, <1>2, <1>4 DEF Shape, ImageOnly
<1> QED BY <1>1, <1>3, <1>4, <1>5, <1>6, GrowRunStep, RunStep

LEMMA PageFaultKeeps ==
  ASSUME IInv, NEW t \in Tasks, NEW p \in Pages, PageFault(t, p)
  PROVE  IInv'
<1>1. PICK u : /\ Commit(t, u) /\ Goto(t, IF u.ok THEN "running" ELSE "exiting")
               /\ \/ Halts(t, u)
                  \/ Present(t, p) /\ Unshares(State(t), u, p)
                  \/ /\ Grows(State(t), u)
                     /\ \A q \in DOMAIN space[t].leaf : q \in DOMAIN u.as.leaf /\ u.as.leaf[q] = space[t].leaf[q]
                     /\ \A q \in DOMAIN u.as.leaf : q \notin DOMAIN space[t].leaf => q = p /\ u.as.leaf[p].w
  BY PageFaultDoes
<1>2. PICK at \in {"idle", "running", "exiting"} : at = IF u.ok THEN "running" ELSE "exiting"
  OBVIOUS
<1>3. /\ space' = [space EXCEPT ![t] = u.as] /\ pc' = [pc EXCEPT ![t] = at] /\ free' = u.free /\ mem' = u.mem
  BY <1>1, <1>2 DEF Commit, Goto
<1>4. /\ pc[t] = "running" /\ UNCHANGED <<temp, loads, app, dpEnd, fmBegin, failed, doubled, runs>>
      /\ \A q \in DOMAIN space[t].leaf : q \notin ImagePages => space[t].leaf[q].w
  BY DEF PageFault, Running, IInv, Shape
<1>5. /\ dpEnd' \in [Tasks -> ImageSize .. StackPage] /\ fmBegin' \in [Tasks -> ImageSize .. StackPage]
      /\ (\A v \in Tasks : dpEnd'[v] <= fmBegin'[v]) /\ failed' \in BOOLEAN
  BY <1>4 DEF IInv, Typed
<1>6. CASE Halts(t, u)
  <2>1. PICK s : s = State(t)
    OBVIOUS
  <2>2. Sound(s) /\ s.as = u.as /\ s.free = u.free /\ s.mem = u.mem /\ s.free = free /\ s.as = space[t]
    BY <1>6, <2>1, StateOf DEF Halts
  <2>3. Shape(s.as, at)
    BY <1>4, <2>2 DEF Shape, IInv
  <2> QED BY <1>3, <1>4, <1>5, <2>2, <2>3, RunStep
<1>7. CASE Present(t, p) /\ Unshares(State(t), u, p)
  <2>1. DOMAIN u.as.leaf = DOMAIN space[t].leaf /\ u.as.leaf[p].w
        /\ \A q \in DOMAIN space[t].leaf : q # p => u.as.leaf[q] = space[t].leaf[q]
    BY <1>7, StateOf DEF Unshares
  <2>2. Shape(u.as, at)
    BY <1>2, <1>4, <2>1 DEF Shape
  <2> QED BY <1>3, <1>4, <1>5, <1>7, <2>2, GrowRunStep, RunStep
<1>8. CASE /\ Grows(State(t), u)
           /\ \A q \in DOMAIN space[t].leaf : q \in DOMAIN u.as.leaf /\ u.as.leaf[q] = space[t].leaf[q]
           /\ \A q \in DOMAIN u.as.leaf : q \notin DOMAIN space[t].leaf => q = p /\ u.as.leaf[p].w
  <2>1. Shape(u.as, at)
    BY <1>2, <1>4, <1>8 DEF Shape
  <2> QED BY <1>3, <1>4, <1>5, <1>8, <2>1, GrowRunStep, RunStep
<1> QED BY <1>1, <1>6, <1>7, <1>8

\* A store through one of the application's leaves.
LEMMA WriteDoes ==
  ASSUME IInv, NEW t \in Tasks, NEW p, UserWrite(t, p) \/ KernelWrite(t, p)
  PROVE  \E u : /\ Sound(u) /\ u.free = free /\ u.as = space[t] /\ p \in DOMAIN space[t].leaf
                /\ u.mem = [mem EXCEPT ![space[t].leaf[p].frame] = Data(t)]
                /\ free' = u.free /\ mem' = u.mem /\ space' = [space EXCEPT ![t] = u.as]
<1>1. PICK s : s = State(t)
  OBVIOUS
<1>2. Sound(s) /\ s.free = free /\ s.mem = mem /\ s.as = space[t] /\ IsState(s)
  BY <1>1, StateOf DEF Sound
<1>3. p \in DOMAIN s.as.leaf /\ Commit(t, Store(s, p, Data(t)))
  BY <1>1, <1>2 DEF UserWrite, KernelWrite, Present
<1>4. Data(t) \in Contents
  BY DEF Contents
<1>5. PICK u : u = Store(s, p, Data(t))
  OBVIOUS
<1>6. IsState(u) /\ u.free = s.free /\ u.as = s.as /\ u.mem = [s.mem EXCEPT ![s.as.leaf[p].frame] = Data(t)]
  BY ONLY <1>2, <1>3, <1>4, <1>5, StoreIs
<1>7. Sound(u)
  BY <1>2, <1>6 DEF Sound
<1> QED BY <1>2, <1>3, <1>5, <1>6, <1>7 DEF Commit

LEMMA WriteKeeps ==
  ASSUME IInv, NEW t \in Tasks, NEW p, UserWrite(t, p) \/ KernelWrite(t, p)
  PROVE  IInv'
<1>1. PICK u : /\ Sound(u) /\ u.free = free /\ u.as = space[t]
               /\ free' = u.free /\ mem' = u.mem /\ space' = [space EXCEPT ![t] = u.as]
  BY WriteDoes
<1>2. pc[t] = "running" /\ UNCHANGED <<temp, loads, pc, app, dpEnd, fmBegin, failed, doubled, runs>>
  BY DEF UserWrite, KernelWrite, Running
<1>3. pc' = [pc EXCEPT ![t] = "running"]
  BY <1>2 DEF IInv, Typed
<1>4. Shape(u.as, "running")
  BY <1>1, <1>2 DEF IInv
<1>5. /\ dpEnd' \in [Tasks -> ImageSize .. StackPage] /\ fmBegin' \in [Tasks -> ImageSize .. StackPage]
      /\ (\A v \in Tasks : dpEnd'[v] <= fmBegin'[v]) /\ failed' \in BOOLEAN
  BY <1>2 DEF IInv, Typed
<1> QED BY <1>1, <1>2, <1>3, <1>4, <1>5, RunStep

\* DemandPages, MapFile and ExitApp change no page.
LEMMA CallsKeep ==
  ASSUME IInv, NEW t \in Tasks, DemandPages(t) \/ MapFile(t) \/ ExitApp(t)
  PROVE  IInv'
<1>1. PICK s : s = State(t)
  OBVIOUS
<1>2. Sound(s) /\ s.free = free /\ s.mem = mem /\ s.as = space[t]
  BY <1>1, StateOf
<1>3. pc[t] = "running" /\ UNCHANGED <<free, mem, space, temp, loads, app, failed, doubled, runs>>
  BY DEF DemandPages, MapFile, ExitApp, Running
<1>4. PICK at \in {"running", "exiting"} : pc' = [pc EXCEPT ![t] = at]
  <2>1. CASE ExitApp(t)
    BY <2>1 DEF ExitApp, Goto
  <2>2. CASE DemandPages(t) \/ MapFile(t)
    <3>1. pc' = pc
      BY <2>2 DEF DemandPages, MapFile
    <3> QED BY <1>3, <3>1 DEF IInv, Typed
  <2> QED BY <2>1, <2>2
<1>5. space' = [space EXCEPT ![t] = s.as]
  BY <1>2, <1>3 DEF IInv, Typed, AreFunctions
<1>6. Shape(s.as, at)
  BY <1>2, <1>3, <1>4 DEF IInv, Shape
<1>7. /\ dpEnd' \in [Tasks -> ImageSize .. StackPage] /\ fmBegin' \in [Tasks -> ImageSize .. StackPage]
      /\ \A v \in Tasks : dpEnd'[v] <= fmBegin'[v]
  <2>0. ImageSize \in Int /\ StackPage \in Int
    BY PagingAssumption DEF StackPage
  <2>1. CASE DemandPages(t)
    BY <2>0, <2>1 DEF DemandPages, IInv, Typed
  <2>2. CASE MapFile(t)
    BY <2>0, <2>2 DEF MapFile, IInv, Typed
  <2>3. CASE ExitApp(t)
    BY <2>3 DEF ExitApp, IInv, Typed
  <2> QED BY <2>1, <2>2, <2>3
<1>8. failed' \in BOOLEAN
  BY <1>3 DEF IInv, Typed
<1> QED BY <1>2, <1>3, <1>4, <1>5, <1>6, <1>7, <1>8, RunStep

LEMMA CleanDoes ==
  ASSUME IInv, NEW t \in Tasks, Clean(t)
  PROVE  /\ free' = free \cup OwnFrames(space[t]) /\ mem' = mem
         /\ space' = [space EXCEPT ![t] = NoSpace] /\ pc' = [pc EXCEPT ![t] = "idle"]
         /\ Alone(t) /\ temp[t] = NoSpace
<1>1. Alone(t) /\ temp[t] = NoSpace
  BY DEF Clean, IInv, Held
<1>2. IsState(State(t)) /\ State(t).free = free /\ State(t).mem = mem /\ State(t).as = space[t]
  BY StateOf DEF Sound
<1>3. PICK u : u = FreePML4(CleanPageMaps(State(t)))
  OBVIOUS
<1>4. u.free = free \cup OwnFrames(space[t]) /\ u.mem = mem /\ u.as = NoSpace
  BY <1>1, <1>2, <1>3, Cleaned DEF Alone
<1> QED BY <1>1, <1>3, <1>4 DEF Clean, Commit, Goto

LEMMA CleanKeeps ==
  ASSUME IInv, NEW t \in Tasks, Clean(t)
  PROVE  IInv'
<1>1. /\ free' = free \cup OwnFrames(space[t]) /\ mem' = mem
      /\ space' = [space EXCEPT ![t] = NoSpace] /\ pc' = [pc EXCEPT ![t] = "idle"]
      /\ Alone(t) /\ temp[t] = NoSpace
  BY CleanDoes
<1>2. UNCHANGED <<temp, loads, app, dpEnd, fmBegin, failed, doubled, runs>>
  BY DEF Clean
<1>3. OwnFrames(space[t]) \subseteq Frames
  <2>1. IsSpace(space[t])
    BY DEF IInv, Exclusive, Spaces
  <2>2. \A f \in OwnFrames(space[t]) : f \in Frames
    BY <2>1, OwnIs, PagingAssumption DEF IsSpace, Leaves, Frames
  <2> QED BY <2>2
<1>4. Typed'
  <2>1. AreFunctions'
    BY <1>1, <1>2 DEF IInv, Typed, AreFunctions
  <2> QED BY <1>1, <1>2, <1>3, <2>1 DEF IInv, Typed
<1>5. Exclusive(Others(t) \cup {temp[t], NoSpace}, free')
  <2>1. \A y \in Others(t) \cup {temp[t]} : y.root # space[t].root
    BY <1>1, NoSpaceIs DEF Alone
  <2>2. Exclusive((Others(t) \cup {temp[t]}) \cup {space[t]}, free)
    BY SpacesIs, ExclusiveSubset DEF IInv
  <2>3. Exclusive(Others(t) \cup {temp[t]}, free')
    BY <1>1, <2>1, <2>2, ExclusiveClean
  <2>4. Others(t) \cup {temp[t], NoSpace} = (Others(t) \cup {temp[t]}) \cup {NoSpace}
    OBVIOUS
  <2> QED BY <2>3, <2>4, ExclusiveNone
<1>6. temp' = [temp EXCEPT ![t] = IF "idle" = "record" THEN NoSpace ELSE NoSpace]
  BY <1>1, <1>2 DEF IInv, Typed, AreFunctions
<1>7. Shape(NoSpace, "idle") /\ NoSpace.root = 0
  BY NoSpaceIs DEF Shape
<1> QED BY <1>1, <1>2, <1>4, <1>5, <1>6, <1>7, TaskStep

LEMMA InitSound == Init => IInv
<1> SUFFICES ASSUME Init PROVE IInv
  OBVIOUS
<1>1. Typed
  <2>1. AreFunctions
    BY DEF Init, AreFunctions
  <2>2. Zero \in Contents
    BY DEF Contents
  <2>3. ImageSize \in ImageSize .. StackPage /\ StackPage \in ImageSize .. StackPage /\ ImageSize <= StackPage
    BY PagingAssumption DEF StackPage
  <2>4. 0 \in 0 .. MaxRuns
    BY PagingAssumption
  <2> QED BY <2>1, <2>2, <2>3, <2>4 DEF Init, Typed
<1>2. \A x \in Spaces : x = NoSpace
  BY DEF Init, Spaces
<1>3. Exclusive(Spaces, free)
  BY <1>2, NoSpaceIs DEF Exclusive
<1>4. \A t \in Tasks : Held(t) /\ Shape(space[t], pc[t])
  BY DEF Init, Held, Shape
<1>5. \A a \in Apps : ImageOnly(loads[a])
  BY NoSpaceIs DEF Init, ImageOnly
<1> QED BY <1>1, <1>3, <1>4, <1>5 DEF IInv

LEMMA StutterKeeps == ASSUME IInv, UNCHANGED vars PROVE IInv'
BY DEF vars, IInv, Typed, AreFunctions, Spaces, Held, Alone, Others

LEMMA StepKeeps == ASSUME IInv, [Next]_vars PROVE IInv'
<1>1. ASSUME NEW t \in Tasks, NEW a \in Apps, LoadApp(t, a) PROVE IInv'
  BY <1>1, LoadAppKeeps
<1>2. ASSUME NEW t \in Tasks, LoadELF(t) PROVE IInv'
  BY <1>2, LoadELFKeeps
<1>3. ASSUME NEW t \in Tasks, RecordApp(t) PROVE IInv'
  BY <1>3, RecordAppKeeps
<1>4. ASSUME NEW t \in Tasks, CallApp(t) PROVE IInv'
  BY <1>4, CallAppKeeps
<1>5. ASSUME NEW t \in Tasks, NEW p \in Pages, UserWrite(t, p) \/ KernelWrite(t, p) PROVE IInv'
  BY <1>5, WriteKeeps
<1>6. ASSUME NEW t \in Tasks, NEW p \in Pages, PageFault(t, p) PROVE IInv'
  BY <1>6, PageFaultKeeps
<1>7. ASSUME NEW t \in Tasks, DemandPages(t) \/ MapFile(t) \/ ExitApp(t) PROVE IInv'
  BY <1>7, CallsKeep
<1>8. ASSUME NEW t \in Tasks, Clean(t) PROVE IInv'
  BY <1>8, CleanKeeps
<1>9. CASE UNCHANGED vars
  BY <1>9, StutterKeeps
<1> QED BY <1>1, <1>2, <1>3, <1>4, <1>5, <1>6, <1>7, <1>8, <1>9 DEF Next

\* In every reachable state an address space is known by its root, owns its
\* tables and writable pages alone, and has nothing read only outside the image:
\* what CleanPageMap and CopyOnePage rely on.
THEOREM SpacesAlwaysSound == Spec => []IInv
<1>1. Init => IInv
  BY InitSound
<1>2. IInv /\ [Next]_vars => IInv'
  BY StepKeeps
<1> QED BY <1>1, <1>2, PTL DEF Spec

-----------------------------------------------------------------------------
(* FramesExclusive. *)

LEMMA ImageCounted ==
  ASSUME NEW D, IsFiniteSet(D), NEW g, g = [x \in D |-> g[x]], \A x, y \in D : g[x] = g[y] => x = y
  PROVE  IsFiniteSet({g[x] : x \in D}) /\ Cardinality({g[x] : x \in D}) = Cardinality(D)
<1> DEFINE T == {g[x] : x \in D}
<1>1. g \in [D -> T]
  OBVIOUS
<1>2. g \in Injection(D, T)
  BY <1>1 DEF Injection, IsInjective
<1>3. g \in Surjection(D, T)
  BY <1>1 DEF Surjection
<1>4. g \in Bijection(D, T)
  BY <1>2, <1>3 DEF Bijection
<1> HIDE DEF T
<1>5. ExistsBijection(D, T)
  BY <1>4 DEF ExistsBijection
<1>6. IsFiniteSet(T) /\ Cardinality(T) = Cardinality(D)
  BY <1>5, FS_Bijection
<1> QED BY <1>6 DEF T

LEMMA UnionCounted ==
  ASSUME NEW S, NEW T, IsFiniteSet(S), IsFiniteSet(T), S \cap T = {}
  PROVE  IsFiniteSet(S \cup T) /\ Cardinality(S \cup T) = Cardinality(S) + Cardinality(T)
<1>1. Cardinality(S \cap T) = 0
  BY FS_EmptySet
<1>2. Cardinality(S) \in Nat /\ Cardinality(T) \in Nat
  BY FS_CardinalityType
<1>3. IsFiniteSet(S \cup T) /\ Cardinality(S \cup T) = Cardinality(S) + Cardinality(T) - Cardinality(S \cap T)
  BY FS_Union
<1> QED BY <1>1, <1>2, <1>3

\* The frames of an address space are as many as its entries.
LEMMA OwnCounted ==
  ASSUME NEW sp, IsSpace(sp), Single(sp)
  PROVE  Cardinality(OwnFrames(sp)) =
           Cardinality({sp.root} \ {0}) + Cardinality(DOMAIN sp.tables)
             + Cardinality({p \in DOMAIN sp.leaf : sp.leaf[p].w})
<1> DEFINE R == {sp.root} \ {0}
           D == DOMAIN sp.tables
           T == {sp.tables[r] : r \in D}
           P == {p \in DOMAIN sp.leaf : sp.leaf[p].w}
           g == [p \in P |-> sp.leaf[p].frame]
           W == {g[p] : p \in P}
<1>1. IsFiniteSet(R)
  BY FS_Singleton, FS_RemoveElement
<1>2. IsFiniteSet(D)
  <2>1. IsFiniteSet({"low"})
    BY FS_Singleton
  <2>2. IsFiniteSet({"low"} \cup {"high"})
    BY <2>1, FS_AddElement
  <2>3. D \in SUBSET ({"low"} \cup {"high"})
    BY DEF IsSpace, Regions
  <2> QED BY <2>2, <2>3, FS_Subset
<1>3. IsFiniteSet(P)
  <2>1. IsFiniteSet(Pages)
    BY FS_Interval, PagingAssumption DEF Pages, ArgsPage, StackPage
  <2>2. P \in SUBSET Pages
    BY DEF IsSpace
  <2> QED BY <2>1, <2>2, FS_Subset
<1>4. IsFiniteSet(T) /\ Cardinality(T) = Cardinality(D)
  <2>1. sp.tables = [r \in D |-> sp.tables[r]]
    BY DEF IsSpace
  <2>2. \A r, q \in D : sp.tables[r] = sp.tables[q] => r = q
    BY DEF Single
  <2>3. PICK h : h = sp.tables
    OBVIOUS
  <2> HIDE DEF D
  <2>4. IsFiniteSet({h[r] : r \in D}) /\ Cardinality({h[r] : r \in D}) = Cardinality(D)
    BY <1>2, <2>1, <2>2, <2>3, ImageCounted
  <2> QED BY <2>3, <2>4
<1>5. IsFiniteSet(W) /\ Cardinality(W) = Cardinality(P)
  <2>1. \A p, q \in P : g[p] = g[q] => p = q
    BY DEF Single
  <2>2. g = [p \in P |-> g[p]]
    OBVIOUS
  <2> HIDE DEF g, P
  <2> QED BY <1>3, <2>1, <2>2, ImageCounted
<1>6. W = FreedLeaves(sp.leaf) /\ T = Range(sp.tables)
  BY DEF FreedLeaves, Range
<1>7. R \cap T = {} /\ (R \cup T) \cap W = {}
  <2>1. \A f \in W : \E p \in DOMAIN sp.leaf : f = sp.leaf[p].frame
    OBVIOUS
  <2>2. \A f \in T : \E r \in DOMAIN sp.tables : f = sp.tables[r]
    OBVIOUS
  <2>3. \A f \in R : f = sp.root
    OBVIOUS
  <2> HIDE DEF R, T, W
  <2> QED BY <2>1, <2>2, <2>3 DEF Single
<1> HIDE DEF R, D, T, P, g, W
<1>8. IsFiniteSet(R \cup T) /\ Cardinality(R \cup T) = Cardinality(R) + Cardinality(T)
  BY <1>1, <1>4, <1>7, UnionCounted
<1>9. Cardinality((R \cup T) \cup W) = Cardinality(R \cup T) + Cardinality(W)
  BY <1>5, <1>7, <1>8, UnionCounted
<1>10. OwnFrames(sp) = (R \cup T) \cup W
  BY <1>6 DEF OwnFrames, WritableFrames, R
<1> QED BY <1>4, <1>5, <1>8, <1>9, <1>10 DEF R, D, P

LEMMA ReachTyped ==
  ASSUME NEW x, IsSpace(x)
  PROVE  Reach(x) \subseteq Frames
<1>1. x.root # 0 => x.root \in Frames
  BY PagingAssumption DEF IsSpace, Frames
<1>2. /\ \A r \in DOMAIN x.tables : x.tables[r] \in Frames
      /\ \A p \in DOMAIN x.leaf : x.leaf[p].frame \in Frames
  BY DEF IsSpace, Leaves
<1>3. \A f \in Reach(x) : f \in Frames
  BY <1>1, <1>2, ReachIs
<1> QED BY <1>3

LEMMA SoundIsExclusive == IInv => FramesExclusive
<1> SUFFICES ASSUME IInv PROVE FramesExclusive
  OBVIOUS
<1>1. \A sp \in Spaces : IsSpace(sp) /\ Single(sp) /\ Reach(sp) \cap free = {}
  BY DEF IInv, Exclusive
<1>2. ASSUME NEW sp \in Spaces
      PROVE  Reach(sp) \subseteq Frames /\ DOMAIN sp.leaf \subseteq Pages /\ DOMAIN sp.tables \subseteq Regions
  <2>1. IsSpace(sp)
    BY <1>1
  <2>2. Reach(sp) \subseteq Frames
    BY <2>1, ReachTyped
  <2> QED BY <2>1, <2>2 DEF IsSpace
<1>3. TypeOK
  BY <1>2 DEF TypeOK, IInv, Typed
<1>4. \A as1, as2 \in Spaces : as1.root # as2.root => OwnFrames(as1) \cap Reach(as2) = {}
  BY DEF IInv, Exclusive
<1> QED BY <1>1, <1>3, <1>4, OwnCounted DEF FramesExclusive

\* No frame an address space uses is free, and the tables and writable pages of
\* one are in no other: for any tasks, files and frames, and through every error
\* return of LoadApp, ExecuteFile and HandlePageFault.
THEOREM FramesAlwaysExclusive == Spec => []FramesExclusive
BY SpacesAlwaysSound, SoundIsExclusive, PTL

-----------------------------------------------------------------------------
(* MemoryIsPrivate. *)

Holds(a, as, m) == \A p \in DOMAIN as.leaf : m[as.leaf[p].frame] = Image(a, p)

\* What a running application has, and what its next page faults bring.
Given(t) ==
  /\ \A p \in DOMAIN space[t].leaf :
       /\ p \in DOMAIN ref[t] /\ mem[Leaf(t, p).frame] = ref[t][p]
       /\ p < dpEnd[t] \/ fmBegin[t] <= p
  /\ \A p \in Pages : ~Present(t, p) =>
       /\ InDemandRange(t, p) => p \in DOMAIN ref[t] /\ ref[t][p] = Zero
       /\ InFileMap(t, p) => p \in DOMAIN ref[t] /\ ref[t][p] = FileData(p)

\* Images hold the contents of their files, for the applications to be too.
MInv ==
  /\ ref = [t \in Tasks |-> ref[t]]
  /\ \A a \in Apps : Holds(a, loads[a], mem)
  /\ \A t \in Tasks : /\ pc[t] \in {"record", "stack"} => Holds(app[t], space[t], mem)
                      /\ Running(t) => Given(t)

\* A step of task t after which the pages of the others hold what they held.
LEMMA MemoryStep ==
  ASSUME IInv, MInv, NEW t \in Tasks,
         \A y \in Others(t) : \A p \in DOMAIN y.leaf : mem'[y.leaf[p].frame] = mem[y.leaf[p].frame],
         \A v \in Tasks \ {t} : /\ space'[v] = space[v] /\ pc'[v] = pc[v] /\ app'[v] = app[v]
                                /\ dpEnd'[v] = dpEnd[v] /\ fmBegin'[v] = fmBegin[v] /\ ref'[v] = ref[v],
         ref' = [v \in Tasks |-> ref'[v]],
         \A a \in Apps : loads'[a] = loads[a] \/ Holds(a, loads'[a], mem'),
         pc'[t] \in {"record", "stack"} => Holds(app'[t], space'[t], mem'),
         pc'[t] = "running" => Given(t)'
  PROVE  MInv'
<1>1. \A a \in Apps : Holds(a, loads'[a], mem')
  <2>1. \A a \in Apps : loads[a] \in Others(t)
    BY DEF Others
  <2>2. \A a \in Apps : Holds(a, loads[a], mem')
    BY <2>1 DEF Holds, MInv
  <2> QED BY <2>2
<1>2. ASSUME NEW v \in Tasks \ {t}
      PROVE  /\ pc'[v] \in {"record", "stack"} => Holds(app'[v], space'[v], mem')
             /\ Running(v)' => Given(v)'
  <2>1. \A p \in DOMAIN space[v].leaf : mem'[space[v].leaf[p].frame] = mem[space[v].leaf[p].frame]
    BY DEF Others
  <2>2. ASSUME pc[v] \in {"record", "stack"} PROVE Holds(app[v], space[v], mem')
    BY <2>1, <2>2 DEF MInv, Holds
  <2>3. ASSUME Running(v) PROVE Given(v)'
    BY <2>1, <2>3 DEF MInv, Given, Leaf, Present, InDemandRange, InFileMap
  <2> QED BY <2>2, <2>3 DEF Running
<1> QED BY <1>1, <1>2 DEF MInv, Running

\* Frames that were free are in no page of any address space.
LEMMA FreeUnseen ==
  ASSUME IInv, NEW m, \A f \in Frames \ free : m[f] = mem[f], NEW y \in Spaces
  PROVE  \A p \in DOMAIN y.leaf : m[y.leaf[p].frame] = mem[y.leaf[p].frame]
<1>1. IsSpace(y) /\ Reach(y) \cap free = {}
  BY DEF IInv, Exclusive
<1>2. \A p \in DOMAIN y.leaf : y.leaf[p].frame \in Reach(y) /\ y.leaf[p].frame \in Frames
  BY <1>1, ReachIs, ReachTyped
<1> QED BY <1>1, <1>2

\* A copy of the page maps of an image shows what the image holds.
LEMMA CopyHolds ==
  ASSUME IInv, NEW t \in Tasks, NEW src \in Spaces, NEW a, Holds(a, src, mem), NEW u, Copies(State(t), u, src)
  PROVE  /\ Holds(a, u.as, u.mem)
         /\ \A f \in Frames \ free : u.mem[f] = mem[f]
<1>1. /\ \A f \in Frames \ free : u.mem[f] = mem[f]
      /\ \A p \in DOMAIN u.as.leaf : p \in DOMAIN src.leaf /\ u.as.leaf[p].frame = src.leaf[p].frame
  BY StateOf DEF Copies
<1>2. \A p \in DOMAIN src.leaf : u.mem[src.leaf[p].frame] = mem[src.leaf[p].frame]
  BY <1>1, FreeUnseen
<1> QED BY <1>1, <1>2 DEF Holds

LEMMA OthersAreSpaces == ASSUME NEW t \in Tasks PROVE Others(t) \subseteq Spaces
BY SpacesIs

LEMMA LoadAppHolds ==
  ASSUME IInv, MInv, NEW t \in Tasks, NEW a \in Apps, LoadApp(t, a)
  PROVE  MInv'
<1>1. PICK u : \E there \in {"load", "stack"} :
        /\ Proceed(t, u, there)
        /\ Halts(t, u) \/ (Copies(State(t), u, loads[a]) /\ (there = "load" => DOMAIN u.as.leaf = {}))
  BY LoadAppDoes
<1>2. PICK there \in {"load", "stack"} : Proceed(t, u, there)
  BY <1>1
<1>3. /\ space' = [space EXCEPT ![t] = u.as] /\ pc' = [pc EXCEPT ![t] = IF u.ok THEN there ELSE "idle"]
      /\ mem' = u.mem /\ app' = [app EXCEPT ![t] = a] /\ UNCHANGED <<loads, dpEnd, fmBegin, ref>>
  BY <1>2 DEF Proceed, Commit, Goto, LoadApp
<1>4. loads[a] \in Spaces /\ Holds(a, loads[a], mem)
  BY DEF Spaces, MInv
<1>5. /\ \A f \in Frames \ free : mem'[f] = mem[f]
      /\ u.ok => Holds(a, u.as, mem')
  BY <1>1, <1>3, <1>4, CopyHolds DEF Halts
<1>6. \A y \in Others(t) : \A p \in DOMAIN y.leaf : mem'[y.leaf[p].frame] = mem[y.leaf[p].frame]
  BY <1>5, OthersAreSpaces, FreeUnseen
<1>7. /\ space'[t] = u.as /\ app'[t] = a /\ pc'[t] = IF u.ok THEN there ELSE "idle"
      /\ \A v \in Tasks \ {t} : space'[v] = space[v] /\ pc'[v] = pc[v] /\ app'[v] = app[v]
  BY <1>3 DEF IInv, Typed, AreFunctions
<1>8. pc'[t] \in {"record", "stack"} => Holds(app'[t], space'[t], mem')
  BY <1>5, <1>7
<1>9. pc'[t] # "running" /\ ref' = [v \in Tasks |-> ref'[v]]
  BY <1>2, <1>3, <1>7 DEF MInv
<1> QED BY <1>3, <1>6, <1>7, <1>8, <1>9, MemoryStep

LEMMA LoadELFHolds ==
  ASSUME IInv, MInv, NEW t \in Tasks, LoadELF(t)
  PROVE  MInv'
<1>1. PICK u : /\ Proceed(t, u, "record")
               /\ \/ Halts(t, u)
                  \/ /\ Grows(State(t), u)
                     /\ u.ok => \A p \in DOMAIN u.as.leaf : u.mem[u.as.leaf[p].frame] = Image(app[t], p)
  BY LoadELFDoes
<1>2. /\ space' = [space EXCEPT ![t] = u.as] /\ pc' = [pc EXCEPT ![t] = IF u.ok THEN "record" ELSE "idle"]
      /\ mem' = u.mem /\ UNCHANGED <<loads, app, dpEnd, fmBegin, ref>>
  BY <1>1 DEF Proceed, Commit, Goto, LoadELF
<1>3. /\ \A f \in Frames \ free : mem'[f] = mem[f]
      /\ u.ok => Holds(app[t], u.as, mem')
  BY <1>1, <1>2, StateOf DEF Halts, Grows, Holds
<1>4. \A y \in Others(t) : \A p \in DOMAIN y.leaf : mem'[y.leaf[p].frame] = mem[y.leaf[p].frame]
  BY <1>3, OthersAreSpaces, FreeUnseen
<1>5. /\ space'[t] = u.as /\ app'[t] = app[t] /\ pc'[t] = IF u.ok THEN "record" ELSE "idle"
      /\ \A v \in Tasks \ {t} : space'[v] = space[v] /\ pc'[v] = pc[v] /\ app'[v] = app[v]
  BY <1>2 DEF IInv, Typed, AreFunctions
<1>6. pc'[t] \in {"record", "stack"} => Holds(app'[t], space'[t], mem')
  BY <1>3, <1>5
<1>7. pc'[t] # "running" /\ ref' = [v \in Tasks |-> ref'[v]]
  BY <1>2, <1>5 DEF MInv
<1> QED BY <1>2, <1>4, <1>5, <1>6, <1>7, MemoryStep

LEMMA RecordAppHolds ==
  ASSUME IInv, MInv, NEW t \in Tasks, RecordApp(t)
  PROVE  MInv'
<1>1. PICK u : Proceed(t, u, "stack") /\ (Halts(t, u) \/ Copies(State(t), u, temp[t]))
  BY RecordAppDoes
<1>2. /\ space' = [space EXCEPT ![t] = u.as] /\ pc' = [pc EXCEPT ![t] = IF u.ok THEN "stack" ELSE "idle"]
      /\ mem' = u.mem /\ UNCHANGED <<app, dpEnd, fmBegin, ref>>
      /\ loads' = IF Loaded(app[t]) THEN loads ELSE [loads EXCEPT ![app[t]] = temp[t]]
  BY <1>1 DEF Proceed, Commit, Goto, RecordApp
<1>3. temp[t] \in Spaces /\ temp[t] = space[t] /\ Holds(app[t], temp[t], mem)
  BY DEF Spaces, MInv, IInv, Held, RecordApp
<1>4. /\ \A f \in Frames \ free : mem'[f] = mem[f]
      /\ u.ok => Holds(app[t], u.as, mem')
  BY <1>1, <1>2, <1>3, CopyHolds DEF Halts
<1>5. \A y \in Others(t) : \A p \in DOMAIN y.leaf : mem'[y.leaf[p].frame] = mem[y.leaf[p].frame]
  BY <1>4, OthersAreSpaces, FreeUnseen
<1>6. Holds(app[t], temp[t], mem')
  BY <1>3, <1>4, FreeUnseen DEF Holds
<1>7. \A a \in Apps : loads'[a] = loads[a] \/ Holds(a, loads'[a], mem')
  BY <1>2, <1>6 DEF IInv, Typed, AreFunctions
<1>8. /\ space'[t] = u.as /\ app'[t] = app[t] /\ pc'[t] = IF u.ok THEN "stack" ELSE "idle"
      /\ \A v \in Tasks \ {t} : space'[v] = space[v] /\ pc'[v] = pc[v] /\ app'[v] = app[v]
  BY <1>2 DEF IInv, Typed, AreFunctions
<1>9. pc'[t] \in {"record", "stack"} => Holds(app'[t], space'[t], mem')
  BY <1>4, <1>8
<1>10. pc'[t] # "running" /\ ref' = [v \in Tasks |-> ref'[v]]
  BY <1>2, <1>8 DEF MInv
<1> QED BY <1>2, <1>5, <1>7, <1>8, <1>9, <1>10, MemoryStep

LEMMA CallAppHolds ==
  ASSUME IInv, MInv, NEW t \in Tasks, CallApp(t)
  PROVE  MInv'
<1>1. PICK u : /\ Proceed(t, u, "running")
               /\ Grows(State(t), u)
               /\ \A p \in DOMAIN space[t].leaf : p \in DOMAIN u.as.leaf /\ u.as.leaf[p] = space[t].leaf[p]
               /\ \A p \in DOMAIN u.as.leaf : p \notin DOMAIN space[t].leaf =>
                    /\ p \in {StackPage, ArgsPage} /\ u.as.leaf[p].w
                    /\ u.ok => u.mem[u.as.leaf[p].frame] = IF p = ArgsPage THEN Args ELSE Zero
  BY CallAppDoes
<1> DEFINE r == With(With([p \in ImagePages |-> Image(app[t], p)], StackPage, Zero), ArgsPage, Args)
<1>2. /\ space' = [space EXCEPT ![t] = u.as] /\ pc' = [pc EXCEPT ![t] = IF u.ok THEN "running" ELSE "idle"]
      /\ mem' = u.mem /\ UNCHANGED <<loads, app>>
      /\ dpEnd' = [dpEnd EXCEPT ![t] = ImageSize] /\ fmBegin' = [fmBegin EXCEPT ![t] = StackPage]
      /\ ref' = [ref EXCEPT ![t] = r]
  BY <1>1 DEF Proceed, Commit, Goto, CallApp
<1>3. /\ ImageSize \in Nat /\ StackPage \in Nat /\ ArgsPage \in Nat /\ StackPage # ArgsPage /\ StackPage <= ArgsPage
      /\ StackPage \notin ImagePages /\ ArgsPage \notin ImagePages
      /\ \A p \in ImagePages : p \in Nat /\ p < ImageSize
  BY PagingAssumption DEF StackPage, ArgsPage, ImagePages
<1>4. /\ DOMAIN r = ImagePages \cup {StackPage, ArgsPage}
      /\ r[StackPage] = Zero /\ r[ArgsPage] = Args /\ \A p \in ImagePages : r[p] = Image(app[t], p)
  BY <1>3 DEF With
<1> HIDE DEF r
<1>5. /\ \A v \in Tasks \ {t} : /\ space'[v] = space[v] /\ pc'[v] = pc[v] /\ app'[v] = app[v]
                                /\ dpEnd'[v] = dpEnd[v] /\ fmBegin'[v] = fmBegin[v] /\ ref'[v] = ref[v]
      /\ space'[t] = u.as /\ pc'[t] = IF u.ok THEN "running" ELSE "idle"
      /\ dpEnd'[t] = ImageSize /\ fmBegin'[t] = StackPage /\ ref'[t] = r
      /\ ref' = [v \in Tasks |-> ref'[v]]
  BY <1>2 DEF IInv, Typed, AreFunctions, MInv
<1>6. \A f \in Frames \ free : mem'[f] = mem[f]
  BY <1>1, <1>2, StateOf DEF Grows
<1>7. \A y \in Others(t) : \A p \in DOMAIN y.leaf : mem'[y.leaf[p].frame] = mem[y.leaf[p].frame]
  BY <1>6, OthersAreSpaces, FreeUnseen
<1>8. ASSUME u.ok PROVE Given(t)'
  <2>1. \A p \in DOMAIN space[t].leaf : p \in ImagePages /\ mem'[space[t].leaf[p].frame] = Image(app[t], p)
    <3>1. ImageOnly(space[t]) /\ Holds(app[t], space[t], mem) /\ space[t] \in Spaces
      BY DEF CallApp, IInv, Shape, MInv, Spaces
    <3> QED BY <1>6, <3>1, FreeUnseen DEF ImageOnly, Holds
  <2>2. ASSUME NEW p \in DOMAIN u.as.leaf
        PROVE  p \in DOMAIN r /\ mem'[u.as.leaf[p].frame] = r[p] /\ (p < ImageSize \/ StackPage <= p)
    <3>1. CASE p \in DOMAIN space[t].leaf
      BY <1>1, <1>3, <1>4, <2>1, <3>1
    <3>2. CASE p \notin DOMAIN space[t].leaf
      BY <1>1, <1>2, <1>3, <1>4, <1>8, <3>2
    <3> QED BY <3>1, <3>2
  <2>3. \A p \in Pages : ~InDemandRange(t, p)' /\ ~InFileMap(t, p)'
    BY <1>3, <1>5 DEF InDemandRange, InFileMap, Pages
  <2> QED BY <1>5, <2>2, <2>3 DEF Given, Leaf
<1>9. pc'[t] \notin {"record", "stack"} /\ (pc'[t] = "running" => Given(t)')
  BY <1>5, <1>8
<1> QED BY <1>2, <1>5, <1>7, <1>9, MemoryStep

LEMMA PageFaultHolds ==
  ASSUME IInv, MInv, NEW t \in Tasks, NEW p \in Pages, PageFault(t, p)
  PROVE  MInv'
<1>1. PICK u : /\ Commit(t, u) /\ Goto(t, IF u.ok THEN "running" ELSE "exiting")
               /\ \/ Halts(t, u)
                  \/ Present(t, p) /\ ~Leaf(t, p).w /\ Unshares(State(t), u, p)
                  \/ /\ ~Present(t, p) /\ (InDemandRange(t, p) \/ InFileMap(t, p)) /\ p \notin ImagePages
                     /\ Grows(State(t), u)
                     /\ \A q \in DOMAIN space[t].leaf : q \in DOMAIN u.as.leaf /\ u.as.leaf[q] = space[t].leaf[q]
                     /\ \A q \in DOMAIN u.as.leaf : q \notin DOMAIN space[t].leaf =>
                          /\ q = p /\ u.as.leaf[p].w
                          /\ u.ok => u.mem[u.as.leaf[p].frame] = IF InDemandRange(t, p) THEN Zero ELSE FileData(p)
  BY PageFaultDoes
<1>2. /\ space' = [space EXCEPT ![t] = u.as] /\ pc' = [pc EXCEPT ![t] = IF u.ok THEN "running" ELSE "exiting"]
      /\ mem' = u.mem /\ UNCHANGED <<loads, app, dpEnd, fmBegin, ref>>
  BY <1>1 DEF Commit, Goto, PageFault
<1>3. /\ \A v \in Tasks \ {t} : space'[v] = space[v] /\ pc'[v] = pc[v]
      /\ space'[t] = u.as /\ pc'[t] = IF u.ok THEN "running" ELSE "exiting"
      /\ ref' = [v \in Tasks |-> ref'[v]]
  BY <1>2 DEF IInv, Typed, AreFunctions, MInv
<1>4. \A f \in Frames \ free : mem'[f] = mem[f]
  BY <1>1, <1>2, StateOf DEF Halts, Unshares, Grows
<1>5. \A y \in Others(t) : \A q \in DOMAIN y.leaf : mem'[y.leaf[q].frame] = mem[y.leaf[q].frame]
  BY <1>4, OthersAreSpaces, FreeUnseen
<1>6. Given(t) /\ space[t] \in Spaces
  BY DEF MInv, PageFault, Spaces
<1>7. \A q \in DOMAIN space[t].leaf : mem'[space[t].leaf[q].frame] = ref[t][q]
  BY <1>4, <1>6, FreeUnseen DEF Given, Leaf
<1>8. ASSUME u.ok PROVE Given(t)'
  <2>1. CASE Present(t, p) /\ Unshares(State(t), u, p)
    <3>1. /\ DOMAIN u.as.leaf = DOMAIN space[t].leaf /\ p \in DOMAIN space[t].leaf
          /\ \A q \in DOMAIN space[t].leaf : q # p => u.as.leaf[q] = space[t].leaf[q]
          /\ mem'[u.as.leaf[p].frame] = mem[space[t].leaf[p].frame]
      BY <1>2, <2>1, StateOf DEF Unshares, Present
    <3>2. \A q \in DOMAIN u.as.leaf : q \in DOMAIN ref[t] /\ mem'[u.as.leaf[q].frame] = ref[t][q]
                                        /\ (q < dpEnd[t] \/ fmBegin[t] <= q)
      BY <1>6, <1>7, <3>1 DEF Given, Leaf
    <3>3. \A q \in Pages : /\ Present(t, q)' = Present(t, q)
                            /\ InDemandRange(t, q)' = InDemandRange(t, q) /\ InFileMap(t, q)' = InFileMap(t, q)
      BY <1>2, <1>3, <3>1 DEF Present, InDemandRange, InFileMap
    <3>4. \A q \in Pages : ~Present(t, q)' =>
            /\ InDemandRange(t, q)' => q \in DOMAIN ref'[t] /\ ref'[t][q] = Zero
            /\ InFileMap(t, q)' => q \in DOMAIN ref'[t] /\ ref'[t][q] = FileData(q)
      BY <1>2, <1>6, <3>3 DEF Given
    <3> QED BY <1>2, <1>3, <3>2, <3>4 DEF Given, Leaf
  <2>2. CASE /\ ~Present(t, p) /\ (InDemandRange(t, p) \/ InFileMap(t, p))
             /\ \A q \in DOMAIN space[t].leaf : q \in DOMAIN u.as.leaf /\ u.as.leaf[q] = space[t].leaf[q]
             /\ \A q \in DOMAIN u.as.leaf : q \notin DOMAIN space[t].leaf =>
                  /\ q = p
                  /\ u.ok => u.mem[u.as.leaf[p].frame] = IF InDemandRange(t, p) THEN Zero ELSE FileData(p)
    <3>1. p \in DOMAIN ref[t] /\ ref[t][p] = IF InDemandRange(t, p) THEN Zero ELSE FileData(p)
      BY <1>6, <2>2 DEF Given
    <3>2. p < dpEnd[t] \/ fmBegin[t] <= p
      BY <2>2 DEF InDemandRange, InFileMap
    <3>3. ASSUME NEW q \in DOMAIN u.as.leaf
          PROVE  /\ q \in DOMAIN ref[t] /\ mem'[u.as.leaf[q].frame] = ref[t][q]
                 /\ q < dpEnd[t] \/ fmBegin[t] <= q
      <4>1. CASE q \in DOMAIN space[t].leaf
        BY <1>6, <1>7, <2>2, <4>1 DEF Given
      <4>2. CASE q \notin DOMAIN space[t].leaf
        BY <1>2, <1>8, <2>2, <3>1, <3>2, <4>2
      <4> QED BY <4>1, <4>2
    <3>4. \A q \in Pages : ~Present(t, q)' => ~Present(t, q)
      BY <1>3, <2>2 DEF Present
    <3> QED BY <1>2, <1>3, <1>6, <3>3, <3>4 DEF Given, Leaf, InDemandRange, InFileMap
  <2> QED BY <1>1, <1>8, <2>1, <2>2 DEF Halts
<1>9. pc'[t] \notin {"record", "stack"} /\ (pc'[t] = "running" => Given(t)')
  BY <1>3, <1>8
<1> QED BY <1>2, <1>3, <1>5, <1>9, MemoryStep

\* A store through a writable leaf is seen by its own application only.
LEMMA WriteHolds ==
  ASSUME IInv, MInv, KernelBuffers \cap ImagePages = {}, NEW t \in Tasks, NEW p,
         UserWrite(t, p) \/ KernelWrite(t, p)
  PROVE  MInv'
<1>1. PICK u : /\ Sound(u) /\ u.as = space[t] /\ p \in DOMAIN space[t].leaf
               /\ u.mem = [mem EXCEPT ![space[t].leaf[p].frame] = Data(t)]
               /\ mem' = u.mem /\ space' = [space EXCEPT ![t] = u.as]
  BY WriteDoes
<1>2. /\ pc[t] = "running" /\ UNCHANGED <<loads, pc, app, dpEnd, fmBegin>>
      /\ ref' = [ref EXCEPT ![t][p] = Data(t)]
  BY DEF UserWrite, KernelWrite, Running
<1>3. space[t].leaf[p].w
  BY <1>1, <1>2 DEF UserWrite, KernelWrite, Leaf, IInv, Shape
<1>4. PICK f : f = space[t].leaf[p].frame
  OBVIOUS
<1>5. space[t] \in Spaces /\ IsSpace(space[t]) /\ Single(space[t]) /\ Alone(t)
  BY <1>2 DEF Spaces, IInv, Exclusive, Held
<1>6. f \in Frames /\ f \in OwnFrames(space[t])
  BY <1>1, <1>3, <1>4, <1>5, OwnIs DEF IsSpace, Leaves
<1>7. mem'[f] = Data(t) /\ \A g \in Frames : g # f => mem'[g] = mem[g]
  BY <1>1, <1>4, <1>6 DEF IInv, Typed
<1>8. \A y \in Others(t) : \A q \in DOMAIN y.leaf : mem'[y.leaf[q].frame] = mem[y.leaf[q].frame]
  <2> SUFFICES ASSUME NEW y \in Others(t), NEW q \in DOMAIN y.leaf
               PROVE  mem'[y.leaf[q].frame] = mem[y.leaf[q].frame]
    OBVIOUS
  <2>1. y \in Spaces /\ y.root # space[t].root /\ IsSpace(y)
    BY <1>5, OthersAreSpaces DEF Alone, IInv, Exclusive
  <2>2. OwnFrames(space[t]) \cap Reach(y) = {}
    BY <1>5, <2>1 DEF IInv, Exclusive
  <2>3. y.leaf[q].frame \in Reach(y) /\ y.leaf[q].frame \in Frames
    BY <2>1, ReachIs, ReachTyped
  <2> QED BY <1>6, <1>7, <2>2, <2>3
<1>9. /\ space' = space /\ Given(t)
      /\ \A q \in DOMAIN space[t].leaf : space[t].leaf[q].frame \in Frames /\ (q # p => space[t].leaf[q].frame # f)
  BY <1>1, <1>2, <1>4, <1>5 DEF IInv, Typed, AreFunctions, MInv, Running, IsSpace, Leaves, Single
<1>10. /\ \A v \in Tasks \ {t} : ref'[v] = ref[v]
       /\ DOMAIN ref'[t] = DOMAIN ref[t] /\ \A q \in DOMAIN ref[t] : ref'[t][q] = IF q = p THEN Data(t) ELSE ref[t][q]
       /\ ref' = [v \in Tasks |-> ref'[v]]
  <2>1. ref' = [ref EXCEPT ![t] = [ref[t] EXCEPT ![p] = Data(t)]]
    BY <1>2
  <2>2. ref'[t] = [ref[t] EXCEPT ![p] = Data(t)]
    BY <2>1 DEF MInv
  <2> QED BY <2>1, <2>2 DEF MInv
<1>11. Given(t)'
  <2>1. \A q \in DOMAIN space[t].leaf :
          /\ q \in DOMAIN ref'[t] /\ mem'[space[t].leaf[q].frame] = ref'[t][q]
          /\ q < dpEnd[t] \/ fmBegin[t] <= q
    BY <1>4, <1>7, <1>9, <1>10 DEF Given, Leaf
  <2>2. \A q \in Pages : ~Present(t, q) =>
          /\ InDemandRange(t, q) => q \in DOMAIN ref'[t] /\ ref'[t][q] = Zero
          /\ InFileMap(t, q) => q \in DOMAIN ref'[t] /\ ref'[t][q] = FileData(q)
    BY <1>1, <1>9, <1>10 DEF Given, Present
  <2> QED BY <1>2, <1>9, <2>1, <2>2 DEF Given, Leaf, Present, InDemandRange, InFileMap
<1>12. pc'[t] = "running"
  BY <1>2
<1> QED BY <1>2, <1>8, <1>9, <1>10, <1>11, <1>12, MemoryStep

LEMMA DemandPagesHolds ==
  ASSUME IInv, MInv, NEW t \in Tasks, DemandPages(t)
  PROVE  MInv'
<1>1. /\ pc[t] = "running" /\ dpEnd[t] < fmBegin[t] /\ UNCHANGED <<mem, space, loads, pc, app, fmBegin>>
      /\ dpEnd' = [dpEnd EXCEPT ![t] = @ + 1] /\ ref' = [ref EXCEPT ![t] = With(@, dpEnd[t], Zero)]
  BY DEF DemandPages, Running
<1>2. /\ \A v \in Tasks \ {t} : dpEnd'[v] = dpEnd[v] /\ ref'[v] = ref[v]
      /\ dpEnd'[t] = dpEnd[t] + 1 /\ ref'[t] = With(ref[t], dpEnd[t], Zero)
      /\ ref' = [v \in Tasks |-> ref'[v]]
  BY <1>1 DEF MInv, IInv, Typed
<1>3. /\ DOMAIN ref'[t] = DOMAIN ref[t] \cup {dpEnd[t]} /\ ref'[t][dpEnd[t]] = Zero
      /\ \A q \in DOMAIN ref[t] : q # dpEnd[t] => ref'[t][q] = ref[t][q]
  BY <1>2 DEF With
<1>4. /\ Given(t) /\ dpEnd[t] \in Int /\ fmBegin[t] \in Int /\ dpEnd[t] >= ImageSize /\ ImageSize \in Int
      /\ DOMAIN space[t].leaf \subseteq Pages /\ Pages \subseteq Int
  <2>1. IsSpace(space[t])
    BY DEF IInv, Exclusive, Spaces
  <2> QED BY <1>1, <2>1, PagingAssumption DEF MInv, Running, IInv, Typed, StackPage, IsSpace, Pages, ArgsPage
<1>5. \A q \in DOMAIN space[t].leaf :
        /\ q \in DOMAIN ref'[t] /\ mem[space[t].leaf[q].frame] = ref'[t][q]
        /\ q < dpEnd[t] + 1 \/ fmBegin[t] <= q
  <2> SUFFICES ASSUME NEW q \in DOMAIN space[t].leaf
               PROVE  /\ q \in DOMAIN ref'[t] /\ mem[space[t].leaf[q].frame] = ref'[t][q]
                      /\ q < dpEnd[t] + 1 \/ fmBegin[t] <= q
    OBVIOUS
  <2>1. /\ q \in DOMAIN ref[t] /\ mem[space[t].leaf[q].frame] = ref[t][q]
        /\ q < dpEnd[t] \/ fmBegin[t] <= q
    BY <1>4 DEF Given, Leaf
  <2>2. q \in Int
    BY <1>4
  <2>3. q # dpEnd[t] /\ (q < dpEnd[t] + 1 \/ fmBegin[t] <= q)
    BY <1>1, <1>4, <2>1, <2>2
  <2> QED BY <1>3, <2>1, <2>3
<1>6. \A q \in Pages : ~Present(t, q) =>
        /\ ImageSize <= q /\ q < dpEnd[t] + 1 => q \in DOMAIN ref'[t] /\ ref'[t][q] = Zero
        /\ InFileMap(t, q) => q \in DOMAIN ref'[t] /\ ref'[t][q] = FileData(q)
  <2> SUFFICES ASSUME NEW q \in Pages, ~Present(t, q)
               PROVE  /\ ImageSize <= q /\ q < dpEnd[t] + 1 => q \in DOMAIN ref'[t] /\ ref'[t][q] = Zero
                      /\ InFileMap(t, q) => q \in DOMAIN ref'[t] /\ ref'[t][q] = FileData(q)
    OBVIOUS
  <2>1. /\ InDemandRange(t, q) => q \in DOMAIN ref[t] /\ ref[t][q] = Zero
        /\ InFileMap(t, q) => q \in DOMAIN ref[t] /\ ref[t][q] = FileData(q) /\ q # dpEnd[t]
    BY <1>1, <1>4 DEF Given, InFileMap
  <2> QED BY <1>3, <1>4, <2>1 DEF InDemandRange
<1>7. Given(t)'
  BY <1>1, <1>2, <1>5, <1>6 DEF Given, Leaf, Present, InDemandRange, InFileMap
<1>8. pc'[t] = "running"
  BY <1>1
<1> QED BY <1>1, <1>2, <1>7, <1>8, MemoryStep

LEMMA MapFileHolds ==
  ASSUME IInv, MInv, NEW t \in Tasks, MapFile(t)
  PROVE  MInv'
<1> DEFINE n == fmBegin[t] - 1
<1>1. /\ pc[t] = "running" /\ dpEnd[t] < fmBegin[t] /\ UNCHANGED <<mem, space, loads, pc, app, dpEnd>>
      /\ fmBegin' = [fmBegin EXCEPT ![t] = @ - 1] /\ ref' = [ref EXCEPT ![t] = With(@, n, FileData(n))]
  BY DEF MapFile, Running
<1>2. /\ \A v \in Tasks \ {t} : fmBegin'[v] = fmBegin[v] /\ ref'[v] = ref[v]
      /\ fmBegin'[t] = n /\ ref'[t] = With(ref[t], n, FileData(n))
      /\ ref' = [v \in Tasks |-> ref'[v]]
  BY <1>1 DEF MInv, IInv, Typed
<1>3. /\ DOMAIN ref'[t] = DOMAIN ref[t] \cup {n} /\ ref'[t][n] = FileData(n)
      /\ \A q \in DOMAIN ref[t] : q # n => ref'[t][q] = ref[t][q]
  BY <1>2 DEF With
<1>4. /\ Given(t) /\ dpEnd[t] \in Int /\ fmBegin[t] \in Int /\ n \in Int /\ dpEnd[t] <= n /\ n < fmBegin[t]
      /\ DOMAIN space[t].leaf \subseteq Pages /\ Pages \subseteq Int
      /\ \A q \in Int : n <= q => q = n \/ fmBegin[t] <= q
  <2>1. IsSpace(space[t])
    BY DEF IInv, Exclusive, Spaces
  <2>2. dpEnd[t] \in Int /\ fmBegin[t] \in Int
    BY PagingAssumption DEF IInv, Typed, StackPage
  <2> QED BY <1>1, <2>1, <2>2, PagingAssumption DEF MInv, Running, StackPage, IsSpace, Pages, ArgsPage
<1>5. \A q \in DOMAIN space[t].leaf :
        /\ q \in DOMAIN ref'[t] /\ mem[space[t].leaf[q].frame] = ref'[t][q]
        /\ q < dpEnd[t] \/ n <= q
  <2> SUFFICES ASSUME NEW q \in DOMAIN space[t].leaf
               PROVE  /\ q \in DOMAIN ref'[t] /\ mem[space[t].leaf[q].frame] = ref'[t][q]
                      /\ q < dpEnd[t] \/ n <= q
    OBVIOUS
  <2> HIDE DEF n
  <2>1. /\ q \in DOMAIN ref[t] /\ mem[space[t].leaf[q].frame] = ref[t][q]
        /\ q < dpEnd[t] \/ fmBegin[t] <= q
    BY <1>4 DEF Given, Leaf
  <2>2. q \in Int
    BY <1>4
  <2>3. q # n /\ (q < dpEnd[t] \/ n <= q)
    BY <1>1, <1>4, <2>1, <2>2
  <2> QED BY <1>3, <2>1, <2>3
<1>6. \A q \in Pages : ~Present(t, q) =>
        /\ InDemandRange(t, q) => q \in DOMAIN ref'[t] /\ ref'[t][q] = Zero
        /\ n <= q /\ q < StackPage => q \in DOMAIN ref'[t] /\ ref'[t][q] = FileData(q)
  <2> SUFFICES ASSUME NEW q \in Pages, ~Present(t, q)
               PROVE  /\ InDemandRange(t, q) => q \in DOMAIN ref'[t] /\ ref'[t][q] = Zero
                      /\ n <= q /\ q < StackPage => q \in DOMAIN ref'[t] /\ ref'[t][q] = FileData(q)
    OBVIOUS
  <2> HIDE DEF n
  <2>1. /\ InDemandRange(t, q) => q \in DOMAIN ref[t] /\ ref[t][q] = Zero /\ q # n
        /\ InFileMap(t, q) => q \in DOMAIN ref[t] /\ ref[t][q] = FileData(q)
    BY <1>1, <1>4 DEF Given, InDemandRange
  <2> QED BY <1>3, <1>4, <2>1 DEF InFileMap
<1> HIDE DEF n
<1>7. Given(t)'
  BY <1>1, <1>2, <1>5, <1>6 DEF Given, Leaf, Present, InDemandRange, InFileMap
<1>8. pc'[t] = "running"
  BY <1>1
<1> QED BY <1>1, <1>2, <1>7, <1>8, MemoryStep

LEMMA EndHolds ==
  ASSUME IInv, MInv, NEW t \in Tasks, ExitApp(t) \/ Clean(t)
  PROVE  MInv'
<1>1. mem' = mem /\ UNCHANGED <<loads, app, dpEnd, fmBegin>>
  BY CleanDoes DEF ExitApp, Clean
<1>2. PICK at \in {"idle", "exiting"} : pc' = [pc EXCEPT ![t] = at]
  BY CleanDoes DEF ExitApp, Goto
<1>3. /\ \A v \in Tasks \ {t} : space'[v] = space[v] /\ ref'[v] = ref[v]
      /\ ref' = [v \in Tasks |-> ref'[v]]
  <2>1. CASE ExitApp(t)
    BY <2>1 DEF ExitApp, MInv
  <2>2. CASE Clean(t)
    BY <2>2, CleanDoes DEF Clean, MInv, IInv, Typed, AreFunctions
  <2> QED BY <2>1, <2>2
<1>4. /\ \A v \in Tasks \ {t} : pc'[v] = pc[v]
      /\ pc'[t] \notin {"record", "stack", "running"}
  BY <1>2 DEF IInv, Typed
<1> QED BY <1>1, <1>3, <1>4, MemoryStep

LEMMA InitHolds == Init => MInv
BY NoSpaceIs DEF Init, MInv, Holds, Running

LEMMA StutterHolds == ASSUME MInv, UNCHANGED vars PROVE MInv'
BY DEF vars, MInv, Running, Given, Leaf, Present, InDemandRange, InFileMap

LEMMA StepHolds ==
  ASSUME IInv, MInv, KernelBuffers \cap ImagePages = {}, [Next]_vars
  PROVE  MInv'
<1>1. ASSUME NEW t \in Tasks, NEW a \in Apps, LoadApp(t, a) PROVE MInv'
  BY <1>1, LoadAppHolds
<1>2. ASSUME NEW t \in Tasks, LoadELF(t) PROVE MInv'
  BY <1>2, LoadELFHolds
<1>3. ASSUME NEW t \in Tasks, RecordApp(t) PROVE MInv'
  BY <1>3, RecordAppHolds
<1>4. ASSUME NEW t \in Tasks, CallApp(t) PROVE MInv'
  BY <1>4, CallAppHolds
<1>5. ASSUME NEW t \in Tasks, NEW p \in Pages, UserWrite(t, p) \/ KernelWrite(t, p) PROVE MInv'
  BY <1>5, WriteHolds
<1>6. ASSUME NEW t \in Tasks, NEW p \in Pages, PageFault(t, p) PROVE MInv'
  BY <1>6, PageFaultHolds
<1>7. ASSUME NEW t \in Tasks, DemandPages(t) PROVE MInv'
  BY <1>7, DemandPagesHolds
<1>8. ASSUME NEW t \in Tasks, MapFile(t) PROVE MInv'
  BY <1>8, MapFileHolds
<1>9. ASSUME NEW t \in Tasks, ExitApp(t) \/ Clean(t) PROVE MInv'
  BY <1>9, EndHolds
<1>10. CASE UNCHANGED vars
  BY <1>10, StutterHolds
<1> QED BY <1>1, <1>2, <1>3, <1>4, <1>5, <1>6, <1>7, <1>8, <1>9, <1>10 DEF Next

\* As long as the kernel stores only into buffers outside the shared image (with
\* CR0.WP clear its stores bypass the read-only leaves), every mapped page of a
\* running application holds what the application was given or put there: no
\* interleaving of copy on write, loading and cleaning lets one application's
\* pages show through in another, nor in the image kept for the next run.
THEOREM MemoryAlwaysPrivate ==
  ASSUME KernelBuffers \cap ImagePages = {}
  PROVE  Spec => []MemoryIsPrivate
<1>1. Init => IInv /\ MInv
  BY InitSound, InitHolds
<1>2. IInv /\ MInv /\ [Next]_vars => (IInv /\ MInv)'
  BY StepKeeps, StepHolds
<1>3. MInv => MemoryIsPrivate
  BY DEF MInv, MemoryIsPrivate, Given
<1> QED BY <1>1, <1>2, <1>3, PTL DEF Spec

-----------------------------------------------------------------------------
(* NoLeakWithoutError. *)

\* A read-only page of an application is a page of an image that is kept.
Shared(as, L) == \A p \in DOMAIN as.leaf : ~as.leaf[p].w => \E x \in L : as.leaf[p].frame \in Reach(x)

Images == {loads[a] : a \in Apps}

LInv ==
  (~failed /\ ~doubled) =>
    /\ Frames \ free = UNION {Reach(as) : as \in Spaces}
    /\ \A t \in Tasks : /\ pc[t] = "idle" => space[t] = NoSpace
                        /\ pc[t] \in {"stack", "running", "exiting"} => Shared(space[t], Images)

\* A step of task t that loses no frame, unless it records an error.
LEMMA LeakStep ==
  ASSUME IInv, IInv', LInv, NEW t \in Tasks, NEW x, NEW at,
         space' = [space EXCEPT ![t] = x], pc' = [pc EXCEPT ![t] = at],
         \A v \in Tasks \ {t} : temp'[v] = temp[v],
         \A a \in Apps : loads'[a] = loads[a] \/ loads[a] = NoSpace,
         ~failed' => ~failed, ~doubled' => ~doubled,
         ~failed' /\ ~doubled' =>
           /\ at = "idle" => x = NoSpace
           /\ at \in {"stack", "running", "exiting"} => Shared(x, Images')
           /\ free \ free' \subseteq Reach(x)
           /\ \A f \in Reach(space[t]) : f \in free' \/ f \in Reach(x) \/ \E y \in Images' : f \in Reach(y)
  PROVE  LInv'
<1> SUFFICES ASSUME ~failed', ~doubled'
             PROVE  /\ Frames \ free' = UNION {Reach(as) : as \in Spaces'}
                    /\ \A v \in Tasks : /\ pc'[v] = "idle" => space'[v] = NoSpace
                                        /\ pc'[v] \in {"stack", "running", "exiting"} => Shared(space'[v], Images')
  BY DEF LInv
<1>1. /\ Frames \ free = UNION {Reach(as) : as \in Spaces}
      /\ \A v \in Tasks : /\ pc[v] = "idle" => space[v] = NoSpace
                          /\ pc[v] \in {"stack", "running", "exiting"} => Shared(space[v], Images)
  BY DEF LInv
<1>2. /\ space'[t] = x /\ pc'[t] = at
      /\ \A v \in Tasks \ {t} : space'[v] = space[v] /\ pc'[v] = pc[v]
  BY DEF IInv, Typed, AreFunctions
<1>3. \A y \in Images : \A f \in Reach(y) : \E z \in Images' : f \in Reach(z)
  <2> SUFFICES ASSUME NEW a \in Apps, NEW f \in Reach(loads[a]) PROVE \E z \in Images' : f \in Reach(z)
    BY DEF Images
  <2>1. loads'[a] = loads[a] /\ loads'[a] \in Images'
    BY NoSpaceIs DEF Images
  <2> QED BY <2>1
<1>4. \A v \in Tasks : /\ pc'[v] = "idle" => space'[v] = NoSpace
                       /\ pc'[v] \in {"stack", "running", "exiting"} => Shared(space'[v], Images')
  <2>1. ASSUME NEW v \in Tasks \ {t}, pc[v] \in {"stack", "running", "exiting"} PROVE Shared(space[v], Images')
    BY <1>1, <1>3, <2>1 DEF Shared
  <2> QED BY <1>1, <1>2, <2>1
<1>5. \A y \in Spaces' : Reach(y) \subseteq Frames \ free'
  <2>1. \A y \in Spaces' : IsSpace(y) /\ Reach(y) \cap free' = {}
    BY DEF IInv, Exclusive
  <2> QED BY <2>1, ReachTyped
<1>6. ASSUME NEW f \in Frames \ free' PROVE \E y \in Spaces' : f \in Reach(y)
  <2>0. x \in Spaces' /\ Images' \subseteq Spaces'
    BY <1>2 DEF Spaces, Images
  <2>1. CASE f \in free
    BY <1>6, <2>0, <2>1
  <2>2. CASE f \notin free
    <3>1. PICK y \in Spaces : f \in Reach(y)
      BY <1>1, <1>6, <2>2
    <3>2. CASE y = space[t]
      BY <1>6, <2>0, <3>1, <3>2
    <3>3. CASE y = temp[t]
      <4>1. y = space[t] \/ y = NoSpace
        BY <3>3 DEF IInv, Held
      <4> QED BY <1>6, <2>0, <3>1, <4>1, NoSpaceIs
    <3>4. CASE y \in Images
      BY <1>3, <2>0, <3>1, <3>4
    <3>5. CASE \E v \in Tasks \ {t} : y = space[v] \/ y = temp[v]
      <4>1. y \in Spaces'
        BY <1>2, <3>5 DEF Spaces
      <4> QED BY <3>1, <4>1
    <3> QED BY <3>2, <3>3, <3>4, <3>5 DEF Spaces, Images
  <2> QED BY <2>1, <2>2
<1>7. Frames \ free' = UNION {Reach(as) : as \in Spaces'}
  BY <1>5, <1>6
<1> QED BY <1>4, <1>7

LEMMA CopyShared ==
  ASSUME IInv, NEW t \in Tasks, NEW src, NEW u, Copies(State(t), u, src), NEW L, src \in L
  PROVE  Shared(u.as, L) /\ free \ u.free \subseteq Reach(u.as)
<1>1. \A p \in DOMAIN u.as.leaf : p \in DOMAIN src.leaf /\ u.as.leaf[p].frame = src.leaf[p].frame
  BY DEF Copies
<1>2. \A p \in DOMAIN src.leaf : src.leaf[p].frame \in Reach(src)
  BY ReachIs
<1>3. OwnFrames(u.as) = free \ u.free
  BY StateOf DEF Copies
<1> QED BY <1>1, <1>2, <1>3, OwnInReach DEF Shared

LEMMA LoadAppLeaks ==
  ASSUME IInv, IInv', LInv, NEW t \in Tasks, NEW a \in Apps, LoadApp(t, a)
  PROVE  LInv'
<1>1. PICK u : \E there \in {"load", "stack"} :
        /\ Proceed(t, u, there)
        /\ Halts(t, u) \/ (Copies(State(t), u, loads[a]) /\ (there = "load" => DOMAIN u.as.leaf = {}))
  BY LoadAppDoes
<1>2. PICK there \in {"load", "stack"} : Proceed(t, u, there)
  BY <1>1
<1>3. PICK at : at = IF u.ok THEN there ELSE "idle"
  OBVIOUS
<1>4. /\ space' = [space EXCEPT ![t] = u.as] /\ pc' = [pc EXCEPT ![t] = at]
      /\ free' = u.free /\ failed' = (failed \/ ~u.ok)
      /\ UNCHANGED <<temp, loads, doubled>> /\ pc[t] = "idle"
  BY <1>2, <1>3 DEF Proceed, Commit, Goto, LoadApp
<1>5. ASSUME ~failed', ~doubled'
      PROVE  /\ at = "idle" => u.as = NoSpace
             /\ at \in {"stack", "running", "exiting"} => Shared(u.as, Images')
             /\ free \ free' \subseteq Reach(u.as)
             /\ \A f \in Reach(space[t]) : f \in free' \/ f \in Reach(u.as) \/ \E y \in Images' : f \in Reach(y)
  <2>1. u.ok /\ ~failed /\ ~doubled /\ Copies(State(t), u, loads[a])
    BY <1>1, <1>4, <1>5 DEF Halts
  <2>2. space[t] = NoSpace
    BY <1>4, <2>1 DEF LInv
  <2>3. loads[a] \in Images'
    BY <1>4 DEF Images
  <2>4. Shared(u.as, Images') /\ free \ free' \subseteq Reach(u.as)
    BY <1>4, <2>1, <2>3, CopyShared
  <2>5. at # "idle"
    BY <1>2, <1>3, <2>1
  <2> QED BY <2>2, <2>4, <2>5, NoSpaceIs
<1> QED BY <1>4, <1>5, LeakStep

LEMMA LoadELFLeaks ==
  ASSUME IInv, IInv', LInv, NEW t \in Tasks, LoadELF(t)
  PROVE  LInv'
<1>1. PICK u : /\ Proceed(t, u, "record")
               /\ temp' = [temp EXCEPT ![t] = IF u.ok THEN u.as ELSE NoSpace]
               /\ Halts(t, u) \/ Grows(State(t), u)
  BY LoadELFDoes
<1>2. PICK at : at = IF u.ok THEN "record" ELSE "idle"
  OBVIOUS
<1>3. /\ space' = [space EXCEPT ![t] = u.as] /\ pc' = [pc EXCEPT ![t] = at]
      /\ free' = u.free /\ failed' = (failed \/ ~u.ok) /\ UNCHANGED <<loads, doubled>>
  BY <1>1, <1>2 DEF Proceed, Commit, Goto, LoadELF
<1>4. \A v \in Tasks \ {t} : temp'[v] = temp[v]
  BY <1>1 DEF IInv, Typed, AreFunctions
<1>5. ASSUME ~failed', ~doubled'
      PROVE  /\ at = "idle" => u.as = NoSpace
             /\ at \in {"stack", "running", "exiting"} => Shared(u.as, Images')
             /\ free \ free' \subseteq Reach(u.as)
             /\ \A f \in Reach(space[t]) : f \in free' \/ f \in Reach(u.as) \/ \E y \in Images' : f \in Reach(y)
  <2>1. u.ok /\ at = "record" /\ Grows(State(t), u)
    BY <1>1, <1>2, <1>3, <1>5 DEF Halts
  <2>2. Reach(u.as) = Reach(space[t]) \cup (free \ free')
    BY <1>3, <2>1, StateOf DEF Grows
  <2> QED BY <2>1, <2>2
<1> QED BY <1>3, <1>4, <1>5, LeakStep

LEMMA RecordAppLeaks ==
  ASSUME IInv, IInv', LInv, NEW t \in Tasks, RecordApp(t)
  PROVE  LInv'
<1>1. PICK u : Proceed(t, u, "stack") /\ (Halts(t, u) \/ Copies(State(t), u, temp[t]))
  BY RecordAppDoes
<1>2. PICK at : at = IF u.ok THEN "stack" ELSE "idle"
  OBVIOUS
<1>3. /\ space' = [space EXCEPT ![t] = u.as] /\ pc' = [pc EXCEPT ![t] = at]
      /\ free' = u.free /\ failed' = (failed \/ ~u.ok)
      /\ doubled' = (doubled \/ Loaded(app[t])) /\ temp' = [temp EXCEPT ![t] = NoSpace]
      /\ loads' = IF Loaded(app[t]) THEN loads ELSE [loads EXCEPT ![app[t]] = temp[t]]
  BY <1>1, <1>2 DEF Proceed, Commit, Goto, RecordApp
<1>4. temp[t] = space[t] /\ app[t] \in Apps
  BY DEF RecordApp, IInv, Held
<1>5. \A v \in Tasks \ {t} : temp'[v] = temp[v]
  BY <1>3 DEF IInv, Typed, AreFunctions
<1>6. \A a \in Apps : loads'[a] = loads[a] \/ loads[a] = NoSpace
  BY <1>3, <1>4 DEF Loaded, IInv, Typed, AreFunctions
<1>7. ASSUME ~failed', ~doubled'
      PROVE  /\ at = "idle" => u.as = NoSpace
             /\ at \in {"stack", "running", "exiting"} => Shared(u.as, Images')
             /\ free \ free' \subseteq Reach(u.as)
             /\ \A f \in Reach(space[t]) : f \in free' \/ f \in Reach(u.as) \/ \E y \in Images' : f \in Reach(y)
  <2>1. u.ok /\ at = "stack" /\ Copies(State(t), u, temp[t]) /\ ~Loaded(app[t])
    BY <1>1, <1>2, <1>3, <1>7 DEF Halts
  <2>2. temp[t] \in Images'
    <3>1. loads'[app[t]] = temp[t]
      BY <1>3, <1>4, <2>1 DEF IInv, Typed, AreFunctions
    <3> QED BY <1>4, <3>1 DEF Images
  <2>3. Shared(u.as, Images') /\ free \ free' \subseteq Reach(u.as)
    BY <1>3, <2>1, <2>2, CopyShared
  <2> QED BY <1>4, <2>1, <2>2, <2>3
<1> QED BY <1>3, <1>5, <1>6, <1>7, LeakStep

LEMMA CallAppLeaks ==
  ASSUME IInv, IInv', LInv, NEW t \in Tasks, CallApp(t)
  PROVE  LInv'
<1>1. PICK u : /\ Proceed(t, u, "running") /\ Grows(State(t), u)
               /\ \A p \in DOMAIN space[t].leaf : p \in DOMAIN u.as.leaf /\ u.as.leaf[p] = space[t].leaf[p]
               /\ \A p \in DOMAIN u.as.leaf : p \notin DOMAIN space[t].leaf =>
                    p \in {StackPage, ArgsPage} /\ u.as.leaf[p].w
  BY CallAppDoes
<1>2. PICK at : at = IF u.ok THEN "running" ELSE "idle"
  OBVIOUS
<1>3. /\ space' = [space EXCEPT ![t] = u.as] /\ pc' = [pc EXCEPT ![t] = at]
      /\ free' = u.free /\ failed' = (failed \/ ~u.ok) /\ UNCHANGED <<temp, loads, doubled>> /\ pc[t] = "stack"
  BY <1>1, <1>2 DEF Proceed, Commit, Goto, CallApp
<1>4. ASSUME ~failed', ~doubled'
      PROVE  /\ at = "idle" => u.as = NoSpace
             /\ at \in {"stack", "running", "exiting"} => Shared(u.as, Images')
             /\ free \ free' \subseteq Reach(u.as)
             /\ \A f \in Reach(space[t]) : f \in free' \/ f \in Reach(u.as) \/ \E y \in Images' : f \in Reach(y)
  <2>1. u.ok /\ at = "running" /\ ~failed /\ ~doubled
    BY <1>2, <1>3, <1>4
  <2>2. Reach(u.as) = Reach(space[t]) \cup (free \ free')
    BY <1>1, <1>3, StateOf DEF Grows
  <2>3. Shared(space[t], Images) /\ Images' = Images
    BY <1>3, <2>1 DEF LInv, Images
  <2>4. Shared(u.as, Images')
    BY <1>1, <2>3 DEF Shared
  <2> QED BY <2>1, <2>2, <2>4
<1> QED BY <1>3, <1>4, LeakStep

LEMMA PageFaultLeaks ==
  ASSUME IInv, IInv', LInv, NEW t \in Tasks, NEW p \in Pages, PageFault(t, p)
  PROVE  LInv'
<1>1. PICK u : /\ Commit(t, u) /\ Goto(t, IF u.ok THEN "running" ELSE "exiting")
               /\ \/ Halts(t, u)
                  \/ Present(t, p) /\ ~Leaf(t, p).w /\ Unshares(State(t), u, p)
                  \/ /\ Grows(State(t), u)
                     /\ \A q \in DOMAIN space[t].leaf : q \in DOMAIN u.as.leaf /\ u.as.leaf[q] = space[t].leaf[q]
                     /\ \A q \in DOMAIN u.as.leaf : q \notin DOMAIN space[t].leaf => q = p /\ u.as.leaf[p].w
  BY PageFaultDoes
<1>2. PICK at : at = IF u.ok THEN "running" ELSE "exiting"
  OBVIOUS
<1>3. /\ space' = [space EXCEPT ![t] = u.as] /\ pc' = [pc EXCEPT ![t] = at] /\ free' = u.free
      /\ UNCHANGED <<temp, loads, failed, doubled>> /\ pc[t] = "running"
  BY <1>1, <1>2 DEF Commit, Goto, PageFault, Running
<1>4. ASSUME ~failed', ~doubled'
      PROVE  /\ at = "idle" => u.as = NoSpace
             /\ at \in {"stack", "running", "exiting"} => Shared(u.as, Images')
             /\ free \ free' \subseteq Reach(u.as)
             /\ \A f \in Reach(space[t]) : f \in free' \/ f \in Reach(u.as) \/ \E y \in Images' : f \in Reach(y)
  <2>1. Shared(space[t], Images) /\ Images' = Images /\ at # "idle"
    BY <1>2, <1>3, <1>4 DEF LInv, Images
  <2>2. CASE Halts(t, u)
    BY <1>3, <2>1, <2>2 DEF Halts
  <2>3. CASE Present(t, p) /\ ~Leaf(t, p).w /\ Unshares(State(t), u, p)
    <3>1. /\ OwnFrames(u.as) = OwnFrames(space[t]) \cup (free \ free')
          /\ DOMAIN u.as.leaf = DOMAIN space[t].leaf /\ u.as.leaf[p].w
          /\ \A q \in DOMAIN space[t].leaf : q # p => u.as.leaf[q] = space[t].leaf[q]
          /\ p \in DOMAIN space[t].leaf /\ ~space[t].leaf[p].w
      BY <1>3, <2>3, StateOf DEF Unshares, Present, Leaf
    <3>2. Shared(u.as, Images')
      BY <2>1, <3>1 DEF Shared
    <3>3. free \ free' \subseteq Reach(u.as)
      BY <3>1, OwnInReach
    <3>4. ASSUME NEW f \in Reach(space[t]) PROVE f \in Reach(u.as) \/ \E y \in Images' : f \in Reach(y)
      <4>1. CASE f \in OwnFrames(space[t])
        BY <3>1, <4>1, OwnInReach
      <4>2. CASE \E q \in DOMAIN space[t].leaf : f = space[t].leaf[q].frame
        <5>1. PICK q \in DOMAIN space[t].leaf : f = space[t].leaf[q].frame
          BY <4>2
        <5>2. CASE q = p
          BY <2>1, <3>1, <5>1, <5>2 DEF Shared
        <5>3. CASE q # p
          <6>1. q \in DOMAIN u.as.leaf /\ f = u.as.leaf[q].frame
            BY <3>1, <5>1, <5>3
          <6> QED BY <6>1, ReachIs
        <5> QED BY <5>2, <5>3
      <4> QED BY <4>1, <4>2 DEF Reach, LeafFrames
    <3> QED BY <2>1, <3>2, <3>3, <3>4
  <2>4. CASE /\ Grows(State(t), u)
             /\ \A q \in DOMAIN space[t].leaf : q \in DOMAIN u.as.leaf /\ u.as.leaf[q] = space[t].leaf[q]
             /\ \A q \in DOMAIN u.as.leaf : q \notin DOMAIN space[t].leaf => q = p /\ u.as.leaf[p].w
    <3>1. Reach(u.as) = Reach(space[t]) \cup (free \ free')
      BY <1>3, <2>4, StateOf DEF Grows
    <3>2. Shared(u.as, Images')
      BY <2>1, <2>4 DEF Shared
    <3> QED BY <2>1, <3>1, <3>2
  <2> QED BY <1>1, <2>2, <2>3, <2>4
<1> QED BY <1>3, <1>4, LeakStep

LEMMA RunLeaks ==
  ASSUME IInv, IInv', LInv, NEW t \in Tasks,
         \/ \E p \in Pages : UserWrite(t, p) \/ KernelWrite(t, p)
         \/ DemandPages(t) \/ MapFile(t) \/ ExitApp(t)
  PROVE  LInv'
<1>1. pc[t] = "running" /\ UNCHANGED <<free, space, temp, loads, failed, doubled>>
  <2>1. CASE \E p \in Pages : UserWrite(t, p) \/ KernelWrite(t, p)
    <3>1. PICK p \in Pages : UserWrite(t, p) \/ KernelWrite(t, p)
      BY <2>1
    <3>2. \E u : u.free = free /\ u.as = space[t] /\ free' = u.free /\ space' = [space EXCEPT ![t] = u.as]
      BY <3>1, WriteDoes
    <3> QED BY <3>1, <3>2 DEF UserWrite, KernelWrite, Running, IInv, Typed, AreFunctions
  <2>2. CASE DemandPages(t) \/ MapFile(t) \/ ExitApp(t)
    BY <2>2 DEF DemandPages, MapFile, ExitApp, Running
  <2> QED BY <2>1, <2>2
<1>2. PICK at \in {"running", "exiting"} : pc' = [pc EXCEPT ![t] = at]
  <2>1. CASE ExitApp(t)
    BY <2>1 DEF ExitApp, Goto
  <2>2. CASE ~ExitApp(t)
    <3>1. pc' = pc
      BY <2>2 DEF DemandPages, MapFile, UserWrite, KernelWrite
    <3> QED BY <1>1, <3>1 DEF IInv, Typed
  <2> QED BY <2>1, <2>2
<1>3. space' = [space EXCEPT ![t] = space[t]]
  BY <1>1 DEF IInv, Typed, AreFunctions
<1>4. ~failed' /\ ~doubled' => Shared(space[t], Images')
  BY <1>1 DEF LInv, Images
<1> QED BY <1>1, <1>2, <1>3, <1>4, LeakStep

LEMMA CleanLeaks ==
  ASSUME IInv, IInv', LInv, NEW t \in Tasks, Clean(t)
  PROVE  LInv'
<1>1. /\ free' = free \cup OwnFrames(space[t])
      /\ space' = [space EXCEPT ![t] = NoSpace] /\ pc' = [pc EXCEPT ![t] = "idle"]
      /\ UNCHANGED <<temp, loads, failed, doubled>> /\ pc[t] = "exiting"
  BY CleanDoes DEF Clean
<1>2. ASSUME ~failed', ~doubled', NEW f \in Reach(space[t])
      PROVE  f \in free' \/ \E y \in Images' : f \in Reach(y)
  <2>1. Shared(space[t], Images) /\ Images' = Images
    BY <1>1, <1>2 DEF LInv, Images
  <2>2. CASE f \in OwnFrames(space[t])
    BY <1>1, <2>2
  <2>3. CASE f \notin OwnFrames(space[t])
    <3>1. PICK q \in DOMAIN space[t].leaf : f = space[t].leaf[q].frame /\ ~space[t].leaf[q].w
      BY <1>2, <2>3, ReachIs, OwnIs
    <3> QED BY <2>1, <3>1 DEF Shared
  <2> QED BY <2>2, <2>3
<1>3. free \ free' = {}
  BY <1>1
<1> QED BY <1>1, <1>2, <1>3, LeakStep

LEMMA InitLeaks == Init => LInv
<1> SUFFICES ASSUME Init PROVE LInv
  OBVIOUS
<1>1. \A x \in Spaces : Reach(x) = {}
  BY NoSpaceIs DEF Init, Spaces
<1>2. Frames \ free = UNION {Reach(as) : as \in Spaces}
  BY <1>1 DEF Init
<1> QED BY <1>2 DEF LInv, Init

LEMMA StutterLeaks == ASSUME LInv, UNCHANGED vars PROVE LInv'
BY DEF vars, LInv, Images, Spaces

LEMMA StepLeaks == ASSUME IInv, IInv', LInv, [Next]_vars PROVE LInv'
<1>1. ASSUME NEW t \in Tasks, NEW a \in Apps, LoadApp(t, a) PROVE LInv'
  BY <1>1, LoadAppLeaks
<1>2. ASSUME NEW t \in Tasks, LoadELF(t) PROVE LInv'
  BY <1>2, LoadELFLeaks
<1>3. ASSUME NEW t \in Tasks, RecordApp(t) PROVE LInv'
  BY <1>3, RecordAppLeaks
<1>4. ASSUME NEW t \in Tasks, CallApp(t) PROVE LInv'
  BY <1>4, CallAppLeaks
<1>5. ASSUME NEW t \in Tasks, NEW p \in Pages, PageFault(t, p) PROVE LInv'
  BY <1>5, PageFaultLeaks
<1>6. ASSUME NEW t \in Tasks, NEW p \in Pages, UserWrite(t, p) \/ KernelWrite(t, p) PROVE LInv'
  BY <1>6, RunLeaks
<1>7. ASSUME NEW t \in Tasks, DemandPages(t) \/ MapFile(t) \/ ExitApp(t) PROVE LInv'
  BY <1>7, RunLeaks
<1>8. ASSUME NEW t \in Tasks, Clean(t) PROVE LInv'
  BY <1>8, CleanLeaks
<1>9. CASE UNCHANGED vars
  BY <1>9, StutterLeaks
<1> QED BY <1>1, <1>2, <1>3, <1>4, <1>5, <1>6, <1>7, <1>8, <1>9 DEF Next

\* Until an ExecuteFile fails or two tasks load the same file at once, every
\* frame that is not free belongs to an address space: what CleanPageMap does
\* not free of an application is a page of an image in app_loads.
THEOREM NeverLeaksWithoutError == Spec => []NoLeakWithoutError
<1>1. Init => IInv /\ LInv
  BY InitSound, InitLeaks
<1>2. IInv /\ LInv /\ [Next]_vars => (IInv /\ LInv)'
  BY StepKeeps, StepLeaks
<1>3. LInv => NoLeakWithoutError
  BY DEF LInv, NoLeakWithoutError
<1> QED BY <1>1, <1>2, <1>3, PTL DEF Spec

-----------------------------------------------------------------------------
(***************************************************************************)
(* Physical frames: BitmapMemoryManager and InitializeMemoryManager        *)
(***************************************************************************)
USE MemoryAssumption, HolderAssumption

-----------------------------------------------------------------------------
(* The inductive invariant. *)

\* The assumption on the firmware's map, which sorting keeps.
MapOK ==
  \A i \in 1 .. Len(memory_map) :
    /\ memory_map[i] \in Descriptors
    /\ memory_map[i].pages > 0
    /\ memory_map[i].start + memory_map[i].pages <= kFrameCount
    /\ \A j \in 1 .. Len(memory_map) :
         i # j => Covered(memory_map[i]) \cap Covered(memory_map[j]) = {}

\* During the scan: nothing usable is marked; below available_end whatever is
\* not marked is usable; and the usable descriptors seen end there.
ScanInv ==
  /\ Sorted(memory_map)
  /\ \A f \in alloc_map_ : f \notin Usable
  /\ \A f \in 0 .. available_end - 1 : f \in alloc_map_ \/ f \in Usable
  /\ \A i \in 1 .. iter - 1 :
       memory_map[i].available => memory_map[i].start + memory_map[i].pages <= available_end

NothingHeld == blocks = [h \in AllHolders |-> NoBlock]

\* Held blocks lie in the range of the allocator.
HeldInRange == range_begin_ = 1 /\ HeldFrames \subseteq range_begin_ .. range_end_ - 1

AllocatorInv ==
  /\ MemoryTypeOK
  /\ MapOK
  /\ phase = "sort" => alloc_map_ = {} /\ iter = 1 /\ available_end = 0
  /\ phase = "scan" => ScanInv
  /\ phase \in {"sort", "scan", "heap"} => NothingHeld
  /\ phase \in {"heap", "run", "exit"} => HeldInRange
  /\ FreeFramesExact
  /\ BlocksDisjoint
  /\ HeldIsUsable

-----------------------------------------------------------------------------
(* Facts about sets of frames. *)

\* Membership in Usable, descriptor by descriptor.
LEMMA UsableIff ==
  ASSUME NEW f
  PROVE  f \in Usable <=>
           \E k \in 1 .. Len(memory_map) :
             memory_map[k].available /\ f \in Covered(memory_map[k])
BY DEF Usable

\* Membership in Held, holder by holder.
LEMMA HeldIff ==
  ASSUME NEW f
  PROVE  f \in HeldFrames <=> \E h \in AllHolders : f \in FrameRange(blocks[h].start, blocks[h].n)
BY DEF HeldFrames

\* A holder without a block holds no frame.
LEMMA NoBlockIsEmpty == FrameRange(NoBlock.start, NoBlock.n) = {}
BY DEF NoBlock, FrameRange

\* When nothing is held, the properties about blocks hold.
LEMMA NothingHeldFacts ==
  ASSUME NothingHeld
  PROVE  HeldFrames = {} /\ BlocksDisjoint /\ HeldIsUsable
<1>1. \A h \in AllHolders : FrameRange(blocks[h].start, blocks[h].n) = {}
  BY NoBlockIsEmpty DEF NothingHeld
<1>2. HeldFrames = {}
  BY <1>1, HeldIff
<1> QED BY <1>1, <1>2 DEF BlocksDisjoint, HeldIsUsable

-----------------------------------------------------------------------------
(* Boot. *)

\* The constructor establishes the invariant.
LEMMA InitAllocatorInv == InitMemory => AllocatorInv
<1> SUFFICES ASSUME InitMemory PROVE AllocatorInv
  OBVIOUS
<1>1. memory_map \in Seq(Descriptors) /\ Len(memory_map) \in Nat
  BY DEF InitMemory
<1>2. MapOK
  <2>1. memory_map \in MemoryMaps
    BY DEF InitMemory
  <2>2. \A i \in 1 .. Len(memory_map) : memory_map[i] \in Descriptors
    BY <1>1
  <2>3. \A i \in 1 .. Len(memory_map) :
          /\ memory_map[i].pages > 0
          /\ memory_map[i].start + memory_map[i].pages <= kFrameCount
          /\ \A j \in 1 .. Len(memory_map) :
               i # j => Covered(memory_map[i]) \cap Covered(memory_map[j]) = {}
    BY <2>1, Zenon
  <2> QED BY <2>2, <2>3 DEF MapOK
<1>3. NothingHeld
  BY DEF InitMemory, NothingHeld
<1>4. blocks \in [AllHolders -> [start : 0 .. kFrameCount, n : Nat]]
  BY DEF InitMemory, NoBlock
<1>5. MemoryTypeOK
  BY <1>1, <1>4 DEF InitMemory, MemoryTypeOK
<1>6. FreeFramesExact
  BY DEF InitMemory, FreeFramesExact
<1> QED BY <1>2, <1>3, <1>5, <1>6, NothingHeldFacts DEF InitMemory, AllocatorInv

\* Sorting permutes the map, so it stays free of overlaps.
LEMMA SortInv == AllocatorInv /\ SortMemoryMapInPlace => AllocatorInv'
<1> SUFFICES ASSUME AllocatorInv, SortMemoryMapInPlace PROVE AllocatorInv'
  OBVIOUS
<1> DEFINE n == Len(memory_map)
<1>1. memory_map \in Seq(Descriptors) /\ n \in Nat
  BY DEF AllocatorInv, MemoryTypeOK
<1>2. PICK p \in [1 .. n -> 1 .. n] :
        /\ \A i, j \in 1 .. n : p[i] = p[j] => i = j
        /\ memory_map' = [i \in 1 .. n |-> memory_map[p[i]]]
        /\ Sorted(memory_map')
  BY DEF SortMemoryMapInPlace
<1>3. /\ phase = "sort" /\ phase' = "scan"
      /\ UNCHANGED <<alloc_map_, range_begin_, range_end_, iter, available_end, blocks>>
  BY DEF SortMemoryMapInPlace
<1>4. memory_map' \in Seq(Descriptors) /\ Len(memory_map') = n
  BY <1>1, <1>2
<1>5. \A i \in 1 .. n : memory_map'[i] = memory_map[p[i]] /\ p[i] \in 1 .. n
  BY <1>2
<1> HIDE DEF n
<1>6. MapOK'
  <2> SUFFICES ASSUME NEW i \in 1 .. n
               PROVE  /\ memory_map'[i] \in Descriptors
                      /\ memory_map'[i].pages > 0
                      /\ memory_map'[i].start + memory_map'[i].pages <= kFrameCount
                      /\ \A j \in 1 .. n :
                           i # j => Covered(memory_map'[i]) \cap Covered(memory_map'[j]) = {}
    BY <1>4 DEF MapOK
  <2>1. memory_map'[i] = memory_map[p[i]] /\ p[i] \in 1 .. n
    BY <1>5
  <2>2. /\ memory_map[p[i]] \in Descriptors
        /\ memory_map[p[i]].pages > 0
        /\ memory_map[p[i]].start + memory_map[p[i]].pages <= kFrameCount
    BY <2>1 DEF AllocatorInv, MapOK, n
  <2>3. ASSUME NEW j \in 1 .. n, i # j
        PROVE  Covered(memory_map'[i]) \cap Covered(memory_map'[j]) = {}
    <3>1. memory_map'[j] = memory_map[p[j]] /\ p[j] \in 1 .. n /\ p[i] # p[j]
      BY <1>2, <1>5, <2>3
    <3>2. Covered(memory_map[p[i]]) \cap Covered(memory_map[p[j]]) = {}
      BY <2>1, <3>1 DEF AllocatorInv, MapOK, n
    <3> QED BY <2>1, <3>1, <3>2
  <2> QED BY <2>1, <2>2, <2>3
<1>7. alloc_map_ = {} /\ iter = 1 /\ available_end = 0 /\ NothingHeld
  BY <1>3 DEF AllocatorInv
<1>8. MemoryTypeOK'
  BY <1>1, <1>3, <1>4, <1>7 DEF AllocatorInv, MemoryTypeOK
<1>9. ScanInv'
  BY <1>2, <1>3, <1>7 DEF ScanInv
<1>10. NothingHeld'
  BY <1>3, <1>7 DEF NothingHeld
<1>11. BlocksDisjoint' /\ HeldIsUsable'
  <2>1. NothingHeld' => (BlocksDisjoint /\ HeldIsUsable)'
    BY NothingHeldFacts, PTL
  <2> QED BY <1>10, <2>1
<1> QED BY <1>3, <1>6, <1>8, <1>9, <1>10, <1>11 DEF AllocatorInv, FreeFramesExact

\* A descriptor and the hole below it: neither marks a usable frame, and below
\* the new available_end nothing else stays unmarked.
LEMMA ScanDescriptorInv == AllocatorInv /\ ScanDescriptor => AllocatorInv'
<1> SUFFICES ASSUME AllocatorInv, ScanDescriptor PROVE AllocatorInv'
  OBVIOUS
<1> DEFINE desc == memory_map[iter]
           gap == FrameRange(available_end, desc.start - available_end)
<1>1. /\ phase = "scan" /\ iter \in 1 .. Len(memory_map) /\ ScanInv /\ NothingHeld
      /\ Len(memory_map) \in Nat /\ available_end \in 0 .. kFrameCount
      /\ alloc_map_ \subseteq 0 .. kFrameCount - 1
  BY DEF ScanDescriptor, AllocatorInv, MemoryTypeOK
<1>2. /\ alloc_map_' = alloc_map_ \cup gap \cup
                         (IF desc.available THEN {} ELSE Covered(desc))
      /\ available_end' = IF desc.available THEN desc.start + desc.pages ELSE available_end
      /\ iter' = iter + 1
      /\ UNCHANGED <<range_begin_, range_end_, memory_map, phase, blocks>>
  BY DEF ScanDescriptor
<1>3. \A k \in 1 .. Len(memory_map) :
        /\ memory_map[k].start \in Nat /\ memory_map[k].pages \in Nat
        /\ memory_map[k].available \in BOOLEAN
        /\ memory_map[k].pages > 0
        /\ memory_map[k].start + memory_map[k].pages <= kFrameCount
  BY DEF AllocatorInv, MapOK, Descriptors
<1>31. /\ desc.start \in Nat /\ desc.pages \in Nat /\ desc.pages > 0
       /\ desc.start + desc.pages <= kFrameCount /\ desc.start < kFrameCount
  BY <1>1, <1>3
\* Descriptors below this one end before it starts, the others start after it.
<1>4. ASSUME NEW k \in 1 .. iter - 1
      PROVE  memory_map[k].start + memory_map[k].pages <= desc.start
  <2>1. memory_map[k].start <= desc.start
    BY <1>1 DEF ScanInv, Sorted
  <2>2. k \in 1 .. Len(memory_map) /\ k # iter
    BY <1>1
  <2>3. Covered(memory_map[k]) \cap Covered(desc) = {}
    BY <1>1, <2>2 DEF AllocatorInv, MapOK
  <2>4. desc.start \in Covered(desc)
    BY <1>1, <1>3 DEF Covered, FrameRange
  <2>5. desc.start \notin Covered(memory_map[k])
    BY <2>3, <2>4
  <2>6. ~(memory_map[k].start <= desc.start
           /\ desc.start <= memory_map[k].start + memory_map[k].pages - 1)
    BY <1>3, <1>31, <2>2, <2>5 DEF Covered, FrameRange
  <2>7. memory_map[k].start \in Nat /\ memory_map[k].pages \in Nat
    BY <1>3, <2>2
  <2> QED BY <1>31, <2>1, <2>6, <2>7, SMTT(30)
<1>5. ASSUME NEW k \in iter .. Len(memory_map)
      PROVE  desc.start <= memory_map[k].start
  <2>1. k \in 1 .. Len(memory_map)
    BY <1>1
  <2> QED BY <1>1, <1>3, <2>1 DEF ScanInv, Sorted
<1>6. gap = available_end .. desc.start - 1
  BY <1>1, <1>3 DEF FrameRange
<1>7. \A f \in gap : f \notin Usable
  <2> SUFFICES ASSUME NEW f \in gap, NEW k \in 1 .. Len(memory_map),
                      memory_map[k].available, f \in Covered(memory_map[k])
               PROVE  FALSE
    BY UsableIff
  <2>1. f \in Int /\ f >= available_end /\ f < desc.start
    BY <1>1, <1>3, <1>6
  <2>2. f >= memory_map[k].start /\ f < memory_map[k].start + memory_map[k].pages
    BY <1>3 DEF Covered, FrameRange
  <2>3. CASE k \in 1 .. iter - 1
    <3>1. memory_map[k].start + memory_map[k].pages <= available_end
      BY <1>1, <2>3 DEF ScanInv
    <3> QED BY <1>1, <1>3, <2>1, <2>2, <3>1
  <2>4. CASE k \in iter .. Len(memory_map)
    BY <1>1, <1>3, <1>5, <2>1, <2>2, <2>4
  <2> QED BY <1>1, <2>3, <2>4
<1>8. ~desc.available => \A f \in Covered(desc) : f \notin Usable
  <2> SUFFICES ASSUME ~desc.available, NEW f \in Covered(desc),
                      NEW k \in 1 .. Len(memory_map),
                      memory_map[k].available, f \in Covered(memory_map[k])
               PROVE  FALSE
    BY UsableIff
  <2>1. k # iter
    OBVIOUS
  <2> QED BY <1>1, <2>1 DEF AllocatorInv, MapOK
<1>9. Usable' = Usable
  BY <1>2 DEF Usable
<1>10. ScanInv'
  <2>1. Sorted(memory_map')
    BY <1>1, <1>2 DEF ScanInv
  <2>2. \A f \in alloc_map_' : f \notin Usable'
    BY <1>1, <1>2, <1>7, <1>8, <1>9 DEF ScanInv
  <2>3. \A f \in 0 .. available_end' - 1 : f \in alloc_map_' \/ f \in Usable'
    <3> SUFFICES ASSUME NEW f \in 0 .. available_end' - 1
                 PROVE  f \in alloc_map_' \/ f \in Usable
      BY <1>9
    <3>1. CASE f < available_end
      BY <1>1, <1>2, <3>1 DEF ScanInv
    <3>2. CASE f >= available_end /\ f < desc.start
      BY <1>1, <1>2, <1>3, <1>6, <3>2
    <3>3. CASE f >= available_end /\ f >= desc.start
      <4>1. desc.available /\ f < desc.start + desc.pages
        BY <1>1, <1>2, <1>3, <3>3
      <4>2. f \in Covered(desc)
        BY <1>1, <1>3, <3>3, <4>1 DEF Covered, FrameRange
      <4> QED BY <1>1, <4>1, <4>2, UsableIff
    <3> QED BY <1>1, <1>3, <3>1, <3>2, <3>3
  <2>4. \A i \in 1 .. iter' - 1 :
          memory_map'[i].available =>
            memory_map'[i].start + memory_map'[i].pages <= available_end'
    <3> SUFFICES ASSUME NEW i \in 1 .. iter, memory_map[i].available
                 PROVE  memory_map[i].start + memory_map[i].pages <= available_end'
      BY <1>1, <1>2
    <3>1. CASE i = iter
      BY <1>1, <1>2, <1>3, <3>1
    <3>2. CASE i \in 1 .. iter - 1 /\ ~desc.available
      BY <1>1, <1>2, <3>2 DEF ScanInv
    <3>3. CASE i \in 1 .. iter - 1 /\ desc.available
      <4>1. memory_map[i].start + memory_map[i].pages <= desc.start
        BY <1>4, <3>3
      <4>2. i \in 1 .. Len(memory_map)
        BY <1>1
      <4> QED BY <1>1, <1>2, <1>3, <3>3, <4>1, <4>2
    <3> QED BY <1>1, <3>1, <3>2, <3>3
  <2> QED BY <2>1, <2>2, <2>3, <2>4 DEF ScanInv
<1>11. MemoryTypeOK'
  <2>1. gap \subseteq 0 .. kFrameCount - 1
    <3> HIDE DEF desc, gap
    <3> QED BY <1>1, <1>31, <1>6
  <2>2. Covered(desc) \subseteq 0 .. kFrameCount - 1
    BY <1>1, <1>3 DEF Covered, FrameRange
  <2>3. alloc_map_' \subseteq 0 .. kFrameCount - 1
    BY <1>1, <1>2, <2>1, <2>2
  <2>4. available_end' \in 0 .. kFrameCount
    BY <1>1, <1>2, <1>3
  <2>5. iter' \in 1 .. Len(memory_map') + 1
    BY <1>1, <1>2
  <2> QED BY <1>2, <2>3, <2>4, <2>5 DEF AllocatorInv, MemoryTypeOK
<1>12. NothingHeld' /\ BlocksDisjoint' /\ HeldIsUsable'
  <2>1. NothingHeld'
    BY <1>1, <1>2 DEF NothingHeld
  <2>2. NothingHeld' => (BlocksDisjoint /\ HeldIsUsable)'
    BY NothingHeldFacts, PTL
  <2> QED BY <2>1, <2>2
<1>13. MapOK'
  BY <1>2 DEF AllocatorInv, MapOK
<1> QED BY <1>1, <1>2, <1>10, <1>11, <1>12, <1>13 DEF AllocatorInv, FreeFramesExact

\* After the scan the range ends where the usable memory does.
LEMMA SetMemoryRangeInv == AllocatorInv /\ SetMemoryRange => AllocatorInv'
<1> SUFFICES ASSUME AllocatorInv, SetMemoryRange PROVE AllocatorInv'
  OBVIOUS
<1>1. /\ phase = "scan" /\ iter = Len(memory_map) + 1 /\ ScanInv /\ NothingHeld
      /\ Len(memory_map) \in Nat /\ available_end \in 0 .. kFrameCount
      /\ range_begin_' = 1 /\ range_end_' = available_end /\ phase' = "heap"
      /\ UNCHANGED <<alloc_map_, memory_map, iter, available_end, blocks>>
  BY DEF SetMemoryRange, AllocatorInv, MemoryTypeOK
<1>2. \A k \in 1 .. Len(memory_map) :
        memory_map[k].start \in Nat /\ memory_map[k].pages \in Nat
  BY DEF AllocatorInv, MapOK, Descriptors
<1>3. \A f \in Usable : f \in 0 .. available_end - 1
  <2> SUFFICES ASSUME NEW f, NEW k \in 1 .. Len(memory_map),
                      memory_map[k].available, f \in Covered(memory_map[k])
               PROVE  f \in 0 .. available_end - 1
    BY UsableIff
  <2>1. memory_map[k].start + memory_map[k].pages <= available_end
    BY <1>1 DEF ScanInv
  <2> QED BY <1>1, <1>2, <2>1, SMTT(30) DEF Covered, FrameRange
<1>4. NothingHeld' /\ Usable' = Usable
  BY <1>1 DEF NothingHeld, Usable
<1>5. HeldFrames' = {} /\ BlocksDisjoint' /\ HeldIsUsable'
  <2>1. NothingHeld' => (HeldFrames = {} /\ BlocksDisjoint /\ HeldIsUsable)'
    BY NothingHeldFacts, PTL
  <2> QED BY <1>4, <2>1
<1>6. FreeFramesExact'
  <2> SUFFICES ASSUME NEW f
               PROVE  f \in (1 .. available_end - 1) \ alloc_map_ <=> f \in Usable \ {0}
    BY <1>1, <1>4, <1>5 DEF FreeFramesExact
  <2>1. ASSUME f \in (1 .. available_end - 1) \ alloc_map_ PROVE f \in Usable \ {0}
    BY <1>1, <2>1 DEF ScanInv
  <2>2. ASSUME f \in Usable \ {0} PROVE f \in (1 .. available_end - 1) \ alloc_map_
    <3>1. f \in 0 .. available_end - 1 /\ f # 0 /\ f \notin alloc_map_
      BY <1>1, <1>3, <2>2 DEF ScanInv
    <3> QED BY <1>1, <3>1
  <2> QED BY <2>1, <2>2
<1>7. HeldInRange'
  BY <1>1, <1>5 DEF HeldInRange
<1>8. MapOK'
  BY <1>1 DEF AllocatorInv, MapOK
<1>9. MemoryTypeOK'
  BY <1>1 DEF AllocatorInv, MemoryTypeOK
<1> QED BY <1>1, <1>4, <1>5, <1>6, <1>7, <1>8, <1>9 DEF AllocatorInv

-----------------------------------------------------------------------------
(* Allocate and Free. *)

\* Frames that fit were usable and in nobody's hands; marking them for a
\* holder without a block keeps everything exact.
LEMMA AllocateKeeps ==
  ASSUME AllocatorInv, phase \in {"heap", "run"}, NEW h \in AllHolders, NEW n \in Nat \ {0},
         Allocate(h, n), phase' = "run"
  PROVE  AllocatorInv'
<1>1. PICK start \in 0 .. kFrameCount :
        /\ IsFirstFit(start, n)
        /\ alloc_map_' = alloc_map_ \cup FrameRange(start, n)
        /\ blocks' = [blocks EXCEPT ![h] = [start |-> start, n |-> n]]
  BY DEF Allocate
<1>2. /\ blocks[h] = NoBlock
      /\ UNCHANGED <<range_begin_, range_end_, memory_map, iter, available_end>>
  BY DEF Allocate
<1> DEFINE B == FrameRange(start, n)
           F(k) == FrameRange(blocks[k].start, blocks[k].n)
<1>3. /\ blocks \in [AllHolders -> [start : 0 .. kFrameCount, n : Nat]]
      /\ range_begin_ = 1 /\ range_end_ \in 0 .. kFrameCount
      /\ (range_begin_ .. range_end_ - 1) \ alloc_map_ = (Usable \ {0}) \ HeldFrames
      /\ HeldFrames \subseteq range_begin_ .. range_end_ - 1
      /\ HeldFrames \subseteq Usable /\ HeldFrames \subseteq alloc_map_
  BY DEF AllocatorInv, MemoryTypeOK, HeldInRange, FreeFramesExact, HeldIsUsable
<1>4. B \subseteq (range_begin_ .. range_end_ - 1) \ alloc_map_
  <2>1. start >= range_begin_ /\ start + n <= range_end_ /\ B \cap alloc_map_ = {}
    BY <1>1 DEF IsFirstFit, Fits
  <2>2. B \subseteq range_begin_ .. range_end_ - 1
    BY <1>3, <2>1 DEF FrameRange
  <2> QED BY <2>1, <2>2
<1>5. F(h) = {}
  BY <1>2, NoBlockIsEmpty
<1>6. \A k \in AllHolders : FrameRange(blocks'[k].start, blocks'[k].n) = IF k = h THEN B ELSE F(k)
  BY <1>1, <1>3
<1> HIDE DEF B, F
<1>7. HeldFrames' = HeldFrames \cup B
  <2> SUFFICES ASSUME NEW f PROVE f \in HeldFrames' <=> f \in HeldFrames \/ f \in B
    OBVIOUS
  <2>1. f \in HeldFrames' <=> \E k \in AllHolders : f \in FrameRange(blocks'[k].start, blocks'[k].n)
    BY DEF HeldFrames
  <2>2. f \in HeldFrames <=> \E k \in AllHolders : f \in F(k)
    BY HeldIff DEF F
  <2> QED BY <1>5, <1>6, <2>1, <2>2
<1>8. Usable' = Usable
  BY <1>2 DEF Usable
<1>9. FreeFramesExact'
  BY <1>1, <1>2, <1>3, <1>4, <1>7, <1>8 DEF FreeFramesExact, B
<1>10. HeldIsUsable' /\ HeldInRange'
  BY <1>1, <1>2, <1>3, <1>4, <1>7, <1>8 DEF HeldIsUsable, HeldInRange, B
<1>11. BlocksDisjoint'
  <2> SUFFICES ASSUME NEW j \in AllHolders, NEW k \in AllHolders, j # k
               PROVE  FrameRange(blocks'[j].start, blocks'[j].n)
                        \cap FrameRange(blocks'[k].start, blocks'[k].n) = {}
    BY DEF BlocksDisjoint
  <2>1. F(j) \cap F(k) = {}
    BY DEF AllocatorInv, BlocksDisjoint, F
  <2>2. F(j) \subseteq HeldFrames /\ F(k) \subseteq HeldFrames
    BY HeldIff DEF F
  <2>3. B \cap HeldFrames = {}
    BY <1>3, <1>4
  <2> QED BY <1>6, <2>1, <2>2, <2>3
<1>12. MemoryTypeOK'
  <2>1. blocks' \in [AllHolders -> [start : 0 .. kFrameCount, n : Nat]]
    BY <1>1, <1>3
  <2>2. alloc_map_' \subseteq 0 .. kFrameCount - 1
    <3>1. B \subseteq 0 .. kFrameCount - 1
      BY <1>3, <1>4
    <3> QED BY <1>1, <3>1 DEF AllocatorInv, MemoryTypeOK, B
  <2> QED BY <1>2, <2>1, <2>2 DEF AllocatorInv, MemoryTypeOK
<1>13. MapOK'
  BY <1>2 DEF AllocatorInv, MapOK
<1> QED BY <1>9, <1>10, <1>11, <1>12, <1>13 DEF AllocatorInv

\* Free returns exactly the holder's frames.
LEMMA FreeInv == ASSUME NEW h \in Holders PROVE AllocatorInv /\ Free(h) => AllocatorInv'
<1> SUFFICES ASSUME AllocatorInv, Free(h) PROVE AllocatorInv'
  OBVIOUS
<1> DEFINE F(k) == FrameRange(blocks[k].start, blocks[k].n)
<1>1. /\ phase = "run" /\ h \in AllHolders
      /\ alloc_map_' = alloc_map_ \ F(h)
      /\ blocks' = [blocks EXCEPT ![h] = NoBlock]
      /\ UNCHANGED <<range_begin_, range_end_, memory_map, iter, available_end, phase>>
  BY DEF Free, AllHolders
<1>2. /\ blocks \in [AllHolders -> [start : 0 .. kFrameCount, n : Nat]]
      /\ (range_begin_ .. range_end_ - 1) \ alloc_map_ = (Usable \ {0}) \ HeldFrames
      /\ range_begin_ = 1
      /\ HeldFrames \subseteq range_begin_ .. range_end_ - 1
      /\ HeldFrames \subseteq Usable /\ HeldFrames \subseteq alloc_map_
  BY <1>1 DEF AllocatorInv, MemoryTypeOK, HeldInRange, FreeFramesExact, HeldIsUsable
<1>3. \A k \in AllHolders :
        FrameRange(blocks'[k].start, blocks'[k].n) = IF k = h THEN {} ELSE F(k)
  BY <1>1, <1>2, NoBlockIsEmpty
<1>4. \A j, k \in AllHolders : j # k => F(j) \cap F(k) = {}
  BY DEF AllocatorInv, BlocksDisjoint
<1>5. \A f : f \in HeldFrames <=> \E k \in AllHolders : f \in F(k)
  BY HeldIff
<1>6. \A f : f \in HeldFrames' <=> \E k \in AllHolders : f \in FrameRange(blocks'[k].start, blocks'[k].n)
  BY DEF HeldFrames
<1> HIDE DEF F
<1>7. HeldFrames' = HeldFrames \ F(h) /\ F(h) \subseteq HeldFrames
  BY <1>1, <1>3, <1>4, <1>5, <1>6
<1>8. Usable' = Usable
  BY <1>1 DEF Usable
<1>9. 0 \notin HeldFrames
  BY <1>2
<1>10. FreeFramesExact'
  BY <1>1, <1>2, <1>7, <1>8, <1>9 DEF FreeFramesExact
<1>11. HeldIsUsable' /\ HeldInRange'
  BY <1>1, <1>2, <1>7, <1>8 DEF HeldIsUsable, HeldInRange
<1>12. BlocksDisjoint'
  BY <1>3, <1>4 DEF BlocksDisjoint
<1>13. MemoryTypeOK'
  <2>1. blocks' \in [AllHolders -> [start : 0 .. kFrameCount, n : Nat]]
    BY <1>1, <1>2 DEF NoBlock
  <2> QED BY <1>1, <2>1 DEF AllocatorInv, MemoryTypeOK
<1>14. MapOK'
  BY <1>1 DEF AllocatorInv, MapOK
<1> QED BY <1>1, <1>10, <1>11, <1>12, <1>13, <1>14 DEF AllocatorInv

\* exit(1) leaves the allocator as it was.
LEMMA HeapFailsInv == AllocatorInv /\ HeapFails => AllocatorInv'
<1> SUFFICES ASSUME AllocatorInv, HeapFails PROVE AllocatorInv'
  OBVIOUS
<1>1. /\ phase = "heap" /\ phase' = "exit"
      /\ UNCHANGED <<alloc_map_, range_begin_, range_end_, memory_map, iter,
                     available_end, blocks>>
  BY DEF HeapFails
<1>2. Usable' = Usable /\ HeldFrames' = HeldFrames
  BY <1>1 DEF Usable, HeldFrames
<1>3. MemoryTypeOK' /\ MapOK'
  BY <1>1 DEF AllocatorInv, MemoryTypeOK, MapOK
<1>4. HeldInRange' /\ FreeFramesExact' /\ BlocksDisjoint' /\ HeldIsUsable'
  BY <1>1, <1>2 DEF AllocatorInv, HeldInRange, FreeFramesExact, BlocksDisjoint, HeldIsUsable
<1> QED BY <1>1, <1>3, <1>4 DEF AllocatorInv

-----------------------------------------------------------------------------
(* Induction and theorems. *)

\* Every step preserves the invariant.
LEMMA NextAllocatorInv == AllocatorInv /\ [NextMemory]_memoryVars => AllocatorInv'
<1> SUFFICES ASSUME AllocatorInv, [NextMemory]_memoryVars PROVE AllocatorInv'
  OBVIOUS
<1>1. CASE SortMemoryMapInPlace
  BY <1>1, SortInv
<1>2. CASE ScanDescriptor
  BY <1>2, ScanDescriptorInv
<1>3. CASE SetMemoryRange
  BY <1>3, SetMemoryRangeInv
<1>4. CASE InitializeHeap
  <2>1. Heap \in AllHolders /\ phase = "heap" /\ Allocate(Heap, kHeapFrames) /\ phase' = "run"
    BY <1>4 DEF InitializeHeap, AllHolders
  <2> QED BY <2>1, AllocateKeeps
<1>5. CASE HeapFails
  BY <1>5, HeapFailsInv
<1>6. ASSUME NEW h \in Holders, Free(h) PROVE AllocatorInv'
  BY <1>6, FreeInv
<1>7. ASSUME NEW h \in Holders, NEW n \in Sizes, NewBlock(h, n) PROVE AllocatorInv'
  <2>1. h \in AllHolders /\ n \in Nat \ {0} /\ phase = "run" /\ Allocate(h, n) /\ phase' = "run"
    BY <1>7 DEF NewBlock, AllHolders
  <2> QED BY <2>1, AllocateKeeps
<1>8. CASE UNCHANGED memoryVars
  <2>1. UNCHANGED <<alloc_map_, range_begin_, range_end_, memory_map, iter, available_end,
                    phase, blocks>>
    BY <1>8 DEF memoryVars
  <2>2. Usable' = Usable /\ HeldFrames' = HeldFrames
    BY <2>1 DEF Usable, HeldFrames
  <2>3. MemoryTypeOK' /\ MapOK'
    BY <2>1 DEF AllocatorInv, MemoryTypeOK, MapOK
  <2>4. (ScanInv' <=> ScanInv) /\ (NothingHeld' <=> NothingHeld) /\ (HeldInRange' <=> HeldInRange)
    BY <2>1, <2>2 DEF ScanInv, NothingHeld, HeldInRange
  <2>5. FreeFramesExact' /\ BlocksDisjoint' /\ HeldIsUsable'
    BY <2>1, <2>2 DEF AllocatorInv, FreeFramesExact, BlocksDisjoint, HeldIsUsable
  <2> QED BY <2>1, <2>3, <2>4, <2>5 DEF AllocatorInv
<1> QED BY <1>1, <1>2, <1>3, <1>4, <1>5, <1>6, <1>7, <1>8 DEF NextMemory

\* The inductive invariant holds in every reachable state.
LEMMA AllocatorInvariant == MemorySpec => []AllocatorInv
BY InitAllocatorInv, NextAllocatorInv, PTL DEF MemorySpec

\* Type correctness: in particular the bitmap is never indexed outside.
THEOREM MemoryTypeCorrect == MemorySpec => []MemoryTypeOK
<1>1. AllocatorInv => MemoryTypeOK
  BY DEF AllocatorInv
<1> QED BY <1>1, AllocatorInvariant, PTL

\* What Allocate can hand out is exactly what the firmware left usable and
\* nobody holds, no frame has two holders, and every held frame is usable and
\* marked, for every memory map and every history of calls.
THEOREM AllocatorAlwaysSound == MemorySpec => []AllocatorSound
<1>1. AllocatorInv => AllocatorSound
  BY DEF AllocatorInv, AllocatorSound
<1> QED BY <1>1, AllocatorInvariant, PTL
=============================================================================
