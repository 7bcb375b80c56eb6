---------------------------- MODULE LayerProofs ----------------------------
(***************************************************************************)
(* What is proved of the window system for all values of the constants:    *)
(* any number of programs and terminals, any screen and window width, a    *)
(* boot with the cursor or without it.                                     *)
(***************************************************************************)
EXTENDS Layer, SequenceTheorems, FiniteSetTheorems, WellFoundedInduction, TLAPS

-----------------------------------------------------------------------------
(***************************************************************************)
(* The inductive invariant                                                 *)
(***************************************************************************)
Ids == 1 .. MaxLayer
IdsOrNone == 0 .. MaxLayer
LayerRecords == [pos : Int, kind : Kinds, lit : BOOLEAN]
PixelRecords == [layer : IdsOrNone, lit : BOOLEAN]

Managers ==
  [layers : UNION {[S -> LayerRecords] : S \in SUBSET Ids}, latest : IdsOrNone, stack : Seq(Ids),
   mouse : {NoLayer, MouseLayer}, active : IdsOrNone, owner : UNION {[S -> Tasks] : S \in SUBSET Ids},
   told : [Tasks -> BOOLEAN], back : [Pixels -> PixelRecords], screen : [Pixels -> PixelRecords]]

\* id is no layer, or a layer that is not the cursor
NotCursor(m, id) == id = NoLayer \/ id # m.mouse

\* The stack holds live layers, each once, the cursor on top if there is one;
\* the active layer is alive and not the cursor.
Sound(m) ==
  /\ IsInjective(m.stack) /\ Range(m.stack) \subseteq Live(m)
  /\ m.active \in {NoLayer} \cup Live(m) /\ NotCursor(m, m.active)
  /\ m.mouse # NoLayer => m.mouse \in Live(m) /\ m.stack # <<>> /\ Last(m.stack) = m.mouse
  /\ \A l \in Live(m) : l <= m.latest

Steps ==
  [op : {"draw"}, id : IdsOrNone]
  \cup [op : {"area", "copy"}, area : SUBSET Int]
  \cup [op : {"paint"}, h : Nat \ {0}, area : SUBSET Int]
  \cup [op : {"move"}, id : IdsOrNone, by : Int]
  \cup [op : {"button"}, left : BOOLEAN, by : Int]
  \cup [op : {"activate", "activateNew"}, id : IdsOrNone]
  \cup [op : {"raise"}, to : {"bottom", "cursor"}]
  \cup [op : {"drawActive"}]
  \cup [op : {"tell"}, activate : BOOLEAN]
  \cup [op : {"send"}, clicked : IdsOrNone]
  \cup [op : {"register"}, id : Ids]

\* x is somewhere before y in the sequence s
Below(s, x, y) == \E i, j \in DOMAIN s : i < j /\ s[i] = x /\ s[j] = y

\* what may stand before what in the rest of a call
Activations == {"activate", "activateNew"}
MayPrecede(s, t) == s.op # "button" /\ (s.op \in Activations => t.op # "raise")
Ordered(q) == \A s, t : Below(q, s, t) => MayPrecede(s, t)

\* a step of task k: nobody activates the cursor, the main task moves the
\* cursor and what is dragged, a terminal its own window
Fits(m, mo, w, k, s) ==
  /\ s.op \in Activations => NotCursor(m, s.id)
  /\ s.op = "move" => s.id # NoLayer /\ s.id \in IF k = MainTask THEN {m.mouse, mo.drag} ELSE {w[k]}
StepsFit(m, mo, w, k, q) ==
  /\ Ordered(q) /\ \A s \in Range(q) : Fits(m, mo, w, k, s)
  /\ k \in Terminals /\ q # <<>> => w[k] \in Live(m)

\* what tasks know of their windows
Windows(m, w) ==
  /\ \A t \in Tasks : w[t] <= m.latest /\ NotCursor(m, w[t])
  /\ \A t, u \in Tasks : w[t] = w[u] /\ w[t] # NoLayer => t = u
Closings(m, td, w, cl) ==
  \A t \in Tasks : cl[t] # Idle => w[t] \in Live(m) /\ (t \in Terminals => td[t] = <<>>)
Clients(m, mo, td, w, cl) ==
  /\ \A k \in Threads : StepsFit(m, mo, w, k, td[k])
  /\ Windows(m, w) /\ Closings(m, td, w, cl)

\* a task inside Activate
ActivateOps == {"activateNew", "raise", "drawActive", "tell"}
Inside(q) == \E s \in Range(q) : s.op \in ActivateOps

\* before any race: what will be dereferenced is alive, and at most one task is
\* inside Activate
Alive(m, s) ==
  /\ s.op \in Activations => s.id \in {NoLayer} \cup Live(m)
  /\ s.op = "raise" => m.active \in Live(m)
Safe(m, mo, td) ==
  /\ mo.drag \in {NoLayer} \cup Live(m)
  /\ \A k \in Threads : \A s \in Range(td[k]) : Alive(m, s)
  /\ \A j, k \in Threads : Inside(td[j]) /\ Inside(td[k]) => j = k

MouseStates == [pos : Pixels, drag : IdsOrNone, pressed : BOOLEAN, moves : 0 .. MaxMoves]

TypeInv ==
  /\ mgr \in Managers
  /\ mouse \in MouseStates
  /\ todo \in [Threads -> Seq(Steps)]
  /\ window \in [Tasks -> IdsOrNone] /\ DOMAIN closing = Tasks
  /\ fault \in {"none", "null", "iterator"} /\ raced \in BOOLEAN
  /\ asked \subseteq Tasks /\ inbox \subseteq Ids

LayerInv ==
  /\ TypeInv
  /\ fault = "none" => Sound(mgr) /\ Clients(mgr, mouse, todo, window, closing)
  /\ ~raced => fault # "null" /\ (fault = "none" => Safe(mgr, mouse, todo))

-----------------------------------------------------------------------------
(***************************************************************************)
(* The stack: finding, removing and inserting a layer                      *)
(***************************************************************************)

\* A nonempty set of numbers has a least element.
LEMMA LeastExists ==
  ASSUME NEW T \in SUBSET Nat, T # {}
  PROVE  \E m \in T : \A k \in T : m <= k
<1> DEFINE R == OpToRel(<, Nat)
<1>1. \E x \in T : \A y \in T : ~(<<y, x>> \in R)
  BY NatLessThanWellFounded, WFMin, Zenon
<1>2. \A x, y \in T : <<y, x>> \notin R => ~(y < x)
  BY Zenon DEF OpToRel
<1>3. \E x \in T : \A y \in T : ~(y < x)
  BY <1>1, <1>2, Zenon
<1> QED BY <1>3

\* Min and Max of a set of places.
LEMMA MinIs ==
  ASSUME NEW S \in SUBSET Nat, S # {}
  PROVE  Min(S) \in S /\ \A y \in S : Min(S) <= y
<1>1. \E x \in S : \A y \in S : x <= y
  BY LeastExists
<1> QED BY <1>1 DEF Min

\* The greatest element of a nonempty set of places.
LEMMA MaxIs ==
  ASSUME NEW n \in Nat, NEW S \in SUBSET (1 .. n), S # {}
  PROVE  Max(S) \in S /\ \A y \in S : y <= Max(S)
<1> DEFINE T == {n - t : t \in S}
<1>1. T \in SUBSET Nat /\ T # {}
  OBVIOUS
<1>2. PICK t \in T : \A k \in T : t <= k
  <2> HIDE DEF T
  <2> QED BY <1>1, LeastExists
<1>3. \E x \in S : \A y \in S : y <= x
  <2>1. PICK x \in S : t = n - x
    BY <1>2
  <2>2. ASSUME NEW y \in S PROVE y <= x
    <3>1. t <= n - y
      BY <1>2
    <3> QED BY <2>1, <3>1
  <2> QED BY <2>1, <2>2
<1>4. \E x \in S : \A y \in S : x >= y
  BY <1>3
<1>5. Max(S) \in S /\ \A y \in S : Max(S) >= y
  BY <1>4 DEF Max
<1> QED BY <1>5

\* Height is the place of the layer in the stack.
LEMMA HeightIs ==
  ASSUME NEW m, NEW id, m.stack \in Seq(Ids)
  PROVE  /\ Height(m, id) \in 0 .. Len(m.stack)
         /\ Height(m, id) = 0 => id \notin Range(m.stack)
         /\ Height(m, id) # 0 => id \in Range(m.stack) /\ m.stack[Height(m, id)] = id
<1> DEFINE I == {i \in 1 .. Len(m.stack) : m.stack[i] = id}
<1>1. Height(m, id) = IF I # {} THEN Min(I) ELSE 0
  BY DEF Height, SelectInSeq
<1>2. Len(m.stack) \in Nat /\ I \in SUBSET Nat
  OBVIOUS
<1>3. I # {} => Min(I) \in I
  <2> HIDE DEF I
  <2> QED BY <1>2, MinIs
<1>4. id \in Range(m.stack) <=> I # {}
  BY DEF Range
<1>5. CASE I = {}
  <2>1. Height(m, id) = 0
    BY <1>1, <1>5
  <2> QED BY <2>1, <1>2, <1>4, <1>5
<1>6. CASE I # {}
  <2>1. Height(m, id) \in I
    BY <1>1, <1>3, <1>6
  <2> QED BY <2>1, <1>2, <1>4, <1>6
<1> QED BY <1>5, <1>6

\* In a stack with each layer once, the place of a layer is unique.
LEMMA HeightAt ==
  ASSUME NEW m, m.stack \in Seq(Ids), IsInjective(m.stack), NEW k \in 1 .. Len(m.stack)
  PROVE  Height(m, m.stack[k]) = k
<1>1. m.stack[k] \in Range(m.stack)
  BY DEF Range
<1>2. Height(m, m.stack[k]) \in 1 .. Len(m.stack) /\ m.stack[Height(m, m.stack[k])] = m.stack[k]
  BY <1>1, HeightIs
<1> QED BY <1>2 DEF IsInjective

\* Taking a layer out.
LEMMA RemoveAtIs ==
  ASSUME NEW S, NEW s \in Seq(S), NEW h \in 1 .. Len(s)
  PROVE  /\ RemoveAt(s, h) \in Seq(S) /\ Len(RemoveAt(s, h)) = Len(s) - 1
         /\ \A i \in 1 .. h - 1 : RemoveAt(s, h)[i] = s[i]
         /\ \A i \in h .. Len(s) - 1 : RemoveAt(s, h)[i] = s[i + 1]
<1>1. PICK n \in Nat : n = Len(s)
  OBVIOUS
<1>2. PICK u : u = SubSeq(s, 1, h - 1)
  OBVIOUS
<1>3. PICK v : v = SubSeq(s, h + 1, Len(s))
  OBVIOUS
<1>4. u \in Seq(S) /\ Len(u) = h - 1 /\ \A i \in 1 .. h - 1 : u[i] = s[i]
  BY <1>1, <1>2, SubSeqProperties
<1>5. v \in Seq(S) /\ Len(v) = n - h /\ \A i \in 1 .. n - h : v[i] = s[h + i]
  BY <1>1, <1>3, SubSeqProperties
<1>6. RemoveAt(s, h) = u \o v
  BY <1>2, <1>3 DEF RemoveAt
<1>7. PICK r : r = u \o v
  OBVIOUS
<1>8. /\ r \in Seq(S) /\ Len(r) = Len(u) + Len(v)
      /\ \A i \in 1 .. Len(u) + Len(v) : r[i] = IF i <= Len(u) THEN u[i] ELSE v[i - Len(u)]
  BY <1>4, <1>5, <1>7, ConcatProperties
<1>9. Len(r) = n - 1
  BY <1>4, <1>5, <1>8, <1>1
<1>10. ASSUME NEW i \in 1 .. h - 1 PROVE r[i] = s[i]
  <2>1. i \in 1 .. Len(u) + Len(v) /\ i <= Len(u)
    BY <1>1, <1>4, <1>5
  <2>2. r[i] = u[i]
    BY <1>8, <2>1
  <2> QED BY <1>4, <2>2
<1>11. ASSUME NEW i \in h .. n - 1 PROVE r[i] = s[i + 1]
  <2>1. i \in 1 .. Len(u) + Len(v) /\ ~(i <= Len(u)) /\ i - (h - 1) \in 1 .. n - h
    BY <1>1, <1>4, <1>5
  <2>2. r[i] = v[i - (h - 1)]
    BY <1>4, <1>8, <2>1
  <2>3. h + (i - (h - 1)) = i + 1
    BY <1>1
  <2> QED BY <1>5, <2>1, <2>2, <2>3
<1> QED BY <1>1, <1>6, <1>7, <1>8, <1>9, <1>10, <1>11

\* Putting a layer in.
LEMMA InsertAtIs ==
  ASSUME NEW S, NEW s \in Seq(S), NEW k \in 1 .. Len(s) + 1, NEW e \in S
  PROVE  /\ InsertAt(s, k, e) \in Seq(S) /\ Len(InsertAt(s, k, e)) = Len(s) + 1
         /\ \A i \in 1 .. k - 1 : InsertAt(s, k, e)[i] = s[i]
         /\ InsertAt(s, k, e)[k] = e
         /\ \A i \in k + 1 .. Len(s) + 1 : InsertAt(s, k, e)[i] = s[i - 1]
<1>1. PICK n \in Nat : n = Len(s)
  OBVIOUS
<1>2. PICK u : u = SubSeq(s, 1, k - 1)
  OBVIOUS
<1>3. PICK v : v = SubSeq(s, k, Len(s))
  OBVIOUS
<1>4. u \in Seq(S) /\ Len(u) = k - 1 /\ \A i \in 1 .. k - 1 : u[i] = s[i]
  BY <1>1, <1>2, SubSeqProperties
<1>5. v \in Seq(S) /\ Len(v) = n - k + 1 /\ \A i \in 1 .. n - k + 1 : v[i] = s[k + i - 1]
  BY <1>1, <1>3, SubSeqProperties
<1>6. PICK w : w = u \o <<e>>
  OBVIOUS
<1>7. w \in Seq(S) /\ Len(w) = k /\ (\A i \in 1 .. k - 1 : w[i] = s[i]) /\ w[k] = e
  <2>1. <<e>> \in Seq(S) /\ Len(<<e>>) = 1 /\ <<e>>[1] = e
    OBVIOUS
  <2>2. PICK y : y = <<e>>
    OBVIOUS
  <2>3. y \in Seq(S) /\ Len(y) = 1 /\ y[1] = e
    BY <2>1, <2>2
  <2>4. /\ w \in Seq(S) /\ Len(w) = Len(u) + Len(y)
        /\ \A i \in 1 .. Len(u) + Len(y) : w[i] = IF i <= Len(u) THEN u[i] ELSE y[i - Len(u)]
    BY <1>4, <1>6, <2>2, <2>3, ConcatProperties
  <2>5. Len(w) = k
    BY <1>4, <2>3, <2>4, <1>1
  <2>6. \A i \in 1 .. k - 1 : w[i] = s[i]
    BY <1>4, <2>3, <2>4, <1>1
  <2>7. w[k] = y[k - Len(u)]
    BY <1>4, <2>3, <2>4, <1>1
  <2>8. k - Len(u) = 1
    BY <1>4, <1>1
  <2> QED BY <2>3, <2>4, <2>5, <2>6, <2>7, <2>8
<1>8. PICK r : r = w \o v
  OBVIOUS
<1>9. InsertAt(s, k, e) = r
  BY <1>2, <1>3, <1>6, <1>8 DEF InsertAt
<1>10. /\ r \in Seq(S) /\ Len(r) = Len(w) + Len(v)
       /\ \A i \in 1 .. Len(w) + Len(v) : r[i] = IF i <= Len(w) THEN w[i] ELSE v[i - Len(w)]
  BY <1>5, <1>7, <1>8, ConcatProperties
<1>11. Len(r) = n + 1
  BY <1>1, <1>5, <1>7, <1>10
<1>12. ASSUME NEW i \in 1 .. k - 1 PROVE r[i] = s[i]
  BY <1>1, <1>5, <1>7, <1>10
<1>13. r[k] = e
  BY <1>1, <1>5, <1>7, <1>10
<1>14. ASSUME NEW i \in k + 1 .. n + 1 PROVE r[i] = s[i - 1]
  <2>1. i \in 1 .. Len(w) + Len(v) /\ ~(i <= Len(w)) /\ i - k \in 1 .. n - k + 1
    BY <1>1, <1>5, <1>7
  <2>2. r[i] = v[i - k]
    BY <1>7, <1>10, <2>1
  <2>3. k + (i - k) - 1 = i - 1
    BY <1>1
  <2> QED BY <1>5, <2>1, <2>2, <2>3
<1> QED BY <1>1, <1>9, <1>10, <1>11, <1>12, <1>13, <1>14

\* Taking a layer out of a stack with each layer once leaves the others in
\* their order.
LEMMA RemoveFirstIs ==
  ASSUME NEW s \in Seq(Ids), IsInjective(s), NEW x
  PROVE  /\ RemoveFirst(s, x) \in Seq(Ids) /\ IsInjective(RemoveFirst(s, x))
         /\ Range(RemoveFirst(s, x)) = Range(s) \ {x}
         /\ Len(RemoveFirst(s, x)) = IF x \in Range(s) THEN Len(s) - 1 ELSE Len(s)
         /\ \A a, b : a # x /\ b # x /\ Below(s, a, b) => Below(RemoveFirst(s, x), a, b)
         /\ s # <<>> /\ Last(s) # x => RemoveFirst(s, x) # <<>> /\ Last(RemoveFirst(s, x)) = Last(s)
<1>1. CASE x \notin Range(s)
  <2>1. RemoveFirst(s, x) = s
    BY <1>1 DEF RemoveFirst, Range
  <2> QED BY <1>1, <2>1, Zenon
<1>2. CASE x \in Range(s)
  <2> DEFINE I == {i \in 1 .. Len(s) : s[i] = x}
  <2>1. I # {} /\ I \in SUBSET Nat
    BY <1>2 DEF Range
  <2>2. PICK h : h = Min(I)
    OBVIOUS
  <2>3. h \in 1 .. Len(s) /\ s[h] = x
    <3>1. Min(I) \in I
      <4> HIDE DEF I
      <4> QED BY <2>1, MinIs
    <3> QED BY <3>1, <2>2
  <2>4. RemoveFirst(s, x) = RemoveAt(s, h)
    <3>1. RemoveFirst(s, x) = RemoveAt(s, SelectInSeq(s, LAMBDA v : v = x))
      BY <2>3 DEF RemoveFirst
    <3>2. SelectInSeq(s, LAMBDA v : v = x) = h
      BY <2>1, <2>2 DEF SelectInSeq
    <3> QED BY <3>1, <3>2
  <2>5. PICK r : r = RemoveAt(s, h)
    OBVIOUS
  <2>6. /\ r \in Seq(Ids) /\ Len(r) = Len(s) - 1
        /\ \A i \in 1 .. h - 1 : r[i] = s[i]
        /\ \A i \in h .. Len(s) - 1 : r[i] = s[i + 1]
    BY <2>3, <2>5, RemoveAtIs
  <2>7. PICK n \in Nat : n = Len(s)
    OBVIOUS
  <2>8. DOMAIN s = 1 .. n /\ DOMAIN r = 1 .. n - 1 /\ h \in 1 .. n
    BY <2>3, <2>6, <2>7
  <2>9. \A i, j \in 1 .. n : s[i] = s[j] => i = j
    BY <2>8 DEF IsInjective
  <2>10. \A i \in 1 .. n : i < h => i \in 1 .. n - 1 /\ r[i] = s[i]
    BY <2>6, <2>7, <2>8
  <2>11. \A i \in 1 .. n : i > h => i - 1 \in 1 .. n - 1 /\ r[i - 1] = s[i]
    <3>1. ASSUME NEW i \in 1 .. n, i > h PROVE i - 1 \in 1 .. n - 1 /\ r[i - 1] = s[i]
      <4>1. i - 1 \in h .. Len(s) - 1 /\ (i - 1) + 1 = i /\ i - 1 \in 1 .. n - 1
        BY <2>7, <2>8, <3>1
      <4> QED BY <4>1, <2>6
    <3> QED BY <3>1
  <2>12. \A i \in 1 .. n - 1 : r[i] = IF i < h THEN s[i] ELSE s[i + 1]
    BY <2>6, <2>7, <2>8
  <2>13. IsInjective(r)
    <3> SUFFICES ASSUME NEW i \in 1 .. n - 1, NEW j \in 1 .. n - 1, r[i] = r[j] PROVE i = j
      BY <2>8 DEF IsInjective
    <3>1. i \in 1 .. n /\ j \in 1 .. n /\ i + 1 \in 1 .. n /\ j + 1 \in 1 .. n
      BY <2>8
    <3>2. (r[i] = s[i] /\ i < h) \/ (r[i] = s[i + 1] /\ i + 1 > h)
      BY <2>8, <2>12
    <3>3. (r[j] = s[j] /\ j < h) \/ (r[j] = s[j + 1] /\ j + 1 > h)
      BY <2>8, <2>12
    <3> QED BY <2>8, <2>9, <3>1, <3>2, <3>3
  <2>14. Range(r) = Range(s) \ {x}
    <3>1. ASSUME NEW y \in Range(r) PROVE y \in Range(s) /\ y # x
      <4>1. PICK i \in 1 .. n - 1 : y = r[i]
        BY <2>8 DEF Range
      <4>2. \E j \in 1 .. n : y = s[j] /\ j # h
        BY <4>1, <2>12, <2>8
      <4> QED BY <4>2, <2>9, <2>8, <2>3 DEF Range
    <3>2. ASSUME NEW y \in Range(s), y # x PROVE y \in Range(r)
      <4>1. PICK i \in 1 .. n : y = s[i] /\ i # h
        BY <3>2, <2>3, <2>8 DEF Range
      <4>2. \E j \in 1 .. n - 1 : y = r[j]
        BY <4>1, <2>8, <2>10, <2>11
      <4> QED BY <4>2, <2>8 DEF Range
    <3> QED BY <3>1, <3>2
  <2>15. ASSUME NEW a, NEW b, a # x, b # x, Below(s, a, b) PROVE Below(r, a, b)
    <3>1. PICK i \in 1 .. n, j \in 1 .. n : i < j /\ s[i] = a /\ s[j] = b
      BY <2>8, <2>15 DEF Below
    <3>2. i # h /\ j # h
      BY <3>1, <2>3, <2>15
    <3>3. CASE j < h
      <4>1. i < h
        BY <3>1, <3>3, <2>8
      <4>2. i \in 1 .. n - 1 /\ j \in 1 .. n - 1 /\ r[i] = a /\ r[j] = b
        BY <3>1, <3>3, <4>1, <2>10
      <4> QED BY <3>1, <4>2, <2>8 DEF Below
    <3>4. CASE i < h /\ j > h
      <4>1. i \in 1 .. n - 1 /\ j - 1 \in 1 .. n - 1 /\ r[i] = a /\ r[j - 1] = b
        BY <3>1, <3>4, <2>10, <2>11
      <4>2. i < j - 1
        BY <3>4, <2>8
      <4> QED BY <4>1, <4>2, <2>8 DEF Below
    <3>5. CASE i > h
      <4>1. j > h
        BY <3>1, <3>5, <2>8
      <4>2. i - 1 \in 1 .. n - 1 /\ j - 1 \in 1 .. n - 1 /\ r[i - 1] = a /\ r[j - 1] = b
        BY <3>1, <3>5, <4>1, <2>11
      <4>3. i - 1 < j - 1
        BY <3>1
      <4> QED BY <4>2, <4>3, <2>8 DEF Below
    <3> QED BY <3>2, <3>3, <3>4, <3>5, <3>1, <2>8
  <2>16. ASSUME Last(s) # x PROVE r # <<>> /\ Last(r) = Last(s)
    <3>1. s[n] # x /\ n # h
      BY <2>16, <2>7, <2>3 DEF Last
    <3>2. n - 1 \in 1 .. n - 1 /\ r[n - 1] = s[n]
      BY <3>1, <2>8, <2>11
    <3>3. r # <<>>
      BY <3>2, <2>6, <2>7
    <3> QED BY <3>2, <3>3, <2>6, <2>7 DEF Last
  <2> QED BY <1>2, <2>4, <2>5, <2>6, <2>13, <2>14, <2>15, <2>16
<1> QED BY <1>1, <1>2

\* Putting in a layer that is not in the stack leaves the others in their order.
LEMMA InsertIs ==
  ASSUME NEW s \in Seq(Ids), IsInjective(s), NEW x \in Ids, x \notin Range(s), NEW k \in 1 .. Len(s) + 1
  PROVE  /\ InsertAt(s, k, x) \in Seq(Ids) /\ IsInjective(InsertAt(s, k, x))
         /\ Range(InsertAt(s, k, x)) = Range(s) \cup {x}
         /\ Len(InsertAt(s, k, x)) = Len(s) + 1 /\ InsertAt(s, k, x)[k] = x
         /\ \A a, b : Below(s, a, b) => Below(InsertAt(s, k, x), a, b)
         /\ k <= Len(s) => Last(InsertAt(s, k, x)) = Last(s)
<1>1. PICK n \in Nat : n = Len(s)
  OBVIOUS
<1>2. PICK r : r = InsertAt(s, k, x)
  OBVIOUS
<1>3. /\ r \in Seq(Ids) /\ Len(r) = n + 1
      /\ \A i \in 1 .. k - 1 : r[i] = s[i]
      /\ r[k] = x
      /\ \A i \in k + 1 .. n + 1 : r[i] = s[i - 1]
  BY <1>1, <1>2, InsertAtIs, SMTT(30)
<1>4. DOMAIN s = 1 .. n /\ DOMAIN r = 1 .. n + 1 /\ k \in 1 .. n + 1
  BY <1>1, <1>3
<1>5. \A i \in 1 .. n : (i < k => r[i] = s[i]) /\ (i >= k => r[i + 1] = s[i]) /\ i + 1 \in 1 .. n + 1 /\ i \in 1 .. n + 1
  <2>1. ASSUME NEW i \in 1 .. n, i >= k PROVE r[i + 1] = s[i]
    <3>1. i + 1 \in k + 1 .. n + 1 /\ (i + 1) - 1 = i
      BY <2>1, <1>4
    <3> QED BY <3>1, <1>3
  <2>2. ASSUME NEW i \in 1 .. n, i < k PROVE r[i] = s[i]
    BY <2>2, <1>3, <1>4
  <2> QED BY <2>1, <2>2
<1>6. \A i, j \in 1 .. n : s[i] = s[j] => i = j
  BY <1>4 DEF IsInjective
<1>7. \A i \in 1 .. n : s[i] # x
  BY <1>4 DEF Range
<1>8. \A i \in 1 .. n + 1 : i = k \/ (i < k /\ i \in 1 .. n /\ r[i] = s[i]) \/ (i > k /\ i - 1 \in 1 .. n /\ r[i] = s[i - 1])
  BY <1>3, <1>4
<1>9. IsInjective(r)
  <2> SUFFICES ASSUME NEW i \in 1 .. n + 1, NEW j \in 1 .. n + 1, r[i] = r[j] PROVE i = j
    BY <1>4 DEF IsInjective
  <2> QED BY <1>3, <1>6, <1>7, <1>8, <1>4
<1>10. Range(r) = Range(s) \cup {x}
  <2>1. ASSUME NEW y \in Range(r) PROVE y \in Range(s) \cup {x}
    <3>1. PICK i \in 1 .. n + 1 : y = r[i]
      BY <1>4 DEF Range
    <3> QED BY <3>1, <1>3, <1>8, <1>4 DEF Range
  <2>2. ASSUME NEW y \in Range(s) PROVE y \in Range(r)
    <3>1. PICK i \in 1 .. n : y = s[i]
      BY <1>4 DEF Range
    <3>2. i < k \/ i >= k
      BY <1>4
    <3> QED BY <3>1, <3>2, <1>5, <1>4 DEF Range
  <2>3. x \in Range(r)
    BY <1>3, <1>4 DEF Range
  <2> QED BY <2>1, <2>2, <2>3
<1>11. ASSUME NEW a, NEW b, Below(s, a, b) PROVE Below(r, a, b)
  <2>1. PICK i \in 1 .. n, j \in 1 .. n : i < j /\ s[i] = a /\ s[j] = b
    BY <1>4, <1>11 DEF Below
  <2>2. CASE j < k
    <3>1. i < k
      BY <2>1, <2>2, <1>4
    <3>2. r[i] = a /\ r[j] = b
      BY <2>1, <2>2, <3>1, <1>5
    <3> QED BY <2>1, <3>2, <1>4, <1>5 DEF Below
  <2>3. CASE i < k /\ j >= k
    <3>1. r[i] = a /\ r[j + 1] = b /\ i < j + 1
      BY <2>1, <2>3, <1>5
    <3> QED BY <3>1, <1>4, <1>5 DEF Below
  <2>4. CASE i >= k
    <3>1. r[i + 1] = a /\ r[j + 1] = b /\ i + 1 < j + 1
      BY <2>1, <2>4, <1>5, <1>4
    <3> QED BY <3>1, <1>4, <1>5 DEF Below
  <2> QED BY <2>1, <2>2, <2>3, <2>4, <1>4
<1>12. ASSUME k <= n PROVE Last(r) = Last(s)
  <2>1. n \in 1 .. n /\ n >= k
    BY <1>12, <1>4
  <2>2. r[n + 1] = s[n]
    BY <2>1, <1>5
  <2> QED BY <2>2, <1>1, <1>3 DEF Last
<1> QED BY <1>1, <1>2, <1>3, <1>9, <1>10, <1>11, <1>12

-----------------------------------------------------------------------------
(***************************************************************************)
(* The layer manager                                                       *)
(***************************************************************************)

\* The types of a manager's fields.
LEMMA ManagerFacts ==
  ASSUME NEW m \in Managers
  PROVE  /\ Live(m) \in SUBSET Ids /\ m.layers \in [Live(m) -> LayerRecords]
         /\ m.latest \in IdsOrNone /\ m.stack \in Seq(Ids) /\ m.active \in IdsOrNone /\ m.mouse \in {NoLayer, MouseLayer}
         /\ DOMAIN m.owner \in SUBSET Ids /\ m.owner \in [DOMAIN m.owner -> Tasks] /\ m.told \in [Tasks -> BOOLEAN]
         /\ m.back \in [Pixels -> PixelRecords] /\ m.screen \in [Pixels -> PixelRecords]
<1>1. /\ m.layers \in UNION {[S -> LayerRecords] : S \in SUBSET Ids}
      /\ m.owner \in UNION {[S -> Tasks] : S \in SUBSET Ids}
      /\ m.latest \in IdsOrNone /\ m.stack \in Seq(Ids) /\ m.active \in IdsOrNone /\ m.mouse \in {NoLayer, MouseLayer}
      /\ m.told \in [Tasks -> BOOLEAN]
      /\ m.back \in [Pixels -> PixelRecords] /\ m.screen \in [Pixels -> PixelRecords]
  BY DEF Managers
<1>2. PICK S \in SUBSET Ids : m.layers \in [S -> LayerRecords]
  BY <1>1
<1>3. PICK T \in SUBSET Ids : m.owner \in [T -> Tasks]
  BY <1>1
<1>4. Live(m) = S /\ DOMAIN m.owner = T
  BY <1>2, <1>3 DEF Live
<1> QED BY <1>1, <1>2, <1>3, <1>4

\* n has the layers, the stack, the active layer and the cursor of m
Similar(m, n) ==
  /\ n \in Managers /\ Live(n) = Live(m) /\ n.stack = m.stack /\ n.active = m.active
  /\ n.mouse = m.mouse /\ n.latest = m.latest

\* What a stack is sound by is the same in similar managers.
LEMMA SimilarSound ==
  ASSUME NEW m, NEW n, Similar(m, n), Sound(m)
  PROVE  Sound(n)
  BY DEF Similar, Sound, NotCursor

\* Similarity is transitive.
LEMMA SimilarTrans ==
  ASSUME NEW m, NEW n, NEW o, Similar(m, n), Similar(n, o)
  PROVE  Similar(m, o)
  BY DEF Similar

\* Replacing the stack.
LEMMA WithStack ==
  ASSUME NEW m \in Managers, NEW st \in Seq(Ids), NEW n, n = [m EXCEPT !.stack = st]
  PROVE  /\ n \in Managers /\ n.stack = st /\ n.layers = m.layers /\ n.latest = m.latest
         /\ n.active = m.active /\ n.mouse = m.mouse
  BY DEF Managers

\* Replacing the back buffer.
LEMMA WithBack ==
  ASSUME NEW m \in Managers, NEW ba \in [Pixels -> PixelRecords], NEW n, n = [m EXCEPT !.back = ba]
  PROVE  Similar(m, n) /\ n.back = ba /\ n.screen = m.screen /\ n.layers = m.layers
  BY DEF Managers, Similar, Live

\* Replacing the screen.
LEMMA WithScreen ==
  ASSUME NEW m \in Managers, NEW sc \in [Pixels -> PixelRecords], NEW n, n = [m EXCEPT !.screen = sc]
  PROVE  Similar(m, n) /\ n.layers = m.layers
  BY DEF Managers, Similar, Live

\* Replacing what tasks were told.
LEMMA WithTold ==
  ASSUME NEW m \in Managers, NEW te \in [Tasks -> BOOLEAN], NEW n, n = [m EXCEPT !.told = te]
  PROVE  Similar(m, n) /\ n.layers = m.layers
  BY DEF Managers, Similar, Live

\* Replacing active_layer_.
LEMMA WithActive ==
  ASSUME NEW m \in Managers, NEW ac \in IdsOrNone, NEW n, n = [m EXCEPT !.active = ac]
  PROVE  /\ n \in Managers /\ n.active = ac /\ n.layers = m.layers /\ n.latest = m.latest
         /\ n.stack = m.stack /\ n.mouse = m.mouse
  BY DEF Managers

\* Replacing the layers.
LEMMA WithLayers ==
  ASSUME NEW m \in Managers, NEW S \in SUBSET Ids, NEW la \in [S -> LayerRecords], NEW n, n = [m EXCEPT !.layers = la]
  PROVE  /\ n \in Managers /\ n.layers = la /\ Live(n) = S /\ n.latest = m.latest
         /\ n.stack = m.stack /\ n.mouse = m.mouse /\ n.active = m.active
<1>1. la \in UNION {[U -> LayerRecords] : U \in SUBSET Ids}
  OBVIOUS
<1>2. DOMAIN la = S
  OBVIOUS
<1> HIDE DEF LayerRecords
<1> QED BY <1>1, <1>2 DEF Managers, Live

\* Replacing layer_task_map.
LEMMA WithOwner ==
  ASSUME NEW m \in Managers, NEW S \in SUBSET Ids, NEW ow \in [S -> Tasks], NEW n, n = [m EXCEPT !.owner = ow]
  PROVE  Similar(m, n) /\ n.layers = m.layers
<1>1. ow \in UNION {[U -> Tasks] : U \in SUBSET Ids}
  OBVIOUS
<1> QED BY <1>1 DEF Managers, Similar, Live

\* The area of a layer is a set of numbers.
LEMMA AreaFacts ==
  ASSUME NEW m \in Managers, NEW l \in Live(m)
  PROVE  /\ m.layers[l].pos \in Int /\ m.layers[l].kind \in Kinds /\ m.layers[l].lit \in BOOLEAN
         /\ Area(m.layers[l]) \in SUBSET Int
<1>1. m.layers[l] \in LayerRecords
  BY ManagerFacts
<1>2. m.layers[l].pos \in Int /\ m.layers[l].kind \in Kinds /\ m.layers[l].lit \in BOOLEAN
  BY <1>1 DEF LayerRecords
<1>3. Width(m.layers[l].kind) \in Nat
  BY <1>2, LayerAssumption DEF Width, Kinds
<1> QED BY <1>2, <1>3 DEF Area

\* A layer's pixels.
LEMMA ContentType ==
  ASSUME NEW m \in Managers, NEW l \in Live(m), NEW p
  PROVE  Content(m, l, p) \in PixelRecords
<1>1. l \in IdsOrNone /\ m.layers[l].lit \in BOOLEAN
  BY ManagerFacts, AreaFacts, LayerAssumption DEF Ids, IdsOrNone
<1> QED BY <1>1 DEF Content, PixelRecords

\* What is in a stack of live layers is a live layer.
LEMMA StackLive ==
  ASSUME NEW m \in Managers, Range(m.stack) \subseteq Live(m), NEW h \in 1 .. Len(m.stack)
  PROVE  m.stack[h] \in Live(m)
<1>1. m.stack \in Seq(Ids)
  BY ManagerFacts
<1>2. m.stack[h] \in Range(m.stack)
  BY <1>1 DEF Range
<1> QED BY <1>2

\* FrameBuffer::Copy.
LEMMA CopyIs ==
  ASSUME NEW m \in Managers, NEW a, NEW n, n = CopyToScreen(m, a)
  PROVE  Similar(m, n)
<1>1. PICK sc : sc = [p \in Pixels |-> IF p \in a THEN m.back[p] ELSE m.screen[p]]
  OBVIOUS
<1>2. sc \in [Pixels -> PixelRecords]
  BY <1>1, ManagerFacts
<1> QED BY <1>1, <1>2, WithScreen DEF CopyToScreen

\* Window::DrawTo of a layer of the stack.
LEMMA DrawToIs ==
  ASSUME NEW m \in Managers, NEW l \in Live(m), NEW a, NEW n, n = DrawTo(m, l, a)
  PROVE  Similar(m, n)
<1>1. PICK ba : ba = [p \in Pixels |-> IF p \in Drawn(m, l, a) THEN Content(m, l, p) ELSE m.back[p]]
  OBVIOUS
<1>2. \A p \in Pixels : Content(m, l, p) \in PixelRecords
  BY ContentType
<1>3. ba \in [Pixels -> PixelRecords]
  BY <1>1, <1>2, ManagerFacts
<1> QED BY <1>1, <1>3, WithBack DEF DrawTo

\* The whole loop over the stack, and the copy.
LEMMA DrawFromIs ==
  ASSUME NEW m \in Managers, Range(m.stack) \subseteq Live(m), NEW h \in Nat \ {0}, NEW a, NEW n, n = DrawFrom(m, h, a)
  PROVE  Similar(m, n)
<1>1. PICK ba : ba = Painted(m, h, a)
  OBVIOUS
<1>2. ASSUME NEW p \in Pixels PROVE ba[p] \in PixelRecords
  <2>1. PICK O : O = Over(m, h, a, p)
    OBVIOUS
  <2>2. ba[p] = IF O = {} THEN m.back[p] ELSE Content(m, m.stack[Max(O)], p)
    BY <1>1, <2>1 DEF Painted
  <2>3. CASE O = {}
    BY <2>2, <2>3, ManagerFacts
  <2>4. CASE O # {}
    <3>1. Len(m.stack) \in Nat /\ O \in SUBSET (1 .. Len(m.stack))
      BY <2>1, ManagerFacts DEF Over
    <3>2. Max(O) \in 1 .. Len(m.stack)
      BY <3>1, <2>4, MaxIs
    <3>3. Content(m, m.stack[Max(O)], p) \in PixelRecords
      BY <3>2, StackLive, ContentType
    <3> QED BY <2>2, <2>4, <3>3
  <2> QED BY <2>3, <2>4
<1>3. ba = [p \in Pixels |-> ba[p]]
  BY <1>1 DEF Painted
<1>4. ba \in [Pixels -> PixelRecords]
  BY <1>2, <1>3
<1>5. PICK o : o = [m EXCEPT !.back = ba]
  OBVIOUS
<1>6. Similar(m, o)
  BY <1>4, <1>5, WithBack
<1>7. n = CopyToScreen(o, a)
  BY <1>1, <1>5 DEF DrawFrom
<1>8. Similar(o, n)
  BY <1>6, <1>7, CopyIs DEF Similar
<1> QED BY <1>6, <1>8, SimilarTrans

\* Draw(id), of a layer in the stack or not.
LEMMA DrawOutcomesIs ==
  ASSUME NEW m \in Managers, Sound(m), NEW id, NEW n \in DrawOutcomes(m, id)
  PROVE  Similar(m, n)
<1>1. CASE Height(m, id) > 0
  <2>1. PICK h : h = Height(m, id)
    OBVIOUS
  <2>2. h \in Nat \ {0}
    BY <1>1, <2>1, ManagerFacts, HeightIs
  <2>3. n = DrawFrom(m, h, Area(m.layers[id]))
    BY <1>1, <2>1 DEF DrawOutcomes
  <2>4. Range(m.stack) \subseteq Live(m)
    BY DEF Sound
  <2> QED BY <2>2, <2>3, <2>4, DrawFromIs
<1>2. CASE ~(Height(m, id) > 0)
  <2>1. PICK a : n = CopyToScreen(m, a)
    BY <1>2 DEF DrawOutcomes
  <2> QED BY <2>1, CopyIs
<1> QED BY <1>1, <1>2

\* SendWindowActiveMessage.
LEMMA SendIs ==
  ASSUME NEW m \in Managers, NEW id, NEW activate \in BOOLEAN, NEW n, n = SendWindowActive(m, id, activate)
  PROVE  Similar(m, n)
<1>1. CASE id \notin DOMAIN m.owner
  <2>1. n = m
    BY <1>1 DEF SendWindowActive
  <2> QED BY <2>1 DEF Similar
<1>2. CASE id \in DOMAIN m.owner
  <2>1. PICK te : te = [m.told EXCEPT ![m.owner[id]] = activate]
    OBVIOUS
  <2>2. m.told \in [Tasks -> BOOLEAN] /\ m.owner[id] \in Tasks
    BY <1>2, ManagerFacts
  <2>3. te \in [Tasks -> BOOLEAN]
    BY <2>1, <2>2
  <2>4. n = [m EXCEPT !.told = te]
    BY <1>2, <2>1 DEF SendWindowActive
  <2> QED BY <2>3, <2>4, WithTold
<1> QED BY <1>1, <1>2

\* A layer's record is replaced: Move, Activate and Deactivate of its window.
LEMMA RelaidIs ==
  ASSUME NEW m \in Managers, NEW id \in Live(m), NEW v \in LayerRecords,
         NEW n, n = [m EXCEPT !.layers = [m.layers EXCEPT ![id] = v]]
  PROVE  Similar(m, n)
<1>1. PICK la : la = [m.layers EXCEPT ![id] = v]
  OBVIOUS
<1>2. la \in [Live(m) -> LayerRecords] /\ Live(m) \in SUBSET Ids
  BY <1>1, ManagerFacts
<1>3. /\ n \in Managers /\ Live(n) = Live(m) /\ n.latest = m.latest
      /\ n.stack = m.stack /\ n.mouse = m.mouse /\ n.active = m.active
  BY <1>1, <1>2, WithLayers
<1> QED BY <1>3 DEF Similar

\* Window::Activate and Deactivate.
LEMMA LightIs ==
  ASSUME NEW m \in Managers, NEW id \in Live(m), NEW lit \in BOOLEAN, NEW n, n = Light(m, id, lit)
  PROVE  Similar(m, n)
<1>1. PICK v : v = [m.layers[id] EXCEPT !.lit = lit]
  OBVIOUS
<1>2. v \in LayerRecords
  <2>1. m.layers[id] \in LayerRecords
    BY ManagerFacts
  <2> QED BY <1>1, <2>1 DEF LayerRecords
<1>3. n = [m EXCEPT !.layers = [m.layers EXCEPT ![id] = v]]
  BY <1>1 DEF Light
<1> QED BY <1>2, <1>3, RelaidIs, Zenon

\* Layer::Move and MoveRelative.
LEMMA ShiftIs ==
  ASSUME NEW m \in Managers, NEW id \in Live(m), NEW by \in Int, NEW n, n = [m EXCEPT !.layers[id].pos = @ + by]
  PROVE  Similar(m, n)
<1>1. PICK v : v = [m.layers[id] EXCEPT !.pos = @ + by]
  OBVIOUS
<1>2. v \in LayerRecords
  <2>1. m.layers[id] \in LayerRecords
    BY ManagerFacts
  <2> QED BY <1>1, <2>1 DEF LayerRecords
<1>3. n = [m EXCEPT !.layers = [m.layers EXCEPT ![id] = v]]
  BY <1>1
<1> QED BY <1>2, <1>3, RelaidIs, Zenon

\* n is m with another stack, sound like m's
Restacked(m, n) ==
  /\ n \in Managers /\ Sound(n) /\ n.layers = m.layers /\ n.latest = m.latest
  /\ n.active = m.active /\ n.mouse = m.mouse

\* A stack that keeps the cursor on top is sound.
LEMMA RestackedIs ==
  ASSUME NEW m \in Managers, Sound(m), NEW st \in Seq(Ids), IsInjective(st), Range(st) \subseteq Live(m),
         m.mouse # NoLayer => st # <<>> /\ Last(st) = m.mouse, NEW n, n = [m EXCEPT !.stack = st]
  PROVE  Restacked(m, n)
<1>1. /\ n \in Managers /\ n.stack = st /\ n.layers = m.layers /\ n.latest = m.latest
      /\ n.active = m.active /\ n.mouse = m.mouse
  BY WithStack
<1>2. Live(n) = Live(m)
  BY <1>1 DEF Live
<1>3. Sound(n)
  BY <1>1, <1>2 DEF Sound, NotCursor
<1> QED BY <1>1, <1>3 DEF Restacked

\* LayerManager::Hide of a layer that is not the cursor.
LEMMA HideIs ==
  ASSUME NEW m \in Managers, Sound(m), NEW id, id # NoLayer, NotCursor(m, id), NEW n, n = Hide(m, id)
  PROVE  Restacked(m, n) /\ Range(n.stack) = Range(m.stack) \ {id}
<1>1. PICK s \in Seq(Ids) : s = m.stack
  BY ManagerFacts
<1>2. IsInjective(s) /\ Range(s) \subseteq Live(m) /\ (m.mouse # NoLayer => s # <<>> /\ Last(s) = m.mouse)
  BY <1>1 DEF Sound
<1>3. PICK r : r = RemoveFirst(s, id)
  OBVIOUS
<1>4. /\ r \in Seq(Ids) /\ IsInjective(r) /\ Range(r) = Range(s) \ {id}
      /\ s # <<>> /\ Last(s) # id => r # <<>> /\ Last(r) = Last(s)
  BY <1>2, <1>3, RemoveFirstIs
<1>5. m.mouse # NoLayer => r # <<>> /\ Last(r) = m.mouse
  BY <1>2, <1>4 DEF NotCursor
<1>6. n = [m EXCEPT !.stack = r]
  BY <1>1, <1>3 DEF Hide
<1>7. Range(r) \subseteq Live(m)
  BY <1>2, <1>4
<1>8. Restacked(m, n)
  BY <1>4, <1>5, <1>6, <1>7, RestackedIs
<1>9. n.stack = r
  BY <1>4, <1>6, WithStack
<1> QED BY <1>1, <1>4, <1>8, <1>9

\* UpDown as Activate calls it, to the bottom or below the cursor.
LEMMA UpDownIs ==
  ASSUME NEW m \in Managers, Sound(m), NEW id \in Live(m), NotCursor(m, id),
         NEW h \in {0, BelowCursor(m)}, NEW n, n = UpDown(m, id, h)
  PROVE  Restacked(m, n)
<1>1. id \in Ids /\ id # NoLayer /\ m.stack \in Seq(Ids)
  BY ManagerFacts DEF Ids, NoLayer
<1>2. PICK len \in Nat : len = Len(m.stack)
  BY <1>1
<1>3. Height(m, m.mouse) \in 0 .. len /\ Height(m, id) \in 0 .. len
  BY <1>1, <1>2, HeightIs
<1>4. m.mouse # NoLayer => Height(m, m.mouse) = len /\ len \in 1 .. Len(m.stack)
  <2>1. SUFFICES ASSUME m.mouse # NoLayer PROVE Height(m, m.mouse) = len /\ len \in 1 .. Len(m.stack)
    OBVIOUS
  <2>2. m.stack # <<>> /\ Last(m.stack) = m.mouse /\ IsInjective(m.stack)
    BY <2>1 DEF Sound
  <2>3. len \in 1 .. Len(m.stack) /\ m.stack[len] = m.mouse
    BY <1>1, <1>2, <2>2 DEF Last
  <2> QED BY <1>1, <2>2, <2>3, HeightAt
<1>5. m.mouse = NoLayer => Height(m, m.mouse) = 0
  <2>1. SUFFICES ASSUME m.mouse = NoLayer, Height(m, m.mouse) # 0 PROVE FALSE
    OBVIOUS
  <2>2. m.mouse \in Range(m.stack)
    BY <1>1, <2>1, HeightIs
  <2>3. Range(m.stack) \subseteq Live(m) /\ Live(m) \subseteq Ids
    BY ManagerFacts DEF Sound
  <2> QED BY <2>1, <2>2, <2>3 DEF Ids, NoLayer
<1>6. h \in Int /\ (h = 0 \/ h = len - 2 \/ h < 0)
  BY <1>3, <1>4, <1>5 DEF BelowCursor
<1>7. m.mouse = NoLayer /\ ~(h < 0) => h = 0
  BY <1>5 DEF BelowCursor
<1>8. CASE h < 0
  <2>1. n = Hide(m, id)
    BY <1>8 DEF UpDown
  <2> QED BY <1>1, <2>1, HideIs
<1>9. CASE ~(h < 0)
  <2>1. PICK g : g = Hide(m, id)
    OBVIOUS
  <2>2. Restacked(m, g) /\ Range(g.stack) = Range(m.stack) \ {id}
    BY <1>1, <2>1, HideIs
  <2>3. PICK r \in Seq(Ids) : r = g.stack
    BY <2>2, ManagerFacts DEF Restacked
  <2>4. /\ IsInjective(r) /\ Range(r) \subseteq Live(m) /\ id \notin Range(r)
        /\ m.mouse # NoLayer => r # <<>> /\ Last(r) = m.mouse
    BY <2>2, <2>3 DEF Restacked, Sound, Live
  <2>5. Len(r) = IF Height(m, id) = 0 THEN len ELSE len - 1
    <3>1. g.stack = RemoveFirst(m.stack, id)
      BY <2>1 DEF Hide, Managers
    <3>2. IsInjective(m.stack)
      BY DEF Sound
    <3>3. Len(r) = IF id \in Range(m.stack) THEN len - 1 ELSE len
      BY <1>1, <1>2, <2>3, <3>1, <3>2, RemoveFirstIs
    <3>4. id \in Range(m.stack) <=> Height(m, id) # 0
      BY <1>1, HeightIs
    <3> QED BY <3>3, <3>4
  <2>6. h \in Nat /\ h <= len
    BY <1>6, <1>9
  <2>7. ASSUME NEW x \in Nat, NEW y \in Nat, x <= y PROVE Min({x, y}) = x
    <3>1. {x, y} \in SUBSET Nat /\ {x, y} # {}
      OBVIOUS
    <3>2. Min({x, y}) \in {x, y} /\ Min({x, y}) <= x
      BY <3>1, MinIs
    <3> QED BY <3>2, <2>7
  <2>8. Min({h, Len(m.stack)}) = h
    BY <1>2, <2>6, <2>7
  <2>9. Height(m, id) # 0 => Min({h, Len(m.stack) - 1}) = h /\ len - 1 \in Nat
    <3>1. SUFFICES ASSUME Height(m, id) # 0 PROVE Min({h, Len(m.stack) - 1}) = h /\ len - 1 \in Nat
      OBVIOUS
    <3>2. len - 1 \in Nat /\ h <= len - 1
      BY <3>1, <1>3, <1>6, <1>9
    <3> QED BY <3>2, <1>2, <2>6, <2>7
  <2>10. n = [m EXCEPT !.stack = InsertAt(r, h + 1, id)]
    <3>1. (IF Height(m, id) = 0 THEN h ELSE Min({h, Len(m.stack) - 1})) = h
      BY <2>9
    <3> QED BY <1>9, <2>1, <2>3, <2>8, <3>1 DEF UpDown
  <2>11. PICK k : k = h + 1
    OBVIOUS
  <2>12. k \in 1 .. Len(r) + 1
    BY <1>3, <1>6, <1>9, <2>5, <2>11
  <2>13. m.mouse # NoLayer => k <= Len(r)
    <3>1. SUFFICES ASSUME m.mouse # NoLayer PROVE k <= Len(r)
      OBVIOUS
    <3>2. CASE h = 0
      <4>1. r # <<>>
        BY <2>4, <3>1
      <4>2. Len(r) >= 1
        BY <4>1, <2>3
      <4> QED BY <3>2, <4>2, <2>11
    <3>3. CASE h = len - 2
      BY <3>3, <2>5, <2>11, <1>3
    <3> QED BY <3>2, <3>3, <1>6, <1>9
  <2>14. PICK st : st = InsertAt(r, k, id)
    OBVIOUS
  <2>15. /\ st \in Seq(Ids) /\ IsInjective(st) /\ Range(st) = Range(r) \cup {id} /\ Len(st) = Len(r) + 1
         /\ k <= Len(r) => Last(st) = Last(r)
    BY <1>1, <2>4, <2>12, <2>14, InsertIs
  <2>16. m.mouse # NoLayer => st # <<>> /\ Last(st) = m.mouse
    BY <2>4, <2>13, <2>15, <2>3
  <2>17. Range(st) \subseteq Live(m)
    BY <2>4, <2>15
  <2> QED BY <2>10, <2>11, <2>14, <2>15, <2>16, <2>17, RestackedIs
<1> QED BY <1>8, <1>9

\* n is m with the layer id made active, its stack sound
Raised(m, n, id) ==
  /\ n \in Managers /\ Sound(n) /\ Live(n) = Live(m) /\ n.latest = m.latest /\ n.mouse = m.mouse /\ n.active = id

\* Setting active_layer_ alone.
LEMMA SetActiveIs ==
  ASSUME NEW m \in Managers, Sound(m), NEW id \in {NoLayer} \cup Live(m), NotCursor(m, id),
         NEW n, n = [m EXCEPT !.active = id]
  PROVE  Raised(m, n, id)
<1>1. id \in IdsOrNone
  BY ManagerFacts, LayerAssumption DEF Ids, IdsOrNone, NoLayer
<1>2. /\ n \in Managers /\ n.active = id /\ n.layers = m.layers /\ n.latest = m.latest
      /\ n.stack = m.stack /\ n.mouse = m.mouse
  BY <1>1, WithActive
<1>3. Live(n) = Live(m)
  BY <1>2 DEF Live
<1>4. Sound(n)
  BY <1>2, <1>3 DEF Sound, NotCursor
<1> QED BY <1>2, <1>3, <1>4 DEF Raised

\* A similar or restacked manager is as active.
LEMMA RaisedOn ==
  ASSUME NEW m, NEW d, NEW n, NEW id, Raised(m, d, id), Similar(d, n) \/ Restacked(d, n)
  PROVE  Raised(m, n, id)
<1>1. CASE Similar(d, n)
  <2>1. Sound(n)
    BY <1>1, SimilarSound DEF Raised
  <2> QED BY <1>1, <2>1 DEF Raised, Similar
<1>2. CASE Restacked(d, n)
  BY <1>2 DEF Raised, Restacked, Live
<1> QED BY <1>1, <1>2

\* The first half of Activate.
LEMMA DeactivatedIs ==
  ASSUME NEW m \in Managers, Sound(m), NEW n \in Deactivated(m)
  PROVE  Similar(m, n)
<1>1. CASE m.active = NoLayer
  <2>1. n = m
    BY <1>1 DEF Deactivated
  <2> QED BY <2>1 DEF Similar
<1>2. CASE m.active # NoLayer
  <2>1. m.active \in Live(m)
    BY <1>2 DEF Sound
  <2>2. PICK l : l = Light(m, m.active, FALSE)
    OBVIOUS
  <2>3. Similar(m, l) /\ l \in Managers /\ Sound(l)
    <3>1. Similar(m, l)
      BY <2>1, <2>2, LightIs
    <3>2. Sound(l)
      BY <3>1, SimilarSound
    <3> QED BY <3>1, <3>2 DEF Similar
  <2>4. PICK d \in DrawOutcomes(l, m.active) : n = SendWindowActive(d, m.active, FALSE)
    BY <1>2, <2>2 DEF Deactivated
  <2>5. Similar(l, d) /\ d \in Managers
    BY <2>3, <2>4, DrawOutcomesIs DEF Similar
  <2>6. Similar(d, n)
    BY <2>4, <2>5, SendIs
  <2> QED BY <2>3, <2>5, <2>6, SimilarTrans
<1> QED BY <1>1, <1>2

\* The second half of Activate.
LEMMA ActivatedIs ==
  ASSUME NEW m \in Managers, Sound(m), NEW id \in {NoLayer} \cup Live(m), NotCursor(m, id), NEW n \in Activated(m, id)
  PROVE  Raised(m, n, id)
<1>1. PICK a : a = [m EXCEPT !.active = id]
  OBVIOUS
<1>2. Raised(m, a, id)
  BY <1>1, SetActiveIs
<1>3. CASE id = NoLayer
  <2>1. n = a
    BY <1>1, <1>3 DEF Activated
  <2> QED BY <1>2, <2>1
<1>4. CASE id # NoLayer
  <2>1. id \in Live(a) /\ a \in Managers
    BY <1>2, <1>4 DEF Raised
  <2>2. PICK l : l = Light(a, id, TRUE)
    OBVIOUS
  <2>3. Similar(a, l)
    BY <2>1, <2>2, LightIs
  <2>4. Raised(m, l, id)
    BY <1>2, <2>3, RaisedOn
  <2>5. NotCursor(l, id) /\ id \in Live(l) /\ l \in Managers /\ Sound(l)
    BY <2>1, <2>3, <2>4, <1>2 DEF NotCursor, Raised
  <2>6. PICK b : b = UpDown(l, id, 0)
    OBVIOUS
  <2>7. Restacked(l, b)
    BY <2>5, <2>6, UpDownIs
  <2>8. NotCursor(b, id) /\ id \in Live(b) /\ b \in Managers /\ Sound(b)
    BY <2>5, <2>7 DEF NotCursor, Restacked, Live
  <2>9. PICK r : r = UpDown(b, id, BelowCursor(b))
    OBVIOUS
  <2>10. Restacked(b, r)
    BY <2>8, <2>9, UpDownIs
  <2>11. Raised(m, b, id)
    BY <2>4, <2>7, RaisedOn
  <2>12. Raised(m, r, id)
    BY <2>10, <2>11, RaisedOn
  <2>13. r = Raise(l, id)
    BY <2>6, <2>9 DEF Raise
  <2>14. PICK d \in DrawOutcomes(r, id) : n = SendWindowActive(d, id, TRUE)
    BY <1>1, <1>4, <2>2, <2>13 DEF Activated
  <2>15. Similar(r, d) /\ d \in Managers
    BY <2>12, <2>14, DrawOutcomesIs DEF Raised, Similar
  <2>16. Similar(d, n)
    BY <2>14, <2>15, SendIs
  <2> QED BY <2>12, <2>15, <2>16, SimilarTrans, RaisedOn
<1> QED BY <1>3, <1>4

\* Activate as a masked section runs it.
LEMMA ActivateIs ==
  ASSUME NEW m \in Managers, Sound(m), NEW id \in {NoLayer} \cup Live(m), NotCursor(m, id), NEW n \in Activate(m, id)
  PROVE  Raised(m, n, id)
<1>1. CASE m.active = id
  <2>1. n = m
    BY <1>1 DEF Activate
  <2> QED BY <1>1, <2>1 DEF Raised
<1>2. CASE m.active # id
  <2>1. PICK d \in Deactivated(m) : n \in Activated(d, id)
    BY <1>2 DEF Activate
  <2>2. Similar(m, d) /\ Sound(d)
    BY <2>1, DeactivatedIs, SimilarSound
  <2>3. d \in Managers /\ id \in {NoLayer} \cup Live(d) /\ NotCursor(d, id)
    BY <2>2 DEF Similar, NotCursor
  <2>4. Raised(d, n, id)
    BY <2>1, <2>2, <2>3, ActivatedIs
  <2> QED BY <2>2, <2>4 DEF Raised, Similar
<1> QED BY <1>1, <1>2

\* NewLayer: the id is new, the stack and the active layer are what they were.
LEMMA NewLayerIs ==
  ASSUME NEW m \in Managers, Sound(m), m.latest < MaxLayer, NEW pos \in Int, NEW n, n = NewLayer(m, pos)
  PROVE  /\ n \in Managers /\ Sound(n) /\ n.latest = m.latest + 1 /\ n.mouse = m.mouse
         /\ Live(n) = Live(m) \cup {n.latest} /\ n.latest \in Ids /\ n.latest \notin Live(m)
         /\ n.active = m.active /\ NotCursor(n, n.latest)
<1>1. PICK id : id = m.latest + 1
  OBVIOUS
<1>2. m.latest \in IdsOrNone /\ Live(m) \in SUBSET Ids
  BY ManagerFacts
<1>3. id \in Ids /\ id \in IdsOrNone /\ id \notin Live(m)
  BY <1>1, <1>2, LayerAssumption DEF Ids, IdsOrNone, Sound
<1>4. PICK v : v = [pos |-> pos, kind |-> "window", lit |-> FALSE]
  OBVIOUS
<1>5. v \in LayerRecords
  BY <1>4 DEF LayerRecords, Kinds
<1>6. PICK la : la = [l \in Live(m) \cup {id} |-> IF l = id THEN v ELSE m.layers[l]]
  OBVIOUS
<1>7. la \in [Live(m) \cup {id} -> LayerRecords] /\ Live(m) \cup {id} \in SUBSET Ids
  BY <1>2, <1>3, <1>5, <1>6, ManagerFacts
<1>8. PICK o : o = [m EXCEPT !.layers = la]
  OBVIOUS
<1>9. /\ o \in Managers /\ o.layers = la /\ Live(o) = Live(m) \cup {id} /\ o.latest = m.latest
      /\ o.stack = m.stack /\ o.mouse = m.mouse /\ o.active = m.active
  BY <1>7, <1>8, WithLayers
<1>10. n = [o EXCEPT !.latest = id]
  BY <1>1, <1>4, <1>6, <1>8 DEF NewLayer, Managers
<1>11. /\ n \in Managers /\ n.layers = o.layers /\ n.latest = id /\ n.stack = o.stack /\ n.mouse = o.mouse
       /\ n.active = o.active
  BY <1>3, <1>9, <1>10 DEF Managers
<1>12. Live(n) = Live(m) \cup {id}
  BY <1>9, <1>11 DEF Live
<1>13. NotCursor(n, id)
  BY <1>3, <1>9, <1>11 DEF NotCursor, Sound
<1>14. \A l \in Live(n) : l <= id
  BY <1>1, <1>2, <1>12 DEF Sound, Ids, IdsOrNone
<1>15. Sound(n)
  BY <1>9, <1>11, <1>12, <1>14 DEF Sound, NotCursor
<1> QED BY <1>1, <1>3, <1>9, <1>11, <1>12, <1>13, <1>15

\* RemoveLayer of a layer that is neither the cursor nor active.
LEMMA RemoveLayerIs ==
  ASSUME NEW m \in Managers, Sound(m), NEW id \in Ids, NotCursor(m, id), m.active = NoLayer, NEW n, n = RemoveLayer(m, id)
  PROVE  /\ n \in Managers /\ Sound(n) /\ n.latest = m.latest /\ n.mouse = m.mouse /\ n.active = NoLayer
         /\ Live(n) = Live(m) \ {id}
<1>1. PICK h : h = Hide(m, id)
  OBVIOUS
<1>2. Restacked(m, h) /\ Range(h.stack) = Range(m.stack) \ {id}
  BY <1>1, HideIs DEF Ids, NoLayer
<1>3. h \in Managers /\ Live(h) = Live(m)
  BY <1>2 DEF Restacked, Live
<1>4. PICK la : la = [l \in Live(h) \ {id} |-> h.layers[l]]
  OBVIOUS
<1>5. la \in [Live(h) \ {id} -> LayerRecords] /\ Live(h) \ {id} \in SUBSET Ids
  BY <1>3, <1>4, ManagerFacts
<1>6. n = [h EXCEPT !.layers = la]
  BY <1>1, <1>4 DEF RemoveLayer
<1>7. /\ n \in Managers /\ Live(n) = Live(h) \ {id} /\ n.latest = h.latest
      /\ n.stack = h.stack /\ n.mouse = h.mouse /\ n.active = h.active
  BY <1>3, <1>5, <1>6, WithLayers
<1>8. Sound(n)
  <2>1. Range(n.stack) \subseteq Live(n)
    BY <1>2, <1>3, <1>7 DEF Sound
  <2>2. n.mouse # NoLayer => n.mouse \in Live(n) /\ n.stack # <<>> /\ Last(n.stack) = n.mouse
    BY <1>2, <1>3, <1>7 DEF Restacked, Sound, NotCursor, Ids, NoLayer
  <2>3. IsInjective(n.stack) /\ n.active = NoLayer /\ \A l \in Live(n) : l <= n.latest
    BY <1>2, <1>3, <1>7 DEF Restacked, Sound
  <2> QED BY <2>1, <2>2, <2>3 DEF Sound, NotCursor
<1> QED BY <1>2, <1>3, <1>7, <1>8 DEF Restacked

\* insert into layer_task_map.
LEMMA RegisterIs ==
  ASSUME NEW m \in Managers, NEW id \in Ids, NEW t \in Tasks, NEW n, n = Register(m, id, t)
  PROVE  Similar(m, n)
<1>1. PICK ow : ow = [l \in DOMAIN m.owner \cup {id} |-> IF l = id THEN t ELSE m.owner[l]]
  OBVIOUS
<1>2. ow \in [DOMAIN m.owner \cup {id} -> Tasks] /\ DOMAIN m.owner \cup {id} \in SUBSET Ids
  BY <1>1, ManagerFacts
<1>3. n = [m EXCEPT !.owner = ow]
  BY <1>1 DEF Register
<1> QED BY <1>2, <1>3, WithOwner

\* erase from layer_task_map
Forgotten(m, id) == [m EXCEPT !.owner = [l \in DOMAIN m.owner \ {id} |-> m.owner[l]]]

\* It leaves the layers alone.
LEMMA ForgetIs ==
  ASSUME NEW m \in Managers, NEW id, NEW n, n = Forgotten(m, id)
  PROVE  Similar(m, n)
<1>1. PICK ow : ow = [l \in DOMAIN m.owner \ {id} |-> m.owner[l]]
  OBVIOUS
<1>2. ow \in [DOMAIN m.owner \ {id} -> Tasks] /\ DOMAIN m.owner \ {id} \in SUBSET Ids
  BY <1>1, ManagerFacts
<1> QED BY <1>1, <1>2, WithOwner DEF Forgotten

-----------------------------------------------------------------------------
(***************************************************************************)
(* The rest of a call: replacing its first step by others                  *)
(***************************************************************************)

\* The steps p replace the first step of q.
LEMMA Pushed ==
  ASSUME NEW q \in Seq(Steps), q # <<>>, NEW p \in Seq(Steps), NEW r, r = p \o Tail(q)
  PROVE  /\ r \in Seq(Steps) /\ Head(q) \in Range(q)
         /\ \A s \in Range(r) : s \in Range(p) \/ Below(q, Head(q), s)
         /\ \A s, t : Below(r, s, t) => Below(p, s, t) \/ (s \in Range(p) /\ Below(q, Head(q), t)) \/ Below(q, s, t)
<1>1. PICK v : v = Tail(q)
  OBVIOUS
<1>2. PICK n \in Nat : n = Len(q)
  OBVIOUS
<1>3. n >= 1 /\ DOMAIN q = 1 .. n /\ Head(q) = q[1]
  BY <1>2
<1>4. v \in Seq(Steps) /\ Len(v) = n - 1 /\ \A i \in 1 .. n - 1 : v[i] = q[i + 1]
  BY <1>1, <1>2
<1>5. PICK k \in Nat : k = Len(p)
  OBVIOUS
<1>6. /\ r \in Seq(Steps) /\ Len(r) = k + (n - 1)
      /\ \A i \in 1 .. k + (n - 1) : r[i] = IF i <= k THEN p[i] ELSE v[i - k]
  BY <1>1, <1>4, <1>5, ConcatProperties
<1>7. DOMAIN r = 1 .. k + (n - 1) /\ DOMAIN p = 1 .. k
  BY <1>5, <1>6
<1>8. \A i \in DOMAIN r : \/ i \in 1 .. k /\ r[i] = p[i]
                          \/ i > k /\ i - k + 1 \in 2 .. n /\ r[i] = q[i - k + 1]
  <2>1. ASSUME NEW i \in 1 .. k + (n - 1), i > k PROVE i - k + 1 \in 2 .. n /\ r[i] = q[i - k + 1]
    <3>1. i - k \in 1 .. n - 1 /\ i - k + 1 \in 2 .. n
      BY <2>1
    <3>2. r[i] = v[i - k]
      BY <1>6, <2>1
    <3>3. v[i - k] = q[i - k + 1]
      BY <1>4, <3>1
    <3> QED BY <3>1, <3>2, <3>3
  <2>2. ASSUME NEW i \in 1 .. k + (n - 1), ~(i > k) PROVE i \in 1 .. k /\ r[i] = p[i]
    BY <1>6, <2>2
  <2> QED BY <1>7, <2>1, <2>2
<1>9. Head(q) \in Range(q)
  BY <1>3 DEF Range
<1>10. ASSUME NEW j \in 2 .. n PROVE Below(q, Head(q), q[j])
  <2>1. 1 \in DOMAIN q /\ j \in DOMAIN q /\ 1 < j
    BY <1>3
  <2> QED BY <1>3, <2>1 DEF Below
<1>11. ASSUME NEW s \in Range(r) PROVE s \in Range(p) \/ Below(q, Head(q), s)
  <2>1. PICK i \in DOMAIN r : s = r[i]
    BY DEF Range
  <2>2. CASE i \in 1 .. k /\ r[i] = p[i]
    BY <2>1, <2>2, <1>7 DEF Range
  <2>3. CASE i > k /\ i - k + 1 \in 2 .. n /\ r[i] = q[i - k + 1]
    BY <2>1, <2>3, <1>10
  <2> QED BY <1>8, <2>2, <2>3
<1>12. ASSUME NEW s, NEW t, Below(r, s, t)
       PROVE  Below(p, s, t) \/ (s \in Range(p) /\ Below(q, Head(q), t)) \/ Below(q, s, t)
  <2>1. PICK i \in DOMAIN r, j \in DOMAIN r : i < j /\ s = r[i] /\ t = r[j]
    BY <1>12 DEF Below
  <2>2. i \in Nat /\ j \in Nat
    BY <1>7
  <2>3. CASE i \in 1 .. k /\ r[i] = p[i]
    <3>1. CASE j \in 1 .. k /\ r[j] = p[j]
      BY <2>1, <2>3, <3>1, <1>7 DEF Below
    <3>2. CASE j > k /\ j - k + 1 \in 2 .. n /\ r[j] = q[j - k + 1]
      <4>1. Below(q, Head(q), t)
        BY <3>2, <2>1, <1>10
      <4>2. s \in Range(p)
        BY <2>1, <2>3, <1>7 DEF Range
      <4> QED BY <4>1, <4>2
    <3> QED BY <1>8, <3>1, <3>2
  <2>4. CASE i > k /\ i - k + 1 \in 2 .. n /\ r[i] = q[i - k + 1]
    <3>1. j > k
      BY <2>1, <2>2, <2>4
    <3>2. j - k + 1 \in 2 .. n /\ r[j] = q[j - k + 1]
      BY <1>8, <1>7, <3>1, SMTT(30)
    <3>3. PICK a \in 2 .. n : a = i - k + 1
      BY <2>4
    <3>4. PICK b \in 2 .. n : b = j - k + 1
      BY <3>2
    <3>5. a < b /\ a \in DOMAIN q /\ b \in DOMAIN q
      <4>1. a < b
        BY <3>3, <3>4, <2>1, <2>2
      <4> QED BY <4>1, <1>3
    <3>6. s = q[a] /\ t = q[b]
      BY <2>1, <2>4, <3>2, <3>3, <3>4
    <3> QED BY <3>5, <3>6 DEF Below
  <2> QED BY <1>8, <2>3, <2>4
<1> QED BY <1>6, <1>9, <1>11, <1>12

\* What stands before or after something is in the sequence.
LEMMA BelowRange ==
  ASSUME NEW q, NEW s, NEW t, Below(q, s, t)
  PROVE  s \in Range(q) /\ t \in Range(q)
  BY DEF Below, Range

\* A call that is done.
LEMMA NoSteps ==
  /\ <<>> \in Seq(Steps) /\ (\A s \in Range(<<>>) : FALSE) /\ \A s, t : ~Below(<<>>, s, t)
  BY DEF Range, Below

\* A call of one step.
LEMMA OneStep ==
  ASSUME NEW a \in Steps, NEW q, q = <<a>>
  PROVE  q \in Seq(Steps) /\ q # <<>> /\ (\A s \in Range(q) : s = a) /\ \A s, t : ~Below(q, s, t)
<1>1. DOMAIN q = {1} /\ q[1] = a /\ q \in Seq(Steps) /\ q # <<>>
  OBVIOUS
<1> QED BY <1>1 DEF Range, Below

\* A call of two steps.
LEMMA TwoSteps ==
  ASSUME NEW a \in Steps, NEW b \in Steps, NEW q, q = <<a, b>>
  PROVE  /\ q \in Seq(Steps) /\ q # <<>> /\ (\A s \in Range(q) : s \in {a, b})
         /\ \A s, t : Below(q, s, t) => s = a /\ t = b
<1>1. DOMAIN q = {1, 2} /\ q[1] = a /\ q[2] = b /\ q \in Seq(Steps) /\ q # <<>>
  OBVIOUS
<1> QED BY <1>1 DEF Range, Below

\* A call of three steps.
LEMMA ThreeSteps ==
  ASSUME NEW a \in Steps, NEW b \in Steps, NEW c \in Steps, NEW q, q = <<a, b, c>>
  PROVE  /\ q \in Seq(Steps) /\ q # <<>> /\ (\A s \in Range(q) : s \in {a, b, c})
         /\ \A s, t : Below(q, s, t) => s \in {a, b} /\ t \in {b, c}
<1>1. DOMAIN q = {1, 2, 3} /\ q[1] = a /\ q[2] = b /\ q[3] = c /\ q \in Seq(Steps) /\ q # <<>>
  OBVIOUS
<1> QED BY <1>1 DEF Range, Below

\* A call of four steps.
LEMMA FourSteps ==
  ASSUME NEW a \in Steps, NEW b \in Steps, NEW c \in Steps, NEW d \in Steps, NEW q, q = <<a, b, c, d>>
  PROVE  /\ q \in Seq(Steps) /\ q # <<>> /\ (\A s \in Range(q) : s \in {a, b, c, d})
         /\ \A s, t : Below(q, s, t) => s \in {a, b, c} /\ t \in {b, c, d}
<1>1. DOMAIN q = {1, 2, 3, 4} /\ q[1] = a /\ q[2] = b /\ q[3] = c /\ q[4] = d /\ q \in Seq(Steps) /\ q # <<>>
  OBVIOUS
<1> QED BY <1>1 DEF Range, Below

\* A step that follows: it fits where it is, whatever follows it may follow.
Following(m, mo, w, k, p, head) ==
  /\ \A s \in Range(p) : Fits(m, mo, w, k, s)
  /\ \A s, t : Below(p, s, t) => MayPrecede(s, t)
  /\ \A s \in Range(p) : s.op # "button" /\ (s.op \in Activations => head.op \in Activations \cup {"button"})

\* Task k has replaced its step by the steps p.
Replaced(m, mo, td, w, cl, k, p, n, mo2, td2) ==
  /\ td \in [Threads -> Seq(Steps)] /\ Clients(m, mo, td, w, cl)
  /\ k \in Threads /\ td[k] # <<>> /\ p \in Seq(Steps) /\ td2 = [td EXCEPT ![k] = p \o Tail(@)]
  /\ n.mouse = m.mouse /\ n.latest = m.latest /\ Live(n) = Live(m)
  /\ mo2.drag = mo.drag \/ (k = MainTask /\ Head(td[k]).op = "button")
  /\ Following(m, mo2, w, k, p, Head(td[k]))

\* The clients after that.
LEMMA StepKeepsClients ==
  ASSUME NEW m, NEW mo, NEW td, NEW w, NEW cl, NEW k, NEW p, NEW n, NEW mo2, NEW td2,
         Replaced(m, mo, td, w, cl, k, p, n, mo2, td2)
  PROVE  Clients(n, mo2, td2, w, cl) /\ td2 \in [Threads -> Seq(Steps)]
<1>0. /\ td \in [Threads -> Seq(Steps)] /\ Clients(m, mo, td, w, cl)
      /\ k \in Threads /\ td[k] # <<>> /\ p \in Seq(Steps) /\ td2 = [td EXCEPT ![k] = p \o Tail(@)]
      /\ n.mouse = m.mouse /\ n.latest = m.latest /\ Live(n) = Live(m)
      /\ mo2.drag = mo.drag \/ (k = MainTask /\ Head(td[k]).op = "button")
      /\ Following(m, mo2, w, k, p, Head(td[k]))
  BY DEF Replaced
<1> USE <1>0
<1>1. PICK q \in Seq(Steps) : q = td[k]
  OBVIOUS
<1>2. PICK r : r = p \o Tail(q)
  OBVIOUS
<1>3. /\ r \in Seq(Steps) /\ Head(q) \in Range(q)
      /\ \A s \in Range(r) : s \in Range(p) \/ Below(q, Head(q), s)
      /\ \A s, t : Below(r, s, t) => Below(p, s, t) \/ (s \in Range(p) /\ Below(q, Head(q), t)) \/ Below(q, s, t)
  BY <1>1, <1>2, Pushed
<1>4. td2 \in [Threads -> Seq(Steps)] /\ td2[k] = r /\ \A j \in Threads : j # k => td2[j] = td[j]
  BY <1>1, <1>2, <1>3
<1>5. \A j \in Threads : StepsFit(m, mo, w, j, td[j])
  BY DEF Clients
<1>6. Ordered(q) /\ \A s \in Range(q) : Fits(m, mo, w, k, s)
  BY <1>1, <1>5 DEF StepsFit
<1>7. ASSUME NEW s, Below(q, Head(q), s) PROVE MayPrecede(Head(q), s) /\ Fits(m, mo, w, k, s)
  BY <1>6, <1>7, BelowRange DEF Ordered
<1>8. ASSUME NEW s \in Range(r) PROVE Fits(n, mo2, w, k, s)
  <2>1. CASE s \in Range(p)
    BY <2>1 DEF Following, Fits, NotCursor
  <2>2. CASE Below(q, Head(q), s)
    <3>1. Head(q).op # "button"
      BY <1>7, <2>2 DEF MayPrecede
    <3>2. mo2.drag = mo.drag
      BY <1>1, <3>1
    <3> QED BY <1>7, <2>2, <3>2 DEF Fits, NotCursor
  <2> QED BY <1>3, <2>1, <2>2
<1>9. Ordered(r)
  <2>1. SUFFICES ASSUME NEW s, NEW t, Below(r, s, t) PROVE MayPrecede(s, t)
    BY DEF Ordered
  <2>2. CASE Below(p, s, t)
    BY <2>2 DEF Following
  <2>3. CASE s \in Range(p) /\ Below(q, Head(q), t)
    <3>1. s.op # "button" /\ (s.op \in Activations => Head(q).op \in Activations \cup {"button"})
      BY <1>1, <2>3 DEF Following
    <3>2. MayPrecede(Head(q), t)
      BY <1>7, <2>3
    <3> QED BY <3>1, <3>2 DEF MayPrecede
  <2>4. CASE Below(q, s, t)
    BY <1>6, <2>4 DEF Ordered
  <2> QED BY <1>3, <2>1, <2>2, <2>3, <2>4
<1>10. k \in Terminals => w[k] \in Live(n)
  BY <1>5 DEF StepsFit
<1>11. StepsFit(n, mo2, w, k, r)
  BY <1>8, <1>9, <1>10 DEF StepsFit
<1>12. ASSUME NEW j \in Threads, j # k PROVE StepsFit(n, mo2, w, j, td[j])
  <2>1. j = MainTask => mo2.drag = mo.drag
    BY <1>12
  <2>2. ASSUME NEW s \in Range(td[j]) PROVE Fits(n, mo2, w, j, s)
    <3>1. Fits(m, mo, w, j, s)
      BY <1>5, <2>2 DEF StepsFit
    <3> QED BY <2>1, <3>1 DEF Fits, NotCursor
  <2> QED BY <1>5, <2>2 DEF StepsFit
<1>13. \A j \in Threads : StepsFit(n, mo2, w, j, td2[j])
  BY <1>4, <1>11, <1>12
<1>14. Windows(n, w)
  BY DEF Clients, Windows, NotCursor
<1>15. Closings(n, td2, w, cl)
  <2>1. SUFFICES ASSUME NEW t \in Tasks, cl[t] # Idle PROVE w[t] \in Live(n) /\ (t \in Terminals => td2[t] = <<>>)
    BY DEF Closings
  <2>2. w[t] \in Live(m) /\ (t \in Terminals => td[t] = <<>>)
    BY <2>1 DEF Clients, Closings
  <2>3. t \in Terminals => t \in Threads /\ t # k
    BY <2>2 DEF Threads
  <2> QED BY <1>4, <2>2, <2>3
<1> QED BY <1>4, <1>13, <1>14, <1>15 DEF Clients

\* Nothing is activated inside an activation: no task becomes one of two.
LEMMA StepKeepsSafe ==
  ASSUME NEW m, NEW mo, NEW td \in [Threads -> Seq(Steps)], NEW w, NEW cl, Clients(m, mo, td, w, cl), Safe(m, mo, td),
         NEW k \in Threads, td[k] # <<>>, NEW p \in Seq(Steps),
         NEW n, Live(n) = Live(m), n.active = m.active \/ Head(td[k]).op = "activateNew",
         NEW mo2, mo2.drag \in {NoLayer} \cup Live(m),
         \A s \in Range(p) : Alive(n, s),
         (\E s \in Range(p) : s.op \in ActivateOps) => Head(td[k]).op \in ActivateOps \/ (\A j \in Threads \ {k} : ~Inside(td[j])),
         NEW td2, td2 = [td EXCEPT ![k] = p \o Tail(@)]
  PROVE  Safe(n, mo2, td2)
<1>1. PICK q \in Seq(Steps) : q = td[k]
  OBVIOUS
<1>2. PICK r : r = p \o Tail(q)
  OBVIOUS
<1>3. /\ r \in Seq(Steps) /\ Head(q) \in Range(q)
      /\ \A s \in Range(r) : s \in Range(p) \/ Below(q, Head(q), s)
  BY <1>1, <1>2, Pushed
<1>4. td2[k] = r /\ \A j \in Threads : j # k => td2[j] = td[j]
  BY <1>1, <1>2, <1>3
<1>5. Inside(r) => Inside(q) \/ \A j \in Threads \ {k} : ~Inside(td[j])
  <2>1. SUFFICES ASSUME Inside(r) PROVE Inside(q) \/ \A j \in Threads \ {k} : ~Inside(td[j])
    OBVIOUS
  <2>2. PICK s \in Range(r) : s.op \in ActivateOps
    BY <2>1 DEF Inside
  <2>3. CASE s \in Range(p)
    BY <1>1, <1>3, <2>2, <2>3 DEF Inside
  <2>4. CASE Below(q, Head(q), s)
    <3>1. s \in Range(q)
      BY <2>4, BelowRange
    <3> QED BY <2>2, <3>1 DEF Inside
  <2> QED BY <1>3, <2>3, <2>4
<1>6. \A i, j \in Threads : Inside(td[i]) /\ Inside(td[j]) => i = j
  BY DEF Safe
<1>7. ASSUME NEW i \in Threads, NEW j \in Threads, Inside(td2[i]), Inside(td2[j]) PROVE i = j
  BY <1>1, <1>4, <1>5, <1>6, <1>7
<1>8. ASSUME NEW j \in Threads, j # k, NEW s \in Range(td[j]) PROVE Alive(n, s)
  <2>1. Alive(m, s)
    BY <1>8 DEF Safe
  <2>2. s.op = "raise" => n.active = m.active
    <3>1. SUFFICES ASSUME s.op = "raise", Head(q).op = "activateNew" PROVE FALSE
      BY <1>1
    <3>2. Inside(td[j]) /\ Inside(td[k])
      BY <1>1, <1>3, <1>8, <3>1 DEF Inside, ActivateOps
    <3> QED BY <1>6, <1>8, <3>2
  <2> QED BY <2>1, <2>2 DEF Alive
<1>9. ASSUME NEW s \in Range(r) PROVE Alive(n, s)
  <2>1. CASE s \in Range(p)
    BY <2>1
  <2>2. CASE Below(q, Head(q), s)
    <3>1. Alive(m, s)
      BY <1>1, <2>2, BelowRange DEF Safe
    <3>2. Ordered(q)
      BY <1>1 DEF Clients, StepsFit
    <3>3. Head(q).op = "activateNew" => s.op # "raise"
      BY <2>2, <3>2 DEF Ordered, MayPrecede, Activations
    <3> QED BY <1>1, <3>1, <3>3 DEF Alive
  <2> QED BY <1>3, <2>1, <2>2
<1>10. \A j \in Threads : \A s \in Range(td2[j]) : Alive(n, s)
  BY <1>4, <1>8, <1>9
<1> QED BY <1>7, <1>10 DEF Safe

-----------------------------------------------------------------------------
(***************************************************************************)
(* The invariant after a step of a task, from the parts of the step        *)
(***************************************************************************)

\* What the invariant says while no undefined behaviour was reached.
LEMMA InvFacts ==
  ASSUME LayerInv, Run
  PROVE  /\ mgr \in Managers /\ mouse \in MouseStates /\ todo \in [Threads -> Seq(Steps)]
         /\ window \in [Tasks -> IdsOrNone] /\ DOMAIN closing = Tasks /\ raced \in BOOLEAN /\ fault = "none"
         /\ asked \subseteq Tasks /\ inbox \subseteq Ids
         /\ Sound(mgr) /\ Clients(mgr, mouse, todo, window, closing) /\ (~raced => Safe(mgr, mouse, todo))
  BY DEF LayerInv, TypeInv, Run

\* The head of a call.
LEMMA DoingFacts ==
  ASSUME LayerInv, NEW k \in Threads, NEW op, Doing(k, op)
  PROVE  /\ Run /\ todo[k] # <<>> /\ todo[k] \in Seq(Steps) /\ Head(todo[k]) \in Steps /\ Head(todo[k]).op = op
         /\ Head(todo[k]) \in Range(todo[k])
<1>1. Run /\ todo[k] # <<>> /\ Head(todo[k]).op = op
  BY DEF Doing
<1>2. todo[k] \in Seq(Steps)
  BY <1>1, InvFacts
<1>3. 1 \in DOMAIN todo[k] /\ Head(todo[k]) = todo[k][1] /\ todo[k][1] \in Steps
  BY <1>1, <1>2
<1> QED BY <1>1, <1>2, <1>3 DEF Range

\* What the fields of a step are.
LEMMA StepFacts ==
  ASSUME NEW s \in Steps
  PROVE  /\ s.op = "draw" => s.id \in IdsOrNone
         /\ s.op \in {"area", "copy", "paint"} => s.area \in SUBSET Int
         /\ s.op = "paint" => s.h \in Nat \ {0}
         /\ s.op = "move" => s.id \in IdsOrNone /\ s.by \in Int
         /\ s.op = "button" => s.left \in BOOLEAN /\ s.by \in Int
         /\ s.op \in Activations => s.id \in IdsOrNone
         /\ s.op = "tell" => s.activate \in BOOLEAN
         /\ s.op = "register" => s.id \in Ids
         /\ s.op = "send" => s.clicked \in IdsOrNone
  BY DEF Steps, Activations

\* a task is not inside Activate, or the step it does is part of it already
Entering(k, p) ==
  (\E s \in Range(p) : s.op \in ActivateOps) =>
    Head(todo[k]).op \in ActivateOps \/ (\A j \in Threads \ {k} : ~Inside(todo[j]))

\* Task k replaces its step by the steps p.
LEMMA ThreadKeeps ==
  ASSUME LayerInv, Run, NEW k \in Threads, todo[k] # <<>>, NEW p \in Seq(Steps), Push(k, p),
         mgr' \in Managers, Sound(mgr'), mgr'.mouse = mgr.mouse, mgr'.latest = mgr.latest, Live(mgr') = Live(mgr),
         mouse' \in MouseStates, mouse'.drag = mouse.drag \/ (k = MainTask /\ Head(todo[k]).op = "button"),
         Following(mgr, mouse', window, k, p, Head(todo[k])),
         window' = window, closing' = closing, fault' \in {"none", "iterator"}, raced' \in BOOLEAN, raced => raced',
         asked' \subseteq Tasks, inbox' \subseteq Ids,
         ~raced' => /\ mgr'.active = mgr.active \/ Head(todo[k]).op = "activateNew"
                    /\ mouse'.drag \in {NoLayer} \cup Live(mgr)
                    /\ \A s \in Range(p) : Alive(mgr', s)
                    /\ Entering(k, p)
  PROVE  LayerInv'
<1>1. /\ todo \in [Threads -> Seq(Steps)] /\ Clients(mgr, mouse, todo, window, closing)
      /\ window \in [Tasks -> IdsOrNone] /\ DOMAIN closing = Tasks /\ (~raced => Safe(mgr, mouse, todo))
  BY InvFacts
<1>2. todo' = [todo EXCEPT ![k] = p \o Tail(@)]
  BY DEF Push
<1>3. PICK td2 : td2 = todo'
  OBVIOUS
<1>4. PICK n : n = mgr'
  OBVIOUS
<1>5. PICK mo2 : mo2 = mouse'
  OBVIOUS
<1>6. Clients(n, mo2, td2, window, closing) /\ td2 \in [Threads -> Seq(Steps)]
  <2>1. n.mouse = mgr.mouse /\ n.latest = mgr.latest /\ Live(n) = Live(mgr)
    BY <1>4
  <2>2. mo2.drag = mouse.drag \/ (k = MainTask /\ Head(todo[k]).op = "button")
    BY <1>5
  <2>3. Following(mgr, mo2, window, k, p, Head(todo[k]))
    BY <1>5
  <2>4. td2 = [todo EXCEPT ![k] = p \o Tail(@)]
    BY <1>2, <1>3
  <2>5. Replaced(mgr, mouse, todo, window, closing, k, p, n, mo2, td2)
    BY <1>1, <2>1, <2>2, <2>3, <2>4 DEF Replaced
  <2> QED BY <2>5, StepKeepsClients
<1>7. ~raced' => Safe(n, mo2, td2)
  <2>1. SUFFICES ASSUME ~raced' PROVE Safe(n, mo2, td2)
    OBVIOUS
  <2>2. Safe(mgr, mouse, todo)
    BY <1>1, <2>1
  <2>3. n.active = mgr.active \/ Head(todo[k]).op = "activateNew"
    BY <1>4, <2>1
  <2>4. mo2.drag \in {NoLayer} \cup Live(mgr)
    BY <1>5, <2>1
  <2>5. \A s \in Range(p) : Alive(n, s)
    BY <1>4, <2>1
  <2>6. (\E s \in Range(p) : s.op \in ActivateOps) =>
          Head(todo[k]).op \in ActivateOps \/ (\A j \in Threads \ {k} : ~Inside(todo[j]))
    BY <2>1 DEF Entering
  <2>7. Live(n) = Live(mgr)
    BY <1>4
  <2> QED BY <1>1, <1>2, <1>3, <2>2, <2>3, <2>4, <2>5, <2>6, <2>7, StepKeepsSafe
<1>8. TypeInv'
  BY <1>1, <1>3, <1>6 DEF TypeInv
<1>9. Clients(mgr', mouse', todo', window', closing') /\ (~raced' => Safe(mgr', mouse', todo'))
  BY <1>3, <1>4, <1>5, <1>6, <1>7
<1>10. fault' # "null"
  OBVIOUS
<1> QED BY <1>8, <1>9, <1>10 DEF LayerInv

\* steps that activate nothing and move nothing
PlainOps == {"draw", "area", "copy", "paint", "send"}

\* Task k replaces its step by plain steps; the active layer stays.
LEMMA PlainKeeps ==
  ASSUME LayerInv, NEW k \in Threads, NEW op, Doing(k, op), NEW p \in Seq(Steps), Push(k, p),
         \A s \in Range(p) : s.op \in PlainOps,
         mgr' \in Managers, Sound(mgr'), mgr'.mouse = mgr.mouse, mgr'.latest = mgr.latest, Live(mgr') = Live(mgr),
         mgr'.active = mgr.active, mouse' = mouse, window' = window, closing' = closing,
         fault' \in {"none", "iterator"}, raced' = raced, asked' \subseteq Tasks, inbox' = inbox
  PROVE  LayerInv'
<1>1. Run /\ todo[k] # <<>>
  BY DoingFacts
<1>2. /\ mouse \in MouseStates /\ raced \in BOOLEAN /\ inbox \subseteq Ids /\ (~raced => Safe(mgr, mouse, todo))
  BY <1>1, InvFacts
<1>3. \A s \in Range(p) : s.op \notin Activations /\ s.op # "move" /\ s.op # "button" /\ s.op \notin ActivateOps /\ s.op # "raise"
  BY DEF PlainOps, Activations, ActivateOps
<1>4. Following(mgr, mouse', window, k, p, Head(todo[k]))
  <2>1. \A s \in Range(p) : Fits(mgr, mouse', window, k, s)
    BY <1>3 DEF Fits
  <2>2. \A s, t : Below(p, s, t) => MayPrecede(s, t)
    BY <1>3, BelowRange DEF MayPrecede
  <2> QED BY <1>3, <2>1, <2>2 DEF Following
<1>5. \A s \in Range(p) : Alive(mgr', s)
  BY <1>3 DEF Alive
<1>6. Entering(k, p)
  BY <1>3 DEF Entering
<1>7. ~raced => mouse.drag \in {NoLayer} \cup Live(mgr)
  BY <1>2 DEF Safe
<1> QED BY <1>1, <1>2, <1>4, <1>5, <1>6, <1>7, ThreadKeeps

\* A manager similar to the old one.
LEMMA SimilarKeeps ==
  ASSUME LayerInv, NEW k \in Threads, NEW op, Doing(k, op), NEW p \in Seq(Steps), Push(k, p),
         \A s \in Range(p) : s.op \in PlainOps, Similar(mgr, mgr'),
         mouse' = mouse, window' = window, closing' = closing, fault' = fault, raced' = raced, asked' \subseteq Tasks,
         inbox' = inbox
  PROVE  LayerInv'
<1>1. Run /\ fault = "none" /\ Sound(mgr)
  BY DoingFacts, InvFacts
<1>2. Sound(mgr')
  BY <1>1, SimilarSound
<1>3. /\ mgr' \in Managers /\ mgr'.mouse = mgr.mouse /\ mgr'.latest = mgr.latest /\ Live(mgr') = Live(mgr)
      /\ mgr'.active = mgr.active
  BY DEF Similar
<1> QED BY <1>1, <1>2, <1>3, PlainKeeps

\* A null pointer that needs a race.
LEMMA NullKeeps ==
  ASSUME LayerInv, Run, raced, fault' = "null", UNCHANGED <<mgr, mouse, todo, window, closing, inbox, raced, asked>>
  PROVE  LayerInv'
<1>1. TypeInv'
  BY DEF LayerInv, TypeInv
<1> QED BY <1>1 DEF LayerInv

\* The main task takes up a call.
LEMMA StartKeeps ==
  ASSUME LayerInv, Idling(MainTask), NEW p \in Seq(Steps), todo' = [todo EXCEPT ![MainTask] = p],
         mgr' = mgr, mouse' \in MouseStates, mouse'.drag = mouse.drag, window' = window, closing' = closing,
         fault' = fault, raced' = raced, asked' = asked, inbox' \subseteq Ids,
         Ordered(p), \A s \in Range(p) : Fits(mgr, mouse, window, MainTask, s) /\ s.op \notin Activations \cup ActivateOps
  PROVE  LayerInv'
<1>1. Run /\ MainTask \in Threads /\ MainTask \notin Terminals /\ todo[MainTask] = <<>>
  BY LayerAssumption DEF Idling, Threads
<1>2. /\ mgr \in Managers /\ todo \in [Threads -> Seq(Steps)]
      /\ window \in [Tasks -> IdsOrNone] /\ DOMAIN closing = Tasks /\ raced \in BOOLEAN /\ fault = "none"
      /\ asked \subseteq Tasks
      /\ Sound(mgr) /\ Clients(mgr, mouse, todo, window, closing) /\ (~raced => Safe(mgr, mouse, todo))
  BY <1>1, InvFacts
<1>3. /\ todo' \in [Threads -> Seq(Steps)] /\ todo'[MainTask] = p /\ \A j \in Threads : j # MainTask => todo'[j] = todo[j]
  BY <1>1, <1>2
<1>4. StepsFit(mgr, mouse', window, MainTask, p)
  BY <1>1 DEF StepsFit, Fits
<1>5. ASSUME NEW j \in Threads, j # MainTask PROVE StepsFit(mgr, mouse', window, j, todo[j])
  BY <1>2, <1>5 DEF Clients, StepsFit, Fits
<1>6. Closings(mgr, todo', window, closing)
  <2>1. \A t \in Terminals : t \in Threads /\ t # MainTask
    BY <1>1 DEF Threads
  <2> QED BY <1>2, <1>3, <2>1 DEF Clients, Closings
<1>7. \A j \in Threads : StepsFit(mgr, mouse', window, j, todo'[j])
  BY <1>3, <1>4, <1>5
<1>8. Clients(mgr, mouse', todo', window, closing)
  BY <1>2, <1>6, <1>7 DEF Clients
<1>9. ~raced => Safe(mgr, mouse', todo')
  <2>1. SUFFICES ASSUME ~raced PROVE Safe(mgr, mouse', todo')
    OBVIOUS
  <2>2. Safe(mgr, mouse, todo)
    BY <1>2, <2>1
  <2>3. ~Inside(p) /\ \A s \in Range(p) : Alive(mgr, s)
    BY DEF Inside, Alive, ActivateOps
  <2>4. \A j \in Threads : \A s \in Range(todo'[j]) : Alive(mgr, s)
    BY <1>3, <2>2, <2>3 DEF Safe
  <2>5. \A i, j \in Threads : Inside(todo'[i]) /\ Inside(todo'[j]) => i = j
    BY <1>3, <2>2, <2>3 DEF Safe
  <2> QED BY <2>2, <2>4, <2>5 DEF Safe
<1>10. TypeInv'
  BY <1>2, <1>3 DEF TypeInv
<1> QED BY <1>2, <1>8, <1>9, <1>10 DEF LayerInv

-----------------------------------------------------------------------------
(***************************************************************************)
(* The steps of tasks that can be preempted                                *)
(***************************************************************************)

\* The steps of a Draw.
LEMMA DrawSteps ==
  /\ \A id \in IdsOrNone : DrawStep(id) \in Steps /\ DrawStep(id).op = "draw"
  /\ \A area \in SUBSET Int : AreaStep(area) \in Steps /\ AreaStep(area).op = "area"
  /\ \A area \in SUBSET Int : CopyStep(area) \in Steps /\ CopyStep(area).op = "copy"
  /\ \A h \in Nat \ {0}, area \in SUBSET Int : PaintStep(h, area) \in Steps /\ PaintStep(h, area).op = "paint"
  BY DEF DrawStep, AreaStep, CopyStep, PaintStep, Steps

\* One plain step, written out.
LEMMA OnePlain ==
  ASSUME NEW a \in Steps, a.op \in PlainOps, NEW q, q = <<a>>
  PROVE  q \in Seq(Steps) /\ \A s \in Range(q) : s.op \in PlainOps
<1>1. q \in Seq(Steps) /\ \A s \in Range(q) : s = a
  BY OneStep
<1> QED BY <1>1

\* A step that only changes the rest of the task's call.
LEMMA SilentKeeps ==
  ASSUME LayerInv, NEW k \in Threads, NEW op, Doing(k, op), NEW p \in Seq(Steps), Push(k, p),
         \A s \in Range(p) : s.op \in PlainOps,
         UNCHANGED <<mgr, mouse, window, closing, fault, raced, inbox>>, asked' \subseteq Tasks
  PROVE  LayerInv'
<1>1. mgr \in Managers
  BY DoingFacts, InvFacts
<1>2. Similar(mgr, mgr')
  BY <1>1 DEF Similar
<1> QED BY <1>2, SimilarKeeps

\* What the invariant says of the step a task is at.
LEMMA HeadFacts ==
  ASSUME LayerInv, NEW k \in Threads, NEW op, Doing(k, op)
  PROVE  /\ Fits(mgr, mouse, window, k, Head(todo[k])) /\ (k \in Terminals => window[k] \in Live(mgr))
         /\ ~raced => Alive(mgr, Head(todo[k])) /\ mouse.drag \in {NoLayer} \cup Live(mgr)
<1>1. Run /\ todo[k] # <<>> /\ Head(todo[k]) \in Range(todo[k])
  BY DoingFacts
<1>2. Clients(mgr, mouse, todo, window, closing) /\ (~raced => Safe(mgr, mouse, todo))
  BY <1>1, InvFacts
<1>3. StepsFit(mgr, mouse, window, k, todo[k])
  BY <1>2 DEF Clients
<1> QED BY <1>1, <1>2, <1>3 DEF StepsFit, Safe

\* Layer::Move and MoveRelative: what is moved is gone only after a race.
LEMMA MovesKeeps ==
  ASSUME LayerInv, NEW k \in Threads, Moves(k)
  PROVE  LayerInv'
<1>1. Doing(k, "move") /\ UNCHANGED <<mouse, window, closing, inbox, raced, asked>>
  BY DEF Moves
<1>2. PICK h \in Steps : h = Head(todo[k]) /\ h.op = "move" /\ h.id \in IdsOrNone /\ h.by \in Int
  BY <1>1, DoingFacts, StepFacts
<1>3. Run /\ Sound(mgr) /\ mgr \in Managers /\ asked \subseteq Tasks
  BY <1>1, DoingFacts, InvFacts
<1>4. CASE h.id \notin Live(mgr)
  <2>1. fault' = "null" /\ UNCHANGED <<mgr, todo>>
    BY <1>2, <1>4 DEF Moves
  <2>2. h.id # NoLayer /\ h.id \in IF k = MainTask THEN {mgr.mouse, mouse.drag} ELSE {window[k]}
    BY <1>1, <1>2, HeadFacts DEF Fits
  <2>3. h.id # mgr.mouse
    BY <1>3, <1>4, <2>2 DEF Sound
  <2>4. k # MainTask => k \in Terminals
    BY DEF Threads
  <2>5. raced
    BY <1>1, <1>4, <2>2, <2>3, <2>4, HeadFacts
  <2> QED BY <1>1, <1>3, <2>1, <2>5, NullKeeps
<1>5. CASE h.id \in Live(mgr)
  <2>1. /\ mgr' = [mgr EXCEPT !.layers[h.id].pos = @ + h.by] /\ UNCHANGED fault
        /\ Push(k, <<AreaStep(Area(mgr.layers[h.id])), DrawStep(h.id)>>)
    BY <1>2, <1>5 DEF Moves
  <2>2. Similar(mgr, mgr')
    BY <1>2, <1>3, <1>5, <2>1, ShiftIs
  <2>3. PICK a : a = AreaStep(Area(mgr.layers[h.id]))
    OBVIOUS
  <2>4. PICK b : b = DrawStep(h.id)
    OBVIOUS
  <2>5. a \in Steps /\ b \in Steps /\ a.op = "area" /\ b.op = "draw"
    BY <1>2, <1>3, <1>5, <2>3, <2>4, AreaFacts, DrawSteps
  <2>6. PICK p : p = <<a, b>>
    OBVIOUS
  <2>7. p \in Seq(Steps) /\ \A s \in Range(p) : s \in {a, b}
    BY <2>5, <2>6, TwoSteps
  <2>8. \A s \in Range(p) : s.op \in PlainOps
    BY <2>5, <2>7 DEF PlainOps
  <2>9. Push(k, p)
    BY <2>1, <2>3, <2>4, <2>6
  <2> QED BY <1>1, <1>3, <2>1, <2>2, <2>7, <2>8, <2>9, SimilarKeeps
<1> QED BY <1>4, <1>5

\* Draw(area) begins its loop at the bottom of the stack.
LEMMA BeginsAreaKeeps ==
  ASSUME LayerInv, NEW k \in Threads, BeginsArea(k)
  PROVE  LayerInv'
<1>1. /\ Doing(k, "area") /\ UNCHANGED <<mgr, mouse, window, closing, inbox, fault, raced, asked>>
      /\ Push(k, <<PaintStep(1, Head(todo[k]).area)>>)
  BY DEF BeginsArea
<1>2. PICK a : a = PaintStep(1, Head(todo[k]).area)
  OBVIOUS
<1>3. a \in Steps /\ a.op \in PlainOps
  BY <1>1, <1>2, DoingFacts, StepFacts, DrawSteps DEF PlainOps
<1>4. PICK p : p = <<a>>
  OBVIOUS
<1>5. p \in Seq(Steps) /\ \A s \in Range(p) : s.op \in PlainOps
  BY <1>3, <1>4, OnePlain
<1>6. asked \subseteq Tasks /\ Push(k, p)
  BY <1>1, <1>2, <1>4, DoingFacts, InvFacts
<1> QED BY <1>1, <1>5, <1>6, SilentKeeps

\* Draw(id) finds the layer in the stack or never.
LEMMA BeginsDrawKeeps ==
  ASSUME LayerInv, NEW k \in Threads, BeginsDraw(k)
  PROVE  LayerInv'
<1>1. Doing(k, "draw") /\ UNCHANGED <<mgr, mouse, window, closing, inbox, fault, raced, asked>>
  BY DEF BeginsDraw
<1>2. PICK id : id = Head(todo[k]).id
  OBVIOUS
<1>3. Run /\ Sound(mgr) /\ mgr \in Managers /\ asked \subseteq Tasks
  BY <1>1, DoingFacts, InvFacts
<1>4. PICK h : h = Height(mgr, id)
  OBVIOUS
<1>5. h \in Nat /\ (h > 0 => id \in Live(mgr))
  <2>1. mgr.stack \in Seq(Ids) /\ Range(mgr.stack) \subseteq Live(mgr)
    BY <1>3, ManagerFacts DEF Sound
  <2> QED BY <1>4, <2>1, HeightIs
<1>6. \E a \in Steps : a.op \in PlainOps /\ Push(k, <<a>>)
  <2>1. CASE h > 0
    <3>1. Push(k, <<PaintStep(h, Area(mgr.layers[id]))>>)
      BY <1>2, <1>4, <2>1 DEF BeginsDraw
    <3>2. Area(mgr.layers[id]) \in SUBSET Int
      BY <1>3, <1>5, <2>1, AreaFacts
    <3>3. PICK a : a = PaintStep(h, Area(mgr.layers[id]))
      OBVIOUS
    <3>4. h \in Nat \ {0}
      BY <1>5, <2>1
    <3>5. a \in Steps /\ a.op \in PlainOps
      BY <3>2, <3>3, <3>4, DrawSteps DEF PlainOps
    <3> QED BY <3>1, <3>3, <3>5
  <2>2. CASE ~(h > 0)
    <3>1. h = 0 /\ ~(h > 0)
      BY <1>5, <2>2
    <3>2. \E area \in AnyArea : Push(k, <<CopyStep(area)>>)
      BY <1>2, <1>4, <3>1 DEF BeginsDraw
    <3>3. PICK area \in AnyArea : Push(k, <<CopyStep(area)>>)
      BY <3>2
    <3>4. area \in SUBSET Int
      BY <3>3 DEF AnyArea, Pixels
    <3>5. CopyStep(area) \in Steps /\ CopyStep(area).op \in PlainOps
      BY <3>4, DrawSteps DEF PlainOps
    <3> QED BY <3>3, <3>5
  <2> QED BY <2>1, <2>2
<1>7. PICK a \in Steps : a.op \in PlainOps /\ Push(k, <<a>>)
  BY <1>6
<1>8. PICK p : p = <<a>>
  OBVIOUS
<1>9. p \in Seq(Steps) /\ (\A s \in Range(p) : s.op \in PlainOps) /\ Push(k, p)
  BY <1>7, <1>8, OnePlain
<1> QED BY <1>1, <1>3, <1>9, SilentKeeps

\* One turn of the loop, and the copy after it.
LEMMA PaintsKeeps ==
  ASSUME LayerInv, NEW k \in Threads, Paints(k)
  PROVE  LayerInv'
<1>1. Doing(k, "paint") /\ UNCHANGED <<mouse, window, closing, inbox, fault, raced, asked>>
  BY DEF Paints
<1>2. PICK h \in Steps : h = Head(todo[k]) /\ h.area \in SUBSET Int /\ h.h \in Nat \ {0}
  BY <1>1, DoingFacts, StepFacts
<1>3. Run /\ Sound(mgr) /\ mgr \in Managers /\ asked \subseteq Tasks
  BY <1>1, DoingFacts, InvFacts
<1>4. Len(mgr.stack) \in Nat /\ Range(mgr.stack) \subseteq Live(mgr)
  BY <1>3, ManagerFacts DEF Sound
<1>5. CASE h.h <= Len(mgr.stack)
  <2>1. mgr' = DrawTo(mgr, mgr.stack[h.h], h.area) /\ Push(k, <<PaintStep(h.h + 1, h.area)>>)
    BY <1>2, <1>4, <1>5 DEF Paints
  <2>2. mgr.stack[h.h] \in Live(mgr)
    BY <1>2, <1>3, <1>4, <1>5, StackLive
  <2>3. Similar(mgr, mgr')
    BY <1>3, <2>1, <2>2, DrawToIs
  <2>4. PICK a : a = PaintStep(h.h + 1, h.area)
    OBVIOUS
  <2>5. a \in Steps /\ a.op \in PlainOps
    BY <1>2, <2>4, DrawSteps DEF PlainOps
  <2>6. PICK p : p = <<a>>
    OBVIOUS
  <2>7. p \in Seq(Steps) /\ (\A s \in Range(p) : s.op \in PlainOps) /\ Push(k, p)
    BY <2>1, <2>4, <2>5, <2>6, OnePlain
  <2> QED BY <1>1, <1>3, <2>3, <2>7, SimilarKeeps
<1>6. CASE ~(h.h <= Len(mgr.stack))
  <2>1. mgr' = CopyToScreen(mgr, h.area) /\ Push(k, <<>>)
    BY <1>2, <1>4, <1>6 DEF Paints
  <2>2. Similar(mgr, mgr')
    BY <1>3, <2>1, CopyIs
  <2> QED BY <1>1, <1>3, <2>1, <2>2, NoSteps, SimilarKeeps
<1> QED BY <1>5, <1>6

\* The copy of an area that was never initialised.
LEMMA CopiesKeeps ==
  ASSUME LayerInv, NEW k \in Threads, Copies(k)
  PROVE  LayerInv'
<1>1. /\ Doing(k, "copy") /\ UNCHANGED <<mouse, window, closing, inbox, fault, raced, asked>>
      /\ mgr' = CopyToScreen(mgr, Head(todo[k]).area) /\ Push(k, <<>>)
  BY DEF Copies
<1>2. mgr \in Managers /\ asked \subseteq Tasks
  BY <1>1, DoingFacts, InvFacts
<1>3. Similar(mgr, mgr')
  BY <1>1, <1>2, CopyIs
<1> QED BY <1>1, <1>2, <1>3, NoSteps, SimilarKeeps

\* The Draw of the active layer.
LEMMA DrawsActiveKeeps ==
  ASSUME LayerInv, NEW k \in Threads, DrawsActive(k)
  PROVE  LayerInv'
<1>1. /\ Doing(k, "drawActive") /\ UNCHANGED <<mgr, mouse, window, closing, inbox, fault, raced, asked>>
      /\ Push(k, <<DrawStep(mgr.active)>>)
  BY DEF DrawsActive
<1>2. mgr \in Managers /\ asked \subseteq Tasks
  BY <1>1, DoingFacts, InvFacts
<1>3. PICK a : a = DrawStep(mgr.active)
  OBVIOUS
<1>4. a \in Steps /\ a.op \in PlainOps
  BY <1>2, <1>3, ManagerFacts, DrawSteps DEF PlainOps
<1>5. PICK p : p = <<a>>
  OBVIOUS
<1>6. p \in Seq(Steps) /\ (\A s \in Range(p) : s.op \in PlainOps) /\ Push(k, p)
  BY <1>1, <1>3, <1>4, <1>5, OnePlain
<1> QED BY <1>1, <1>2, <1>6, SilentKeeps

\* SendWindowActiveMessage to the task of the active layer.
LEMMA TellsKeeps ==
  ASSUME LayerInv, NEW k \in Threads, Tells(k)
  PROVE  LayerInv'
<1>1. /\ Doing(k, "tell") /\ UNCHANGED <<mouse, window, closing, inbox, fault, raced, asked>>
      /\ mgr' = SendWindowActive(mgr, mgr.active, Head(todo[k]).activate) /\ Push(k, <<>>)
  BY DEF Tells
<1>2. mgr \in Managers /\ asked \subseteq Tasks
  BY <1>1, DoingFacts, InvFacts
<1>3. Head(todo[k]).activate \in BOOLEAN
  BY <1>1, DoingFacts, StepFacts
<1>4. Similar(mgr, mgr')
  BY <1>1, <1>2, <1>3, SendIs
<1> QED BY <1>1, <1>2, <1>4, NoSteps, SimilarKeeps

\* insert into layer_task_map by a terminal.
LEMMA RegistersKeeps ==
  ASSUME LayerInv, NEW t \in Terminals, Registers(t)
  PROVE  LayerInv'
<1>1. /\ Doing(t, "register") /\ UNCHANGED <<mouse, window, closing, inbox, fault, raced, asked>>
      /\ mgr' = Register(mgr, Head(todo[t]).id, t) /\ Push(t, <<>>)
  BY DEF Registers
<1>2. t \in Threads /\ t \in Tasks
  BY DEF Threads, Tasks
<1>3. mgr \in Managers /\ asked \subseteq Tasks
  BY <1>1, <1>2, DoingFacts, InvFacts
<1>4. Head(todo[t]).id \in Ids
  BY <1>1, <1>2, DoingFacts, StepFacts
<1>5. Similar(mgr, mgr')
  BY <1>1, <1>2, <1>3, <1>4, RegisterIs
<1> QED BY <1>1, <1>2, <1>3, <1>5, NoSteps, SimilarKeeps

\* The end of OnInterrupt.
LEMMA MainSendsKeeps ==
  ASSUME LayerInv, MainSends
  PROVE  LayerInv'
<1>1. /\ Doing(MainTask, "send") /\ UNCHANGED <<mgr, mouse, window, closing, inbox, fault, raced>> /\ Push(MainTask, <<>>)
  BY DEF MainSends
<1>2. MainTask \in Threads
  BY DEF Threads
<1>3. mgr \in Managers /\ asked \subseteq Tasks
  BY <1>1, <1>2, DoingFacts, InvFacts
<1>4. mgr.active \in DOMAIN mgr.owner => mgr.owner[mgr.active] \in Tasks
  BY <1>3, ManagerFacts
<1>5. asked' \subseteq Tasks
  BY <1>3, <1>4 DEF MainSends
<1> QED BY <1>1, <1>2, <1>5, NoSteps, SilentKeeps

\* The main task takes up a Draw.
LEMMA StartDraws ==
  ASSUME LayerInv, Idling(MainTask), NEW id \in IdsOrNone, todo' = [todo EXCEPT ![MainTask] = <<DrawStep(id)>>],
         UNCHANGED <<mgr, mouse, window, closing, fault, raced, asked>>, inbox' \subseteq Ids
  PROVE  LayerInv'
<1>1. Run
  BY DEF Idling
<1>2. PICK a : a = DrawStep(id)
  OBVIOUS
<1>3. a \in Steps /\ a.op = "draw"
  BY <1>2, DrawSteps
<1>4. PICK p : p = <<a>>
  OBVIOUS
<1>5. p \in Seq(Steps) /\ (\A s \in Range(p) : s = a) /\ \A s, t : ~Below(p, s, t)
  BY <1>3, <1>4, OneStep
<1>6. Ordered(p)
  BY <1>5 DEF Ordered
<1>7. \A s \in Range(p) : Fits(mgr, mouse, window, MainTask, s) /\ s.op \notin Activations \cup ActivateOps
  BY <1>3, <1>5 DEF Fits, Activations, ActivateOps
<1>8. mouse \in MouseStates /\ todo' = [todo EXCEPT ![MainTask] = p]
  BY <1>1, <1>2, <1>4, InvFacts
<1> QED BY <1>5, <1>6, <1>7, <1>8, StartKeeps

\* The main loop's own draws.
LEMMA MainDrawsKeeps ==
  ASSUME LayerInv, MainDraws
  PROVE  LayerInv'
<1>1. Idling(MainTask) /\ UNCHANGED <<mgr, mouse, window, closing, inbox, fault, raced, asked>>
  BY DEF MainDraws
<1>2. PICK id \in {MainWindow, TextWindow} : todo' = [todo EXCEPT ![MainTask] = <<DrawStep(id)>>]
  BY DEF MainDraws
<1>3. id \in IdsOrNone
  BY LayerAssumption DEF IdsOrNone, MainWindow, TextWindow
<1>4. inbox' \subseteq Ids
  BY <1>1, InvFacts DEF Idling
<1> QED BY <1>1, <1>2, <1>3, <1>4, StartDraws

\* ProcessLayerMessage.
LEMMA MainReceivesLayerKeeps ==
  ASSUME LayerInv, MainReceivesLayer
  PROVE  LayerInv'
<1>1. Idling(MainTask) /\ UNCHANGED <<mgr, mouse, window, closing, fault, raced, asked>>
  BY DEF MainReceivesLayer
<1>2. PICK id \in inbox : inbox' = inbox \ {id} /\ todo' = [todo EXCEPT ![MainTask] = <<DrawStep(id)>>]
  BY DEF MainReceivesLayer
<1>3. inbox \subseteq Ids
  BY <1>1, InvFacts DEF Idling
<1>4. id \in IdsOrNone /\ inbox' \subseteq Ids
  BY <1>2, <1>3, LayerAssumption DEF Ids, IdsOrNone
<1> QED BY <1>1, <1>2, <1>4, StartDraws

\* The cursor stays on the screen.
LEMMA ClampIs ==
  ASSUME NEW x \in Int
  PROVE  Clamp(x) \in Pixels
<1>1. ScreenWidth \in Nat \ {0}
  BY LayerAssumption
<1>2. ASSUME NEW a \in Int, NEW b \in Int PROVE Min({a, b}) = IF a <= b THEN a ELSE b
  <2>1. \E y \in {a, b} : \A z \in {a, b} : y <= z
    OBVIOUS
  <2>2. Min({a, b}) \in {a, b} /\ \A z \in {a, b} : Min({a, b}) <= z
    BY <2>1 DEF Min
  <2> QED BY <2>2
<1>3. ASSUME NEW a \in Int, NEW b \in Int PROVE Max({a, b}) = IF a >= b THEN a ELSE b
  <2>1. \E y \in {a, b} : \A z \in {a, b} : y >= z
    OBVIOUS
  <2>2. Max({a, b}) \in {a, b} /\ \A z \in {a, b} : Max({a, b}) >= z
    BY <2>1 DEF Max
  <2> QED BY <2>2
<1>4. PICK y : y = Min({x, ScreenWidth - 1})
  OBVIOUS
<1>5. y \in Int /\ y <= ScreenWidth - 1
  BY <1>1, <1>2, <1>4
<1>6. Clamp(x) = Max({y, 0})
  BY <1>4 DEF Clamp
<1> QED BY <1>1, <1>3, <1>5, <1>6 DEF Pixels

\* Mouse::OnInterrupt up to the Move of the cursor.
LEMMA OnInterruptKeeps ==
  ASSUME LayerInv, OnInterrupt
  PROVE  LayerInv'
<1>1. /\ Idling(MainTask) /\ mgr.mouse # NoLayer /\ mouse.moves < MaxMoves
      /\ UNCHANGED <<mgr, window, closing, inbox, fault, raced, asked>>
  BY DEF OnInterrupt
<1>2. PICK dx \in {-1, 0, 1}, left \in BOOLEAN :
        /\ mouse' = [mouse EXCEPT !.pos = Clamp(mouse.pos + dx), !.moves = @ + 1]
        /\ todo' = [todo EXCEPT ![MainTask] =
                      <<[op |-> "move", id |-> mgr.mouse, by |-> Clamp(mouse.pos + dx) - mouse.pos],
                        [op |-> "button", left |-> left, by |-> Clamp(mouse.pos + dx) - mouse.pos]>>]
  BY DEF OnInterrupt
<1>3. mgr \in Managers /\ mouse \in MouseStates /\ inbox \subseteq Ids
  BY <1>1, InvFacts DEF Idling
<1>4. mouse.pos \in Pixels /\ mouse.moves \in 0 .. MaxMoves
  BY <1>3 DEF MouseStates
<1>5. PICK x : x = Clamp(mouse.pos + dx)
  OBVIOUS
<1>6. x \in Pixels
  <2>1. mouse.pos + dx \in Int
    BY <1>4 DEF Pixels
  <2> QED BY <1>5, <2>1, ClampIs
<1>7. PICK by \in Int : by = x - mouse.pos
  BY <1>4, <1>6 DEF Pixels
<1>8. PICK a : a = [op |-> "move", id |-> mgr.mouse, by |-> by]
  OBVIOUS
<1>9. PICK b : b = [op |-> "button", left |-> left, by |-> by]
  OBVIOUS
<1>10. mgr.mouse \in IdsOrNone
  BY <1>3, ManagerFacts, LayerAssumption DEF IdsOrNone, NoLayer, MouseLayer
<1>11. a \in Steps /\ b \in Steps /\ a.op = "move" /\ a.id = mgr.mouse /\ b.op = "button"
  BY <1>7, <1>8, <1>9, <1>10 DEF Steps
<1>12. PICK p : p = <<a, b>>
  OBVIOUS
<1>13. /\ p \in Seq(Steps) /\ (\A s \in Range(p) : s \in {a, b}) /\ \A s, t : Below(p, s, t) => s = a /\ t = b
  BY <1>11, <1>12, TwoSteps
<1>14. Ordered(p)
  BY <1>11, <1>13 DEF Ordered, MayPrecede, Activations
<1>15. \A s \in Range(p) : Fits(mgr, mouse, window, MainTask, s) /\ s.op \notin Activations \cup ActivateOps
  BY <1>1, <1>11, <1>13 DEF Fits, Activations, ActivateOps
<1>16. mouse' \in MouseStates /\ mouse'.drag = mouse.drag
  <2>1. mouse' = [mouse EXCEPT !.pos = x, !.moves = mouse.moves + 1]
    BY <1>2, <1>5
  <2>2. mouse.moves + 1 \in 0 .. MaxMoves
    BY <1>1, <1>4, LayerAssumption
  <2> QED BY <1>3, <1>6, <2>1, <2>2 DEF MouseStates
<1>17. todo' = [todo EXCEPT ![MainTask] = p]
  BY <1>2, <1>5, <1>7, <1>8, <1>9, <1>12
<1> QED BY <1>1, <1>3, <1>13, <1>14, <1>15, <1>16, <1>17, StartKeeps

\* The mouse finds nothing, or a layer that is alive and not the cursor.
LEMMA FindIs ==
  ASSUME NEW m \in Managers, Sound(m), NEW p, NEW id, id = FindLayerByPosition(m, p)
  PROVE  id \in {NoLayer} \cup Live(m) /\ NotCursor(m, id)
<1>1. PICK S : S = {h \in DOMAIN m.stack : /\ m.stack[h] # m.mouse
                                          /\ p \in Area(m.layers[m.stack[h]])}
  OBVIOUS
<1>2. id = IF S = {} THEN NoLayer ELSE m.stack[Max(S)]
  BY <1>1 DEF FindLayerByPosition
<1>3. CASE S = {}
  BY <1>2, <1>3 DEF NotCursor
<1>4. CASE S # {}
  <2>1. DOMAIN m.stack = 1 .. Len(m.stack) /\ Len(m.stack) \in Nat /\ Range(m.stack) \subseteq Live(m)
    BY ManagerFacts DEF Sound
  <2>2. S \subseteq 1 .. Len(m.stack)
    BY <1>1, <2>1
  <2>3. Max(S) \in S
    BY <1>4, <2>1, <2>2, MaxIs
  <2>4. m.stack[Max(S)] \in Live(m)
    BY <2>1, <2>2, <2>3, StackLive
  <2>5. m.stack[Max(S)] # m.mouse
    BY <1>1, <2>3
  <2> QED BY <1>2, <1>4, <2>4, <2>5 DEF NotCursor
<1> QED BY <1>3, <1>4

\* steps after a button
ButtonOps == {"activate", "move", "send"}

\* A branch of the press, hold and release branches.
LEMMA ButtonKeeps ==
  ASSUME LayerInv, Doing(MainTask, "button"), NEW p \in Seq(Steps), Push(MainTask, p),
         UNCHANGED <<mgr, window, closing, inbox, fault, raced, asked>>,
         mouse' \in MouseStates, ~raced => mouse'.drag \in {NoLayer} \cup Live(mgr),
         \A s \in Range(p) : s.op \in ButtonOps /\ Fits(mgr, mouse', window, MainTask, s) /\ Alive(mgr, s)
  PROVE  LayerInv'
<1>1. MainTask \in Threads
  BY DEF Threads
<1>2. Run /\ todo[MainTask] # <<>> /\ Head(todo[MainTask]).op = "button"
  BY <1>1, DoingFacts
<1>3. mgr \in Managers /\ Sound(mgr) /\ fault = "none" /\ raced \in BOOLEAN /\ asked \subseteq Tasks /\ inbox \subseteq Ids
  BY <1>2, InvFacts
<1>4. \A s \in Range(p) : s.op # "button" /\ s.op # "raise" /\ s.op \notin ActivateOps
  BY DEF ButtonOps, ActivateOps
<1>5. Following(mgr, mouse', window, MainTask, p, Head(todo[MainTask]))
  <2>1. \A s, t : Below(p, s, t) => MayPrecede(s, t)
    BY <1>4, BelowRange DEF MayPrecede
  <2> QED BY <1>2, <1>4, <2>1 DEF Following
<1>6. Entering(MainTask, p)
  BY <1>4 DEF Entering
<1> QED BY <1>1, <1>2, <1>3, <1>5, <1>6, ThreadKeeps

\* The press, hold and release branches of OnInterrupt.
LEMMA MainButtonKeeps ==
  ASSUME LayerInv, MainButton
  PROVE  LayerInv'
<1>1. Doing(MainTask, "button") /\ UNCHANGED <<mgr, window, closing, inbox, fault, raced, asked>>
  BY DEF MainButton
<1>2. MainTask \in Threads
  BY DEF Threads
<1>3. PICK h \in Steps : h = Head(todo[MainTask]) /\ h.left \in BOOLEAN /\ h.by \in Int
  BY <1>1, <1>2, DoingFacts, StepFacts
<1>4. mgr \in Managers /\ Sound(mgr) /\ mouse \in MouseStates
  BY <1>1, <1>2, DoingFacts, InvFacts
<1>5. PICK id : id = FindLayerByPosition(mgr, mouse.pos)
  OBVIOUS
<1>6. id \in {NoLayer} \cup Live(mgr) /\ NotCursor(mgr, id)
  BY <1>4, <1>5, FindIs
<1>7. PICK hit : hit = IF id # NoLayer /\ mgr.layers[id].kind = "window" THEN id ELSE NoLayer
  OBVIOUS
<1>8. hit \in {NoLayer} \cup Live(mgr) /\ NotCursor(mgr, hit)
  BY <1>6, <1>7 DEF NotCursor
<1>9. PICK region : region = IF id # NoLayer /\ mgr.layers[id].kind = "window"
                             THEN GetWindowRegion(mouse.pos - mgr.layers[id].pos) ELSE "Other"
  OBVIOUS
<1>10. PICK drag : drag = IF region = "TitleBar" THEN id ELSE mouse.drag
  OBVIOUS
<1>11. PICK clicked : clicked = IF region = "CloseButton" THEN id ELSE NoLayer
  OBVIOUS
<1>12. NoLayer \in IdsOrNone /\ id \in IdsOrNone /\ hit \in IdsOrNone /\ clicked \in IdsOrNone
  <2>1. Live(mgr) \subseteq IdsOrNone /\ NoLayer \in IdsOrNone
    BY <1>4, ManagerFacts, LayerAssumption DEF Ids, IdsOrNone, NoLayer
  <2> QED BY <1>6, <1>8, <1>11, <2>1
<1>13. mouse.drag \in IdsOrNone /\ drag \in IdsOrNone
  BY <1>4, <1>10, <1>12 DEF MouseStates
<1>14. ~raced => mouse.drag \in {NoLayer} \cup Live(mgr) /\ drag \in {NoLayer} \cup Live(mgr)
  BY <1>1, <1>2, <1>6, <1>10, HeadFacts
<1>15. ASSUME NEW c \in IdsOrNone, NEW b, b = [op |-> "send", clicked |-> c], NEW mo
       PROVE  /\ b \in Steps /\ b.op = "send" /\ b.op \in ButtonOps
              /\ Fits(mgr, mo, window, MainTask, b) /\ Alive(mgr, b)
  <2>1. b \in Steps /\ b.op = "send"
    BY <1>15 DEF Steps
  <2> QED BY <2>1 DEF ButtonOps, Fits, Alive, Activations
<1>16. CASE ~mouse.pressed /\ h.left
  <2>1. /\ mouse' = [mouse EXCEPT !.drag = drag, !.pressed = TRUE]
        /\ Push(MainTask, <<[op |-> "activate", id |-> hit], [op |-> "send", clicked |-> clicked]>>)
    BY <1>3, <1>5, <1>7, <1>9, <1>10, <1>11, <1>16 DEF MainButton
  <2>2. mouse' \in MouseStates /\ mouse'.drag = drag
    BY <1>4, <1>13, <2>1 DEF MouseStates
  <2>3. PICK a : a = [op |-> "activate", id |-> hit]
    OBVIOUS
  <2>4. PICK b : b = [op |-> "send", clicked |-> clicked]
    OBVIOUS
  <2>5. a \in Steps /\ a.op = "activate" /\ a.id = hit
    BY <1>12, <2>3 DEF Steps
  <2>6. a.op \in ButtonOps /\ Fits(mgr, mouse', window, MainTask, a) /\ Alive(mgr, a)
    BY <1>8, <2>5 DEF ButtonOps, Fits, Alive, Activations
  <2>7. PICK p : p = <<a, b>>
    OBVIOUS
  <2>8. b \in Steps /\ b.op \in ButtonOps /\ Fits(mgr, mouse', window, MainTask, b) /\ Alive(mgr, b)
    BY <1>12, <1>15, <2>4
  <2>9. p \in Seq(Steps) /\ \A s \in Range(p) : s \in {a, b}
    BY <2>5, <2>7, <2>8, TwoSteps
  <2>10. \A s \in Range(p) : s.op \in ButtonOps /\ Fits(mgr, mouse', window, MainTask, s) /\ Alive(mgr, s)
    BY <2>6, <2>8, <2>9
  <2>11. Push(MainTask, p)
    BY <2>1, <2>3, <2>4, <2>7
  <2> QED BY <1>1, <1>14, <2>2, <2>9, <2>10, <2>11, ButtonKeeps
<1>17. ASSUME mouse' \in MouseStates, ~raced => mouse'.drag \in {NoLayer} \cup Live(mgr),
              Push(MainTask, <<[op |-> "send", clicked |-> NoLayer]>>)
       PROVE  LayerInv'
  <2>1. PICK b : b = [op |-> "send", clicked |-> NoLayer]
    OBVIOUS
  <2>2. b \in Steps /\ b.op \in ButtonOps /\ Fits(mgr, mouse', window, MainTask, b) /\ Alive(mgr, b)
    BY <1>12, <1>15, <2>1
  <2>3. PICK p : p = <<b>>
    OBVIOUS
  <2>4. p \in Seq(Steps) /\ \A s \in Range(p) : s = b
    BY <2>2, <2>3, OneStep
  <2>5. \A s \in Range(p) : s.op \in ButtonOps /\ Fits(mgr, mouse', window, MainTask, s) /\ Alive(mgr, s)
    BY <2>2, <2>4
  <2>6. Push(MainTask, p)
    BY <1>17, <2>1, <2>3
  <2> QED BY <1>1, <1>17, <2>4, <2>5, <2>6, ButtonKeeps
<1>18. CASE mouse.pressed /\ h.left /\ mouse.drag # NoLayer
  <2>1. /\ mouse' = mouse
        /\ Push(MainTask, <<[op |-> "move", id |-> mouse.drag, by |-> h.by], [op |-> "send", clicked |-> NoLayer]>>)
    BY <1>3, <1>18 DEF MainButton
  <2>2. PICK a : a = [op |-> "move", id |-> mouse.drag, by |-> h.by]
    OBVIOUS
  <2>3. PICK b : b = [op |-> "send", clicked |-> NoLayer]
    OBVIOUS
  <2>4. a \in Steps /\ a.op = "move" /\ a.id = mouse.drag
    BY <1>3, <1>13, <2>2 DEF Steps
  <2>5. a.op \in ButtonOps /\ Fits(mgr, mouse', window, MainTask, a) /\ Alive(mgr, a)
    BY <1>18, <2>1, <2>4 DEF ButtonOps, Fits, Alive, Activations
  <2>6. PICK p : p = <<a, b>>
    OBVIOUS
  <2>7. b \in Steps /\ b.op \in ButtonOps /\ Fits(mgr, mouse', window, MainTask, b) /\ Alive(mgr, b)
    BY <1>12, <1>15, <2>3
  <2>8. p \in Seq(Steps) /\ \A s \in Range(p) : s \in {a, b}
    BY <2>4, <2>6, <2>7, TwoSteps
  <2>9. \A s \in Range(p) : s.op \in ButtonOps /\ Fits(mgr, mouse', window, MainTask, s) /\ Alive(mgr, s)
    BY <2>5, <2>7, <2>8
  <2>10. Push(MainTask, p)
    BY <2>1, <2>2, <2>3, <2>6
  <2> QED BY <1>1, <1>4, <1>14, <2>1, <2>8, <2>9, <2>10, ButtonKeeps
<1>19. CASE ~(~mouse.pressed /\ h.left) /\ ~(mouse.pressed /\ h.left /\ mouse.drag # NoLayer)
  <2>1. Push(MainTask, <<[op |-> "send", clicked |-> NoLayer]>>)
    BY <1>3, <1>19 DEF MainButton
  <2>2. mouse' = mouse \/ mouse' = [mouse EXCEPT !.drag = NoLayer, !.pressed = FALSE]
    BY <1>3, <1>19 DEF MainButton
  <2>3. CASE mouse' = mouse
    BY <1>4, <1>14, <1>17, <2>1, <2>3
  <2>4. CASE mouse' = [mouse EXCEPT !.drag = NoLayer, !.pressed = FALSE]
    <3>1. mouse' \in MouseStates /\ mouse'.drag = NoLayer
      BY <1>4, <1>12, <2>4 DEF MouseStates
    <3> QED BY <1>17, <2>1, <3>1
  <2> QED BY <2>2, <2>3, <2>4
<1> QED BY <1>16, <1>18, <1>19

\* The model's test that a task is inside Activate.
LEMMA ActivatingIs ==
  ASSUME todo \in [Threads -> Seq(Steps)], NEW others \in SUBSET Threads, ~Activating(others), NEW j \in others
  PROVE  ~Inside(todo[j])
<1>1. SUFFICES ASSUME NEW s \in Range(todo[j]), s.op \in ActivateOps PROVE FALSE
  BY DEF Inside
<1>2. PICK i \in DOMAIN todo[j] : s = todo[j][i]
  BY DEF Range
<1> QED BY <1>1, <1>2 DEF Activating, ActivateOps

\* Activate takes leave of the old window; the task is the only one inside
\* Activate unless there was a race.
LEMMA ActivatesKeeps ==
  ASSUME LayerInv, NEW k \in Threads, Activates(k)
  PROVE  LayerInv'
<1>1. Doing(k, "activate") /\ UNCHANGED <<mouse, window, closing, inbox, asked>>
  BY DEF Activates
<1>2. PICK h \in Steps : h = Head(todo[k]) /\ h.op = "activate" /\ h.id \in IdsOrNone
  BY <1>1, DoingFacts, StepFacts DEF Activations
<1>3. /\ Run /\ todo[k] # <<>> /\ Sound(mgr) /\ mgr \in Managers /\ asked \subseteq Tasks /\ mouse \in MouseStates
      /\ inbox \subseteq Ids /\ fault = "none" /\ raced \in BOOLEAN /\ todo \in [Threads -> Seq(Steps)]
  BY <1>1, DoingFacts, InvFacts
<1>4. PICK on : on = [op |-> "activateNew", id |-> h.id]
  OBVIOUS
<1>5. on \in Steps /\ on.op = "activateNew" /\ on.id = h.id
  BY <1>2, <1>4 DEF Steps
<1>6. Fits(mgr, mouse, window, k, on) /\ (~raced => h.id \in {NoLayer} \cup Live(mgr) /\ mouse.drag \in {NoLayer} \cup Live(mgr))
  BY <1>1, <1>2, <1>5, HeadFacts DEF Fits, Alive, Activations
<1>7. CASE mgr.active = h.id
  <2>1. Push(k, <<>>) /\ UNCHANGED <<mgr, fault, raced>>
    BY <1>2, <1>7 DEF Activates
  <2> QED BY <1>1, <1>3, <2>1, NoSteps, SilentKeeps
<1>8. ASSUME NEW p \in Seq(Steps), Push(k, p), Similar(mgr, mgr'), fault' = fault, Intrudes(Threads \ {k}, FALSE),
             \A s \in Range(p) : s = on \/ s.op \in {"drawActive", "tell"},
             \A s, t : Below(p, s, t) => s.op \in {"drawActive", "tell"}
      PROVE  LayerInv'
  <2>1. /\ mgr' \in Managers /\ mgr'.mouse = mgr.mouse /\ mgr'.latest = mgr.latest /\ Live(mgr') = Live(mgr)
        /\ mgr'.active = mgr.active
    BY <1>8 DEF Similar
  <2>2. Sound(mgr')
    BY <1>3, <1>8, SimilarSound
  <2>3. raced' \in BOOLEAN /\ (raced => raced') /\ (~raced' => ~raced /\ ~Activating(Threads \ {k}))
    BY <1>3, <1>8 DEF Intrudes
  <2>4. ~raced' => Entering(k, p)
    BY <1>3, <2>3, ActivatingIs DEF Entering
  <2>5. Following(mgr, mouse', window, k, p, Head(todo[k]))
    <3>1. \A s \in Range(p) : Fits(mgr, mouse', window, k, s)
      BY <1>1, <1>6, <1>8 DEF Fits, Activations
    <3>2. \A s, t : Below(p, s, t) => MayPrecede(s, t)
      BY <1>8 DEF MayPrecede, Activations
    <3>3. \A s \in Range(p) : s.op # "button"
      BY <1>5, <1>8
    <3> QED BY <1>2, <3>1, <3>2, <3>3 DEF Following, Activations
  <2>6. ~raced' => \A s \in Range(p) : Alive(mgr', s)
    BY <1>5, <1>6, <1>8, <2>1, <2>3 DEF Alive, Activations
  <2>7. mouse' = mouse /\ window' = window /\ closing' = closing /\ asked' = asked /\ inbox' = inbox /\ fault' = "none"
    BY <1>1, <1>3, <1>8
  <2> QED BY <1>3, <1>6, <1>8, <2>1, <2>2, <2>3, <2>4, <2>5, <2>6, <2>7, ThreadKeeps
<1>9. CASE mgr.active # h.id /\ mgr.active = NoLayer
  <2>1. Push(k, <<on>>) /\ UNCHANGED <<mgr, fault>> /\ Intrudes(Threads \ {k}, FALSE)
    BY <1>2, <1>4, <1>9 DEF Activates
  <2>2. PICK p : p = <<on>>
    OBVIOUS
  <2>3. p \in Seq(Steps) /\ (\A s \in Range(p) : s = on) /\ \A s, t : ~Below(p, s, t)
    BY <1>5, <2>2, OneStep
  <2>4. Similar(mgr, mgr') /\ Push(k, p)
    BY <1>3, <2>1, <2>2 DEF Similar
  <2> QED BY <1>8, <2>1, <2>3, <2>4
<1>10. CASE mgr.active # h.id /\ mgr.active # NoLayer
  <2>1. /\ mgr' = Light(mgr, mgr.active, FALSE) /\ fault' = (IF mgr.active \in Live(mgr) THEN fault ELSE "null")
        /\ Push(k, <<[op |-> "drawActive"], [op |-> "tell", activate |-> FALSE], on>>) /\ Intrudes(Threads \ {k}, FALSE)
    BY <1>2, <1>4, <1>10 DEF Activates
  <2>2. mgr.active \in Live(mgr)
    BY <1>3, <1>10 DEF Sound
  <2>3. Similar(mgr, mgr') /\ fault' = fault
    BY <1>3, <2>1, <2>2, LightIs
  <2>4. PICK a : a = [op |-> "drawActive"]
    OBVIOUS
  <2>5. PICK b : b = [op |-> "tell", activate |-> FALSE]
    OBVIOUS
  <2>6. a \in Steps /\ b \in Steps /\ a.op = "drawActive" /\ b.op = "tell"
    BY <2>4, <2>5 DEF Steps
  <2>7. PICK p : p = <<a, b, on>>
    OBVIOUS
  <2>8. /\ p \in Seq(Steps) /\ (\A s \in Range(p) : s \in {a, b, on})
        /\ \A s, t : Below(p, s, t) => s \in {a, b} /\ t \in {b, on}
    BY <1>5, <2>6, <2>7, ThreeSteps
  <2>9. \A s \in Range(p) : s = on \/ s.op \in {"drawActive", "tell"}
    BY <2>6, <2>8
  <2>10. \A s, t : Below(p, s, t) => s.op \in {"drawActive", "tell"}
    BY <2>6, <2>8
  <2>11. Push(k, p)
    BY <2>1, <2>4, <2>5, <2>7
  <2> QED BY <1>8, <2>1, <2>3, <2>8, <2>9, <2>10, <2>11
<1> QED BY <1>7, <1>9, <1>10

\* Activate turns to the new window; it is gone only after a race.
LEMMA ActivatesNewKeeps ==
  ASSUME LayerInv, NEW k \in Threads, ActivatesNew(k)
  PROVE  LayerInv'
<1>1. Doing(k, "activateNew") /\ UNCHANGED <<mouse, window, closing, inbox, raced, asked>>
  BY DEF ActivatesNew
<1>2. PICK h \in Steps : h = Head(todo[k]) /\ h.op = "activateNew" /\ h.id \in IdsOrNone
  BY <1>1, DoingFacts, StepFacts DEF Activations
<1>3. /\ Run /\ todo[k] # <<>> /\ Sound(mgr) /\ mgr \in Managers /\ asked \subseteq Tasks /\ mouse \in MouseStates
      /\ inbox \subseteq Ids /\ fault = "none" /\ raced \in BOOLEAN
  BY <1>1, DoingFacts, InvFacts
<1>4. /\ NotCursor(mgr, h.id) /\ (~raced => h.id \in {NoLayer} \cup Live(mgr) /\ mouse.drag \in {NoLayer} \cup Live(mgr))
  BY <1>1, <1>2, HeadFacts DEF Fits, Alive, Activations
<1>5. ASSUME NEW p \in Seq(Steps), Push(k, p), Raised(mgr, mgr', h.id), fault' = fault,
             \A s \in Range(p) : s.op \in {"raise", "drawActive", "tell"} /\ (s.op = "raise" => h.id \in Live(mgr))
      PROVE  LayerInv'
  <2>1. /\ mgr' \in Managers /\ Sound(mgr') /\ mgr'.mouse = mgr.mouse /\ mgr'.latest = mgr.latest /\ Live(mgr') = Live(mgr)
        /\ mgr'.active = h.id
    BY <1>5 DEF Raised
  <2>2. Following(mgr, mouse', window, k, p, Head(todo[k]))
    <3>1. \A s \in Range(p) : s.op \notin Activations /\ s.op # "move" /\ s.op # "button"
      BY <1>5 DEF Activations
    <3>2. \A s \in Range(p) : Fits(mgr, mouse', window, k, s)
      BY <3>1 DEF Fits
    <3>3. \A s, t : Below(p, s, t) => MayPrecede(s, t)
      BY <3>1, BelowRange DEF MayPrecede
    <3> QED BY <3>1, <3>2, <3>3 DEF Following
  <2>3. \A s \in Range(p) : Alive(mgr', s)
    BY <1>5, <2>1 DEF Alive, Activations
  <2>4. Entering(k, p)
    BY <1>2 DEF Entering, ActivateOps
  <2>5. /\ mouse' = mouse /\ window' = window /\ closing' = closing /\ asked' = asked /\ inbox' = inbox
        /\ fault' = "none" /\ raced' = raced
    BY <1>1, <1>3, <1>5
  <2> QED BY <1>2, <1>3, <1>4, <1>5, <2>1, <2>2, <2>3, <2>4, <2>5, ThreadKeeps
<1>6. CASE h.id = NoLayer
  <2>1. NoLayer \notin Live(mgr)
    BY <1>3, ManagerFacts DEF Ids, NoLayer
  <2>2. mgr' = [mgr EXCEPT !.active = h.id] /\ Push(k, <<>>) /\ fault' = fault
    BY <1>2, <1>6, <2>1 DEF ActivatesNew
  <2>3. Raised(mgr, mgr', h.id)
    BY <1>3, <1>4, <1>6, <2>2, SetActiveIs
  <2> QED BY <1>5, <2>2, <2>3, NoSteps
<1>7. CASE h.id \in Live(mgr)
  <2>1. h.id # NoLayer
    BY <1>3, <1>7, ManagerFacts DEF Ids, NoLayer
  <2>2. /\ mgr' = Light([mgr EXCEPT !.active = h.id], h.id, TRUE) /\ fault' = fault
        /\ Push(k, <<[op |-> "raise", to |-> "bottom"], [op |-> "raise", to |-> "cursor"],
                     [op |-> "drawActive"], [op |-> "tell", activate |-> TRUE]>>)
    BY <1>2, <1>7, <2>1 DEF ActivatesNew
  <2>3. PICK o : o = [mgr EXCEPT !.active = h.id]
    OBVIOUS
  <2>4. Raised(mgr, o, h.id)
    BY <1>3, <1>4, <1>7, <2>3, SetActiveIs
  <2>5. Similar(o, mgr')
    <3>1. o \in Managers /\ h.id \in Live(o)
      BY <1>7, <2>4 DEF Raised
    <3> QED BY <2>2, <2>3, <3>1, LightIs
  <2>6. Raised(mgr, mgr', h.id)
    BY <2>4, <2>5, RaisedOn
  <2>7. PICK a : a = [op |-> "raise", to |-> "bottom"]
    OBVIOUS
  <2>8. PICK b : b = [op |-> "raise", to |-> "cursor"]
    OBVIOUS
  <2>9. PICK c : c = [op |-> "drawActive"]
    OBVIOUS
  <2>10. PICK d : d = [op |-> "tell", activate |-> TRUE]
    OBVIOUS
  <2>11. a \in Steps /\ b \in Steps /\ c \in Steps /\ d \in Steps
    BY <2>7, <2>8, <2>9, <2>10 DEF Steps
  <2>12. a.op = "raise" /\ b.op = "raise" /\ c.op = "drawActive" /\ d.op = "tell"
    BY <2>7, <2>8, <2>9, <2>10
  <2>13. PICK p : p = <<a, b, c, d>>
    OBVIOUS
  <2>14. p \in Seq(Steps) /\ \A s \in Range(p) : s \in {a, b, c, d}
    BY <2>11, <2>13, FourSteps
  <2>15. \A s \in Range(p) : s.op \in {"raise", "drawActive", "tell"} /\ (s.op = "raise" => h.id \in Live(mgr))
    BY <1>7, <2>12, <2>14
  <2>16. Push(k, p)
    BY <2>2, <2>7, <2>8, <2>9, <2>10, <2>13
  <2> QED BY <1>5, <2>2, <2>6, <2>14, <2>15, <2>16
<1>8. CASE h.id \notin {NoLayer} \cup Live(mgr)
  <2>1. fault' = "null" /\ UNCHANGED <<mgr, todo>>
    BY <1>2, <1>8 DEF ActivatesNew
  <2>2. raced
    BY <1>4, <1>8
  <2> QED BY <1>1, <1>3, <2>1, <2>2, NullKeeps
<1> QED BY <1>6, <1>7, <1>8

\* UpDown of the active layer by a task that can be preempted.
LEMMA RaisesKeeps ==
  ASSUME LayerInv, NEW k \in Threads, Raises(k)
  PROVE  LayerInv'
<1>1. Doing(k, "raise") /\ UNCHANGED <<mouse, window, closing, inbox, raced, asked>>
  BY DEF Raises
<1>2. Run /\ Sound(mgr) /\ mgr \in Managers /\ asked \subseteq Tasks /\ fault = "none"
  BY <1>1, DoingFacts, InvFacts
<1>3. CASE mgr.active \in Live(mgr)
  <2>1. PICK h : h = IF Head(todo[k]).to = "bottom" THEN 0 ELSE BelowCursor(mgr)
    OBVIOUS
  <2>2. mgr' = UpDown(mgr, mgr.active, h) /\ Push(k, <<>>) /\ ChangesStack(Threads \ {k})
    BY <1>3, <2>1 DEF Raises
  <2>3. h \in {0, BelowCursor(mgr)}
    BY <2>1
  <2>4. NotCursor(mgr, mgr.active)
    BY <1>2 DEF Sound
  <2>5. Restacked(mgr, mgr')
    BY <1>2, <1>3, <2>2, <2>3, <2>4, UpDownIs
  <2>6. /\ mgr' \in Managers /\ Sound(mgr') /\ mgr'.mouse = mgr.mouse /\ mgr'.latest = mgr.latest /\ Live(mgr') = Live(mgr)
        /\ mgr'.active = mgr.active
    BY <2>5 DEF Restacked, Live
  <2>7. fault' \in {"none", "iterator"}
    BY <1>2, <2>2 DEF ChangesStack
  <2>8. mouse' = mouse /\ window' = window /\ closing' = closing /\ raced' = raced /\ asked' \subseteq Tasks /\ inbox' = inbox
    BY <1>1, <1>2
  <2> QED BY <1>1, <2>2, <2>6, <2>7, <2>8, NoSteps, PlainKeeps
<1>4. CASE mgr.active \notin Live(mgr)
  <2>1. fault' = "null" /\ UNCHANGED <<mgr, todo>>
    BY <1>4 DEF Raises
  <2>2. Head(todo[k]).op = "raise"
    BY <1>1, DoingFacts
  <2>3. raced
    BY <1>1, <1>4, <2>2, HeadFacts DEF Alive
  <2> QED BY <1>1, <1>2, <2>1, <2>3, NullKeeps
<1> QED BY <1>3, <1>4
-----------------------------------------------------------------------------
(***************************************************************************)
(* Opening and closing windows                                             *)
(***************************************************************************)

\* A step after which layers, calls and windows are what they were.
LEMMA QuietKeeps ==
  ASSUME LayerInv, Run, Similar(mgr, mgr'), UNCHANGED <<mouse, todo, window, fault, raced>>,
         DOMAIN closing' = Tasks, Closings(mgr, todo, window, closing'), inbox' \subseteq Ids, asked' \subseteq Tasks
  PROVE  LayerInv'
<1>1. /\ todo \in [Threads -> Seq(Steps)] /\ mouse \in MouseStates /\ window \in [Tasks -> IdsOrNone]
      /\ raced \in BOOLEAN /\ fault = "none" /\ Sound(mgr)
      /\ Clients(mgr, mouse, todo, window, closing) /\ (~raced => Safe(mgr, mouse, todo))
  BY InvFacts
<1>2. PICK n : n = mgr'
  OBVIOUS
<1>3. PICK cl : cl = closing'
  OBVIOUS
<1>4. Similar(mgr, n) /\ Sound(n)
  BY <1>1, <1>2, SimilarSound
<1>5. n \in Managers /\ Live(n) = Live(mgr) /\ n.mouse = mgr.mouse /\ n.latest = mgr.latest /\ n.active = mgr.active
  BY <1>4 DEF Similar
<1>6. \A k \in Threads : StepsFit(n, mouse, window, k, todo[k])
  BY <1>1, <1>5 DEF Clients, StepsFit, Fits, NotCursor
<1>7. Windows(n, window)
  BY <1>1, <1>5 DEF Clients, Windows, NotCursor
<1>8. Closings(n, todo, window, cl)
  BY <1>3, <1>5 DEF Closings
<1>9. ~raced => Safe(n, mouse, todo)
  BY <1>1, <1>5 DEF Safe, Alive
<1>10. Clients(n, mouse, todo, window, cl)
  BY <1>6, <1>7, <1>8 DEF Clients
<1>11. TypeInv'
  BY <1>1, <1>2, <1>5 DEF TypeInv
<1> QED BY <1>1, <1>2, <1>3, <1>4, <1>9, <1>10, <1>11 DEF LayerInv

\* DoWinFunc's Draw.
LEMMA WinRedrawKeeps ==
  ASSUME LayerInv, NEW t \in Programs, WinRedraw(t)
  PROVE  LayerInv'
<1>1. Run /\ mgr' \in DrawOutcomes(mgr, window[t]) /\ UNCHANGED <<mouse, todo, window, closing, inbox, fault, raced, asked>>
  BY DEF WinRedraw
<1>2. /\ mgr \in Managers /\ Sound(mgr) /\ DOMAIN closing = Tasks /\ asked \subseteq Tasks /\ inbox \subseteq Ids
      /\ Clients(mgr, mouse, todo, window, closing)
  BY <1>1, InvFacts
<1>3. Similar(mgr, mgr')
  BY <1>1, <1>2, DrawOutcomesIs
<1>4. Closings(mgr, todo, window, closing')
  BY <1>1, <1>2 DEF Clients
<1> QED BY <1>1, <1>2, <1>3, <1>4, QuietKeeps

\* A kLayer message to the main task.
LEMMA SendLayerMessageKeeps ==
  ASSUME LayerInv, NEW t \in Terminals, SendLayerMessage(t)
  PROVE  LayerInv'
<1>1. /\ Run /\ window[t] \in Live(mgr) /\ inbox' = inbox \cup {window[t]}
      /\ UNCHANGED <<mgr, mouse, todo, window, closing, fault, raced, asked>>
  BY DEF SendLayerMessage, Idling
<1>2. /\ mgr \in Managers /\ DOMAIN closing = Tasks /\ asked \subseteq Tasks /\ inbox \subseteq Ids
      /\ Clients(mgr, mouse, todo, window, closing)
  BY <1>1, InvFacts
<1>3. Similar(mgr, mgr')
  BY <1>1, <1>2 DEF Similar
<1>4. inbox' \subseteq Ids
  BY <1>1, <1>2, ManagerFacts
<1>5. Closings(mgr, todo, window, closing')
  BY <1>1, <1>2 DEF Clients
<1> QED BY <1>1, <1>2, <1>3, <1>4, <1>5, QuietKeeps

\* CloseLayer before its cli.
LEMMA CloseBeginKeeps ==
  ASSUME LayerInv, NEW t \in Tasks, CloseBegin(t)
  PROVE  LayerInv'
<1>1. PICK c : c = [op |-> "close", area |-> Area(mgr.layers[window[t]])]
  OBVIOUS
<1>2. /\ Run /\ window[t] \in Live(mgr) /\ (t \in Terminals => todo[t] = <<>>) /\ asked' = asked \ {t}
      /\ closing' = [closing EXCEPT ![t] = c]
      /\ UNCHANGED <<mgr, mouse, todo, window, inbox, fault, raced>>
  BY <1>1 DEF CloseBegin, Idling
<1>3. /\ mgr \in Managers /\ DOMAIN closing = Tasks /\ asked \subseteq Tasks /\ inbox \subseteq Ids
      /\ Clients(mgr, mouse, todo, window, closing)
  BY <1>2, InvFacts
<1>4. DOMAIN closing' = Tasks /\ \A u \in Tasks : u # t => closing'[u] = closing[u]
  BY <1>2, <1>3
<1>5. Closings(mgr, todo, window, closing')
  BY <1>2, <1>3, <1>4 DEF Clients, Closings
<1>6. Similar(mgr, mgr') /\ asked' \subseteq Tasks /\ inbox' \subseteq Ids
  BY <1>2, <1>3 DEF Similar
<1> QED BY <1>2, <1>4, <1>5, <1>6, QuietKeeps

\* n is m with a new layer
Grown(m, n) ==
  /\ n \in Managers /\ Sound(n) /\ n.mouse = m.mouse /\ n.latest = m.latest + 1
  /\ Live(n) = Live(m) \cup {n.latest} /\ n.latest \in Ids /\ n.latest \notin Live(m) /\ NotCursor(n, n.latest)

\* Task t has opened a window, and does the steps td2[t] next.
Opened(m, mo, td, w, cl, t, n, td2, w2) ==
  /\ m \in Managers /\ w \in [Tasks -> IdsOrNone] /\ Clients(m, mo, td, w, cl)
  /\ t \in Tasks /\ w[t] \notin Live(m) /\ Grown(m, n) /\ w2 = [w EXCEPT ![t] = n.latest]
  /\ \A j \in Threads : j # t => td2[j] = td[j]
  /\ t \in Threads => StepsFit(n, mo, w2, t, td2[t])

\* The clients after that.
LEMMA OpenKeepsClients ==
  ASSUME NEW m, NEW mo, NEW td, NEW w, NEW cl, NEW t, NEW n, NEW td2, NEW w2, Opened(m, mo, td, w, cl, t, n, td2, w2)
  PROVE  Clients(n, mo, td2, w2, cl)
<1>0. /\ m \in Managers /\ w \in [Tasks -> IdsOrNone] /\ Clients(m, mo, td, w, cl)
      /\ t \in Tasks /\ w[t] \notin Live(m) /\ Grown(m, n) /\ w2 = [w EXCEPT ![t] = n.latest]
      /\ \A j \in Threads : j # t => td2[j] = td[j]
      /\ t \in Threads => StepsFit(n, mo, w2, t, td2[t])
  BY DEF Opened
<1> USE <1>0
<1>1. m.latest \in IdsOrNone /\ m.latest \in Int /\ n.latest = m.latest + 1 /\ n.latest \in Ids
  BY ManagerFacts DEF Grown, IdsOrNone
<1>2. w2 \in [Tasks -> IdsOrNone] /\ w2[t] = n.latest /\ \A u \in Tasks : u # t => w2[u] = w[u]
  BY <1>1, LayerAssumption DEF Ids, IdsOrNone
<1>3. Live(n) = Live(m) \cup {n.latest} /\ n.mouse = m.mouse /\ NotCursor(n, n.latest)
  BY DEF Grown
<1>4. ASSUME NEW j \in Threads, j # t PROVE StepsFit(n, mo, w2, j, td2[j])
  <2>1. StepsFit(m, mo, w, j, td[j]) /\ td2[j] = td[j]
    BY <1>4 DEF Clients
  <2>2. j \in Terminals => w2[j] = w[j]
    BY <1>2, <1>4 DEF Tasks
  <2>3. j = MainTask \/ j \in Terminals
    BY DEF Threads
  <2>4. ASSUME NEW s \in Range(td[j]) PROVE Fits(n, mo, w2, j, s)
    <3>1. Fits(m, mo, w, j, s)
      BY <2>1, <2>4 DEF StepsFit
    <3> QED BY <1>3, <2>2, <2>3, <3>1 DEF Fits, NotCursor
  <2> QED BY <1>3, <2>1, <2>2, <2>4 DEF StepsFit
<1>5. \A j \in Threads : StepsFit(n, mo, w2, j, td2[j])
  BY <1>4
<1>6. Windows(m, w)
  BY DEF Clients
<1>7. \A u \in Tasks : w[u] \in Int /\ w[u] <= m.latest
  BY <1>6 DEF Windows, IdsOrNone
<1>8. \A u \in Tasks : w2[u] <= n.latest /\ NotCursor(n, w2[u])
  <2>1. SUFFICES ASSUME NEW u \in Tasks PROVE w2[u] <= n.latest /\ NotCursor(n, w2[u])
    OBVIOUS
  <2>2. CASE u = t
    BY <1>1, <1>2, <1>3, <2>2
  <2>3. CASE u # t
    BY <1>1, <1>2, <1>3, <1>6, <1>7, <2>3 DEF Windows, NotCursor
  <2> QED BY <2>2, <2>3
<1>9. \A u, v \in Tasks : w2[u] = w2[v] /\ w2[u] # NoLayer => u = v
  <2>1. \A u \in Tasks : u # t => w2[u] # n.latest
    BY <1>1, <1>2, <1>7
  <2> QED BY <1>2, <1>6, <2>1 DEF Windows
<1>10. Windows(n, w2)
  BY <1>8, <1>9 DEF Windows
<1>11. Closings(n, td2, w2, cl)
  <2>1. SUFFICES ASSUME NEW u \in Tasks, cl[u] # Idle PROVE w2[u] \in Live(n) /\ (u \in Terminals => td2[u] = <<>>)
    BY DEF Closings
  <2>2. w[u] \in Live(m) /\ (u \in Terminals => td[u] = <<>>)
    BY <2>1 DEF Clients, Closings
  <2>3. u # t /\ (u \in Terminals => u \in Threads)
    BY <2>2 DEF Threads
  <2> QED BY <1>2, <1>3, <2>2, <2>3
<1> QED BY <1>5, <1>10, <1>11 DEF Clients

\* What stays safe after task t has opened a window.
LEMMA OpenKeepsSafe ==
  ASSUME NEW m, NEW mo, NEW td, Safe(m, mo, td), NEW t, NEW n, Live(m) \subseteq Live(n),
         n.active = m.active \/ \A j \in Threads : ~Inside(td[j]),
         NEW td2, \A j \in Threads : j # t => td2[j] = td[j],
         t \in Threads => ~Inside(td2[t]) /\ \A s \in Range(td2[t]) : Alive(n, s)
  PROVE  Safe(n, mo, td2)
<1>1. ASSUME NEW j \in Threads, NEW s \in Range(td2[j]) PROVE Alive(n, s)
  <2>1. CASE j = t
    BY <1>1, <2>1
  <2>2. CASE j # t
    <3>1. s \in Range(td[j]) /\ Alive(m, s)
      BY <1>1, <2>2 DEF Safe
    <3>2. s.op = "raise" => Inside(td[j])
      BY <3>1 DEF Inside, ActivateOps
    <3> QED BY <3>1, <3>2 DEF Alive
  <2> QED BY <2>1, <2>2
<1>2. \A i, j \in Threads : Inside(td2[i]) /\ Inside(td2[j]) => i = j
  BY DEF Safe
<1>3. mo.drag \in {NoLayer} \cup Live(n)
  BY DEF Safe
<1> QED BY <1>1, <1>2, <1>3 DEF Safe

\* Task t has opened a window.
LEMMA OpenKeeps ==
  ASSUME LayerInv, Run, NEW t \in Tasks, window[t] \notin Live(mgr), Grown(mgr, mgr'),
         window' = [window EXCEPT ![t] = mgr'.latest], UNCHANGED <<mouse, closing, asked>>,
         todo' \in [Threads -> Seq(Steps)], \A j \in Threads : j # t => todo'[j] = todo[j],
         t \in Threads => /\ StepsFit(mgr', mouse, window', t, todo'[t]) /\ ~Inside(todo'[t])
                          /\ \A s \in Range(todo'[t]) : Alive(mgr', s),
         fault' \in {"none", "iterator"}, raced' \in BOOLEAN, raced => raced', inbox' \subseteq Ids,
         ~raced' => mgr'.active = mgr.active \/ \A j \in Threads : ~Inside(todo[j])
  PROVE  LayerInv'
<1>1. /\ mgr \in Managers /\ mouse \in MouseStates /\ window \in [Tasks -> IdsOrNone] /\ DOMAIN closing = Tasks
      /\ asked \subseteq Tasks /\ Clients(mgr, mouse, todo, window, closing) /\ (~raced => Safe(mgr, mouse, todo))
  BY InvFacts
<1>2. PICK n : n = mgr'
  OBVIOUS
<1>3. PICK w2 : w2 = window'
  OBVIOUS
<1>4. PICK td2 : td2 = todo'
  OBVIOUS
<1>5. Grown(mgr, n) /\ w2 = [window EXCEPT ![t] = n.latest] /\ (\A j \in Threads : j # t => td2[j] = todo[j])
  BY <1>2, <1>3, <1>4
<1>6. t \in Threads => StepsFit(n, mouse, w2, t, td2[t]) /\ ~Inside(td2[t]) /\ \A s \in Range(td2[t]) : Alive(n, s)
  BY <1>2, <1>3, <1>4
<1>7. Clients(n, mouse, td2, w2, closing)
  <2>1. Opened(mgr, mouse, todo, window, closing, t, n, td2, w2)
    BY <1>1, <1>5, <1>6 DEF Opened
  <2> QED BY <2>1, OpenKeepsClients
<1>8. ~raced' => Safe(n, mouse, td2)
  <2>1. SUFFICES ASSUME ~raced' PROVE Safe(n, mouse, td2)
    OBVIOUS
  <2>2. Safe(mgr, mouse, todo)
    BY <1>1, <2>1
  <2>3. n.active = mgr.active \/ \A j \in Threads : ~Inside(todo[j])
    BY <1>2, <2>1
  <2>4. Live(mgr) \subseteq Live(n)
    BY <1>5 DEF Grown
  <2> QED BY <1>5, <1>6, <2>2, <2>3, <2>4, OpenKeepsSafe
<1>9. n \in Managers /\ Sound(n) /\ n.latest \in IdsOrNone
  BY <1>5, LayerAssumption DEF Grown, Ids, IdsOrNone
<1>10. w2 \in [Tasks -> IdsOrNone]
  BY <1>1, <1>5, <1>9
<1>11. TypeInv'
  BY <1>1, <1>2, <1>3, <1>9, <1>10 DEF TypeInv
<1>12. Sound(mgr') /\ Clients(mgr', mouse', todo', window', closing') /\ (~raced' => Safe(mgr', mouse', todo')) /\ fault' # "null"
  BY <1>2, <1>3, <1>4, <1>7, <1>8, <1>9
<1> QED BY <1>11, <1>12 DEF LayerInv

\* TaskTerminal up to the sti of the prompt: the layer is made and not shown.
LEMMA OpenTerminalKeeps ==
  ASSUME LayerInv, NEW t \in Terminals, OpenTerminal(t)
  PROVE  LayerInv'
<1>1. PICK id : id = mgr.latest + 1
  OBVIOUS
<1>2. PICK a : a = [op |-> "move", id |-> id, by |-> 1]
  OBVIOUS
<1>3. PICK b : b = [op |-> "register", id |-> id]
  OBVIOUS
<1>4. PICK c : c = [op |-> "activate", id |-> id]
  OBVIOUS
<1>5. PICK p : p = <<a, b, c>>
  OBVIOUS
<1>6. /\ Run /\ window[t] \notin Live(mgr) /\ mgr.latest < MaxLayer
      /\ mgr' = [NewLayer(mgr, 0) EXCEPT !.told[t] = FALSE] /\ window' = [window EXCEPT ![t] = id]
      /\ inbox' = inbox \cup {id} /\ todo' = [todo EXCEPT ![t] = p]
      /\ UNCHANGED <<mouse, closing, fault, raced, asked>>
  BY <1>1, <1>2, <1>3, <1>4, <1>5 DEF OpenTerminal, Idling
<1>7. /\ mgr \in Managers /\ Sound(mgr) /\ todo \in [Threads -> Seq(Steps)] /\ inbox \subseteq Ids /\ fault = "none"
      /\ raced \in BOOLEAN /\ window \in [Tasks -> IdsOrNone]
  BY <1>6, InvFacts
<1>8. t \in Threads /\ t \in Tasks /\ t # MainTask
  BY LayerAssumption DEF Threads, Tasks
<1>9. PICK n : n = NewLayer(mgr, 0)
  OBVIOUS
<1>10. /\ n \in Managers /\ Sound(n) /\ n.latest = mgr.latest + 1 /\ n.mouse = mgr.mouse
       /\ Live(n) = Live(mgr) \cup {n.latest} /\ n.latest \in Ids /\ n.latest \notin Live(mgr)
       /\ n.active = mgr.active /\ NotCursor(n, n.latest)
  BY <1>6, <1>7, <1>9, NewLayerIs
<1>11. PICK o : o = mgr'
  OBVIOUS
<1>12. Similar(n, o)
  <2>1. PICK te : te = [n.told EXCEPT ![t] = FALSE]
    OBVIOUS
  <2>2. te \in [Tasks -> BOOLEAN]
    BY <1>10, <2>1, ManagerFacts
  <2>3. o = [n EXCEPT !.told = te]
    BY <1>6, <1>9, <1>11, <2>1
  <2> QED BY <1>10, <2>2, <2>3, WithTold
<1>13. Sound(o)
  BY <1>10, <1>12, SimilarSound
<1>14. /\ o \in Managers /\ o.latest = id /\ o.mouse = mgr.mouse /\ Live(o) = Live(mgr) \cup {id} /\ o.active = mgr.active
       /\ NotCursor(o, id) /\ id \in Ids /\ id \notin Live(mgr)
  BY <1>1, <1>10, <1>12 DEF Similar, NotCursor
<1>15. Grown(mgr, o)
  BY <1>1, <1>13, <1>14 DEF Grown
<1>16. id \in IdsOrNone /\ id # NoLayer
  BY <1>14 DEF Ids, IdsOrNone, NoLayer
<1>17. a \in Steps /\ b \in Steps /\ c \in Steps
  BY <1>2, <1>3, <1>4, <1>14, <1>16 DEF Steps
<1>18. a.op = "move" /\ a.id = id /\ b.op = "register" /\ c.op = "activate" /\ c.id = id
  BY <1>2, <1>3, <1>4
<1>19. /\ p \in Seq(Steps) /\ p # <<>> /\ (\A s \in Range(p) : s \in {a, b, c})
       /\ \A s, u : Below(p, s, u) => s \in {a, b} /\ u \in {b, c}
  BY <1>5, <1>17, ThreeSteps
<1>20. todo' \in [Threads -> Seq(Steps)] /\ todo'[t] = p /\ \A j \in Threads : j # t => todo'[j] = todo[j]
  BY <1>6, <1>7, <1>8, <1>19
<1>21. PICK w2 : w2 = window'
  OBVIOUS
<1>22. w2[t] = id
  BY <1>6, <1>7, <1>8, <1>21
<1>23. StepsFit(o, mouse, w2, t, p)
  <2>1. Ordered(p)
    BY <1>18, <1>19 DEF Ordered, MayPrecede, Activations
  <2>2. \A s \in Range(p) : Fits(o, mouse, w2, t, s)
    BY <1>8, <1>14, <1>16, <1>18, <1>19, <1>22 DEF Fits, Activations
  <2>3. w2[t] \in Live(o)
    BY <1>14, <1>22
  <2> QED BY <2>1, <2>2, <2>3 DEF StepsFit
<1>24. ~Inside(p) /\ \A s \in Range(p) : Alive(o, s)
  <2>1. \A s \in Range(p) : s.op \notin ActivateOps
    BY <1>18, <1>19 DEF ActivateOps
  <2>2. \A s \in Range(p) : Alive(o, s)
    BY <1>14, <1>18, <1>19 DEF Alive, Activations
  <2> QED BY <2>1, <2>2 DEF Inside
<1>25. t \in Threads => /\ StepsFit(mgr', mouse, window', t, todo'[t]) /\ ~Inside(todo'[t])
                        /\ \A s \in Range(todo'[t]) : Alive(mgr', s)
  BY <1>11, <1>20, <1>21, <1>23, <1>24
<1>26. Grown(mgr, mgr') /\ mgr'.active = mgr.active /\ window' = [window EXCEPT ![t] = mgr'.latest]
  BY <1>6, <1>11, <1>14, <1>15
<1>27. inbox' \subseteq Ids /\ fault' \in {"none", "iterator"} /\ raced' = raced
  BY <1>6, <1>7, <1>14
<1>28. /\ UNCHANGED <<mouse, closing, asked>> /\ raced' \in BOOLEAN /\ (raced => raced') /\ Run /\ window[t] \notin Live(mgr)
       /\ (~raced' => mgr'.active = mgr.active \/ \A j \in Threads : ~Inside(todo[j]))
  BY <1>6, <1>7, <1>26, <1>27
<1> QED BY <1>8, <1>20, <1>25, <1>26, <1>27, <1>28, OpenKeeps

\* What a masked section leaves of fault and raced.
LEMMA MaskedFacts ==
  ASSUME LayerInv, Run, NEW outcomes, NEW hazard \in BOOLEAN, Masked(outcomes, hazard)
  PROVE  /\ mgr' \in outcomes /\ fault' \in {"none", "iterator"} /\ raced' \in BOOLEAN /\ (raced => raced')
         /\ ~raced' => ~raced /\ ~hazard /\ \A j \in Threads : ~Inside(todo[j])
<1>1. fault = "none" /\ raced \in BOOLEAN /\ todo \in [Threads -> Seq(Steps)]
  BY InvFacts
<1>2. mgr' \in outcomes /\ ChangesStack(Threads) /\ Intrudes(Threads, hazard)
  BY DEF Masked
<1>3. fault' \in {"none", "iterator"}
  BY <1>1, <1>2 DEF ChangesStack
<1>4. raced' = (raced \/ hazard \/ Activating(Threads))
  BY <1>2 DEF Intrudes
<1>5. ~Activating(Threads) => \A j \in Threads : ~Inside(todo[j])
  BY <1>1, ActivatingIs
<1>6. Activating(Threads) \in BOOLEAN
  BY DEF Activating
<1> QED BY <1>1, <1>2, <1>3, <1>4, <1>5, <1>6

\* OpenWindow.
LEMMA OpenWindowKeeps ==
  ASSUME LayerInv, NEW t \in Programs, OpenWindow(t)
  PROVE  LayerInv'
<1>1. /\ Run /\ window[t] \notin Live(mgr) /\ mgr.latest < MaxLayer /\ window' = [window EXCEPT ![t] = mgr.latest + 1]
      /\ UNCHANGED <<mouse, todo, closing, inbox, asked>>
  BY DEF OpenWindow
<1>2. /\ mgr \in Managers /\ Sound(mgr) /\ todo \in [Threads -> Seq(Steps)] /\ inbox \subseteq Ids
  BY <1>1, InvFacts
<1>3. t \in Tasks /\ t \notin Threads
  BY LayerAssumption DEF Threads, Tasks
<1>4. PICK pos \in OpenAt :
        Masked({Register(a, NewLayer(mgr, pos).latest, t) : a \in Activate(NewLayer(mgr, pos), NewLayer(mgr, pos).latest)}, FALSE)
  BY DEF OpenWindow
<1>5. PICK n : n = NewLayer(mgr, pos)
  OBVIOUS
<1>6. pos \in Int
  BY LayerAssumption
<1>7. /\ n \in Managers /\ Sound(n) /\ n.latest = mgr.latest + 1 /\ n.mouse = mgr.mouse
      /\ Live(n) = Live(mgr) \cup {n.latest} /\ n.latest \in Ids /\ n.latest \notin Live(mgr)
      /\ n.active = mgr.active /\ NotCursor(n, n.latest)
  BY <1>1, <1>2, <1>5, <1>6, NewLayerIs
<1>8. PICK outcomes : outcomes = {Register(a, n.latest, t) : a \in Activate(n, n.latest)}
  OBVIOUS
<1>9. Masked(outcomes, FALSE)
  BY <1>4, <1>5, <1>8
<1>10. /\ mgr' \in outcomes /\ fault' \in {"none", "iterator"} /\ raced' \in BOOLEAN /\ (raced => raced')
       /\ ~raced' => \A j \in Threads : ~Inside(todo[j])
  BY <1>1, <1>9, MaskedFacts
<1>11. PICK a \in Activate(n, n.latest) : mgr' = Register(a, n.latest, t)
  BY <1>8, <1>10
<1>12. Raised(n, a, n.latest)
  BY <1>7, <1>11, ActivateIs
<1>13. Similar(a, mgr')
  BY <1>3, <1>7, <1>11, <1>12, RegisterIs DEF Raised
<1>14. Raised(n, mgr', n.latest)
  BY <1>12, <1>13, RaisedOn
<1>15. Grown(mgr, mgr') /\ mgr'.latest = mgr.latest + 1
  BY <1>7, <1>14 DEF Grown, Raised, NotCursor
<1>16. window' = [window EXCEPT ![t] = mgr'.latest] /\ todo' = todo
  BY <1>1, <1>15
<1> QED BY <1>1, <1>2, <1>3, <1>10, <1>15, <1>16, OpenKeeps

\* n is m without the layer id
Shrunk(m, n, id) == n.mouse = m.mouse /\ n.latest = m.latest /\ Live(n) = Live(m) \ {id}

\* The clients after task t has closed its window.
LEMMA CloseKeepsClients ==
  ASSUME NEW m, NEW mo, NEW td, NEW w, NEW cl, Clients(m, mo, td, w, cl),
         NEW t \in Tasks, cl[t] # Idle, w[t] # NoLayer, NEW n, Shrunk(m, n, w[t]),
         NEW cl2, cl2[t] = Idle, \A u \in Tasks : u # t => cl2[u] = cl[u]
  PROVE  Clients(n, mo, td, w, cl2)
<1>1. \A u \in Tasks : u # t => w[u] # w[t]
  BY DEF Clients, Windows
<1>2. t \in Terminals => td[t] = <<>>
  BY DEF Clients, Closings
<1>3. n.mouse = m.mouse /\ n.latest = m.latest /\ Live(n) = Live(m) \ {w[t]}
  BY DEF Shrunk
<1>4. ASSUME NEW j \in Threads PROVE StepsFit(n, mo, w, j, td[j])
  <2>1. StepsFit(m, mo, w, j, td[j])
    BY <1>4 DEF Clients
  <2>2. j \in Terminals /\ td[j] # <<>> => w[j] \in Live(n)
    <3>1. SUFFICES ASSUME j \in Terminals, td[j] # <<>> PROVE w[j] \in Live(n)
      OBVIOUS
    <3>2. j # t /\ j \in Tasks /\ w[j] \in Live(m)
      BY <1>2, <2>1, <3>1 DEF Tasks, StepsFit
    <3> QED BY <1>1, <1>3, <3>2
  <2>3. \A s \in Range(td[j]) : Fits(n, mo, w, j, s)
    BY <1>3, <2>1 DEF StepsFit, Fits, NotCursor
  <2> QED BY <2>1, <2>2, <2>3 DEF StepsFit
<1>5. Windows(n, w)
  BY <1>3 DEF Clients, Windows, NotCursor
<1>6. Closings(n, td, w, cl2)
  BY <1>1, <1>3 DEF Clients, Closings
<1> QED BY <1>4, <1>5, <1>6 DEF Clients

\* what CloseLayer leaves of a manager without an active layer
Closed(m, id, area) == Forgotten(DrawArea(RemoveLayer(m, id), area), id)

\* CloseLayer's masked section.
LEMMA CloseFinishKeeps ==
  ASSUME LayerInv, NEW t \in Tasks, CloseFinish(t)
  PROVE  LayerInv'
<1>1. /\ Run /\ closing[t] # Idle /\ closing' = [closing EXCEPT ![t] = Idle]
      /\ UNCHANGED <<mouse, todo, window, inbox, asked>>
  BY DEF CloseFinish
<1>2. /\ mgr \in Managers /\ Sound(mgr) /\ mouse \in MouseStates /\ todo \in [Threads -> Seq(Steps)]
      /\ window \in [Tasks -> IdsOrNone] /\ DOMAIN closing = Tasks /\ asked \subseteq Tasks /\ inbox \subseteq Ids
      /\ Clients(mgr, mouse, todo, window, closing) /\ (~raced => Safe(mgr, mouse, todo))
  BY <1>1, InvFacts
<1>3. PICK id : id = window[t]
  OBVIOUS
<1>4. id \in Live(mgr) /\ NotCursor(mgr, id) /\ id \in Ids /\ id # NoLayer
  <2>1. id \in Live(mgr) /\ NotCursor(mgr, id)
    BY <1>1, <1>2, <1>3 DEF Clients, Closings, Windows
  <2> QED BY <1>2, <2>1, ManagerFacts DEF Ids, NoLayer
<1>5. PICK area : area = closing[t].area
  OBVIOUS
<1>6. PICK hazard \in BOOLEAN : hazard = InUse(id, area)
  BY DEF InUse
<1>7. PICK outcomes : outcomes = {Closed(a, id, area) : a \in Activate(mgr, NoLayer)} /\ Masked(outcomes, hazard)
  <2>1. Masked({Closed(a, window[t], closing[t].area) : a \in Activate(mgr, NoLayer)}, InUse(window[t], closing[t].area))
    BY DEF CloseFinish, Closed, Forgotten
  <2> QED BY <1>3, <1>5, <1>6, <2>1
<1>8. /\ mgr' \in outcomes /\ fault' \in {"none", "iterator"} /\ raced' \in BOOLEAN /\ (raced => raced')
      /\ ~raced' => ~raced /\ ~hazard /\ \A j \in Threads : ~Inside(todo[j])
  BY <1>1, <1>7, MaskedFacts
<1>8a. PICK a \in Activate(mgr, NoLayer) : mgr' = Forgotten(DrawArea(RemoveLayer(a, id), area), id)
  BY <1>7, <1>8 DEF Closed
<1>9. PICK r, d : r = RemoveLayer(a, id) /\ d = DrawArea(r, area) /\ mgr' = Forgotten(d, id)
  BY <1>8a
<1>10. Raised(mgr, a, NoLayer)
  <2>1. NotCursor(mgr, NoLayer)
    BY DEF NotCursor
  <2> QED BY <1>2, <1>8a, <2>1, ActivateIs
<1>11. a \in Managers /\ Sound(a) /\ a.active = NoLayer /\ Live(a) = Live(mgr) /\ a.mouse = mgr.mouse /\ a.latest = mgr.latest
  BY <1>10 DEF Raised
<1>12. NotCursor(a, id)
  BY <1>4, <1>11 DEF NotCursor
<1>13. /\ r \in Managers /\ Sound(r) /\ r.latest = a.latest /\ r.mouse = a.mouse /\ r.active = NoLayer
       /\ Live(r) = Live(a) \ {id}
  BY <1>4, <1>9, <1>11, <1>12, RemoveLayerIs
<1>14. Similar(r, d)
  <2>1. Range(r.stack) \subseteq Live(r) /\ d = DrawFrom(r, 1, area)
    BY <1>9, <1>13 DEF Sound, DrawArea
  <2>2. PICK h \in Nat \ {0} : h = 1
    OBVIOUS
  <2> QED BY <1>13, <2>1, <2>2, DrawFromIs
<1>15. PICK n : n = mgr'
  OBVIOUS
<1>16. Similar(d, n)
  <2>1. d \in Managers
    BY <1>14 DEF Similar
  <2> QED BY <1>9, <1>15, <2>1, ForgetIs
<1>17. Similar(r, n)
  BY <1>14, <1>16, SimilarTrans
<1>18. Sound(n)
  BY <1>13, <1>17, SimilarSound
<1>19. n \in Managers /\ Shrunk(mgr, n, id)
  BY <1>11, <1>13, <1>17 DEF Similar, Shrunk
<1>20. PICK cl2 : cl2 = closing'
  OBVIOUS
<1>21. DOMAIN cl2 = Tasks /\ cl2[t] = Idle /\ \A u \in Tasks : u # t => cl2[u] = closing[u]
  BY <1>1, <1>2, <1>20
<1>22. Clients(n, mouse, todo, window, cl2)
  BY <1>1, <1>2, <1>3, <1>4, <1>19, <1>21, CloseKeepsClients
<1>23. ~raced' => Safe(n, mouse, todo)
  <2>1. SUFFICES ASSUME ~raced' PROVE Safe(n, mouse, todo)
    OBVIOUS
  <2>2. Safe(mgr, mouse, todo) /\ (\A j \in Threads : ~Inside(todo[j])) /\ ~InUse(id, area)
    BY <1>2, <1>6, <1>8, <2>1
  <2>3. Live(n) = Live(mgr) \ {id}
    BY <1>19 DEF Shrunk
  <2>4. mouse.drag \in {NoLayer} \cup Live(n)
    BY <2>2, <2>3 DEF Safe, InUse
  <2>5. ASSUME NEW j \in Threads, NEW s \in Range(todo[j]) PROVE Alive(n, s)
    <3>1. Alive(mgr, s) /\ ~Inside(todo[j])
      BY <2>2, <2>5 DEF Safe
    <3>2. s.op # "raise" /\ s.op # "activateNew"
      BY <2>5, <3>1 DEF Inside, ActivateOps
    <3>3. s.op = "activate" => s.id # id
      <4>1. PICK i \in DOMAIN todo[j] : s = todo[j][i]
        BY <2>5 DEF Range
      <4> QED BY <2>2, <2>5, <4>1 DEF InUse
    <3> QED BY <2>3, <3>1, <3>2, <3>3 DEF Alive, Activations
  <2> QED BY <2>2, <2>4, <2>5 DEF Safe
<1>24. TypeInv'
  BY <1>1, <1>2, <1>8, <1>15, <1>19, <1>20, <1>21 DEF TypeInv
<1>25. /\ Sound(mgr') /\ Clients(mgr', mouse', todo', window', closing') /\ (~raced' => Safe(mgr', mouse', todo'))
       /\ fault' # "null"
  BY <1>1, <1>8, <1>15, <1>18, <1>20, <1>22, <1>23
<1> QED BY <1>24, <1>25 DEF LayerInv
-----------------------------------------------------------------------------
(***************************************************************************)
(* The boot                                                                *)
(***************************************************************************)
BootStack == <<BgLayer, ConsoleLayer, MainWindow, TextWindow>>
NoOwner == <<>>
FirstLayers(n) == [l \in 1 .. n |-> BootLayers[l]]

\* The layers of the boot, with the cursor's or without it.
LEMMA BootLayersAre ==
  ASSUME NEW n \in {TextWindow, MouseLayer}
  PROVE  FirstLayers(n) \in [1 .. n -> LayerRecords]
<1>1. PICK b : b = BootLayers
  OBVIOUS
<1>2. /\ b[1] = [pos |-> 0, kind |-> "desktop", lit |-> FALSE] /\ b[2] = [pos |-> 0, kind |-> "console", lit |-> FALSE]
      /\ b[3] = [pos |-> 1, kind |-> "window",  lit |-> FALSE] /\ b[4] = [pos |-> 2, kind |-> "window",  lit |-> FALSE]
      /\ b[5] = [pos |-> 0, kind |-> "cursor",  lit |-> FALSE]
  BY <1>1 DEF BootLayers
<1>3. \A l \in 1 .. n : l = 1 \/ l = 2 \/ l = 3 \/ l = 4 \/ l = 5
  BY DEF TextWindow, MouseLayer
<1>4. b[1] \in LayerRecords /\ b[2] \in LayerRecords
  BY <1>2 DEF LayerRecords, Kinds
<1>5. b[3] \in LayerRecords /\ b[4] \in LayerRecords /\ b[5] \in LayerRecords
  BY <1>2 DEF LayerRecords, Kinds
<1>6. \A l \in 1 .. n : b[l] \in LayerRecords
  BY <1>3, <1>4, <1>5
<1>7. FirstLayers(n) = [l \in 1 .. n |-> b[l]]
  BY <1>1 DEF FirstLayers
<1> QED BY <1>6, <1>7

\* The stack of the first draw.
LEMMA BootStackIs ==
  BootStack \in Seq(Ids) /\ Len(BootStack) = 4 /\ \A i \in 1 .. 4 : BootStack[i] = i
<1>1. /\ Len(BootStack) = 4 /\ BootStack[1] = 1 /\ BootStack[2] = 2 /\ BootStack[3] = 3 /\ BootStack[4] = 4
  BY DEF BootStack, BgLayer, ConsoleLayer, MainWindow, TextWindow
<1>2. 1 \in Ids /\ 2 \in Ids /\ 3 \in Ids /\ 4 \in Ids
  BY LayerAssumption DEF Ids
<1>3. BootStack \in Seq(Ids)
  BY <1>2 DEF BootStack, BgLayer, ConsoleLayer, MainWindow, TextWindow
<1>4. \A i \in 1 .. 4 : i = 1 \/ i = 2 \/ i = 3 \/ i = 4
  OBVIOUS
<1> QED BY <1>1, <1>3, <1>4

\* It holds each of the four layers once.
LEMMA BootStackSound ==
  IsInjective(BootStack) /\ Range(BootStack) = 1 .. 4
<1>1. PICK st : st = BootStack
  OBVIOUS
<1>2. st \in Seq(Ids) /\ Len(st) = 4 /\ \A i \in 1 .. 4 : st[i] = i
  BY <1>1, BootStackIs
<1>3. DOMAIN st = 1 .. 4
  BY <1>2
<1>4. IsInjective(st)
  BY <1>2, <1>3 DEF IsInjective
<1>5. Range(st) = 1 .. 4
  BY <1>2, <1>3 DEF Range
<1> QED BY <1>1, <1>4, <1>5

\* No layer has a task yet.
LEMMA NoOwnerIs ==
  NoOwner \in [{} -> Tasks]
<1>1. DOMAIN NoOwner = {}
  BY DEF NoOwner
<1>2. NoOwner = [l \in {} |-> NoOwner[l]]
  BY <1>1, SMT DEF NoOwner
<1> QED BY <1>1, <1>2

\* A manager made of its fields.
LEMMA ManagerIs ==
  ASSUME NEW S \in SUBSET Ids, NEW la \in [S -> LayerRecords], NEW lt \in IdsOrNone, NEW st \in Seq(Ids),
         NEW mo \in {NoLayer, MouseLayer}, NEW ac \in IdsOrNone, NEW T \in SUBSET Ids, NEW ow \in [T -> Tasks],
         NEW te \in [Tasks -> BOOLEAN], NEW ba \in [Pixels -> PixelRecords], NEW sc \in [Pixels -> PixelRecords]
  PROVE  [layers |-> la, latest |-> lt, stack |-> st, mouse |-> mo, active |-> ac, owner |-> ow, told |-> te,
          back |-> ba, screen |-> sc] \in Managers
<1>1. la \in UNION {[U -> LayerRecords] : U \in SUBSET Ids} /\ ow \in UNION {[U -> Tasks] : U \in SUBSET Ids}
  OBVIOUS
<1> QED BY <1>1 DEF Managers

\* the manager before the first draw, with n layers and the cursor mo
Fresh(n, mo) ==
  [layers |-> FirstLayers(n), latest |-> n, stack |-> BootStack, mouse |-> mo,
   active |-> NoLayer, owner |-> NoOwner, told |-> [t \in Tasks |-> FALSE],
   back   |-> [p \in Pixels |-> NoPixel], screen |-> [p \in Pixels |-> NoPixel]]

\* The manager after the first draw of the whole screen.
LEMMA DrawnIs ==
  ASSUME NEW n \in {TextWindow, MouseLayer}, NEW mo \in {NoLayer, MouseLayer}, NEW d, d = DrawArea(Fresh(n, mo), Pixels)
  PROVE  d \in Managers /\ Live(d) = 1 .. n /\ d.latest = n /\ d.stack = BootStack /\ d.mouse = mo /\ d.active = NoLayer
<1>1. PICK ba : ba = [p \in Pixels |-> NoPixel]
  OBVIOUS
<1>2. PICK te : te = [t \in Tasks |-> FALSE]
  OBVIOUS
<1>3. PICK la : la = FirstLayers(n)
  OBVIOUS
<1>4. PICK ow : ow = NoOwner
  OBVIOUS
<1>5. PICK st : st = BootStack
  OBVIOUS
<1>6. PICK m : m = Fresh(n, mo)
  OBVIOUS
<1>7. NoPixel \in PixelRecords
  BY LayerAssumption DEF NoPixel, PixelRecords, NoLayer, IdsOrNone
<1>8. ba \in [Pixels -> PixelRecords] /\ te \in [Tasks -> BOOLEAN] /\ la \in [1 .. n -> LayerRecords]
  BY <1>1, <1>2, <1>3, <1>7, BootLayersAre
<1>9. ow \in [{} -> Tasks] /\ {} \in SUBSET Ids /\ st \in Seq(Ids)
  BY <1>4, <1>5, NoOwnerIs, BootStackIs
<1>10. n \in IdsOrNone /\ NoLayer \in IdsOrNone /\ 1 .. n \in SUBSET Ids
  BY LayerAssumption DEF TextWindow, MouseLayer, IdsOrNone, Ids, NoLayer
<1>11. m = [layers |-> la, latest |-> n, stack |-> st, mouse |-> mo, active |-> NoLayer, owner |-> ow, told |-> te,
            back |-> ba, screen |-> ba]
  BY <1>1, <1>2, <1>3, <1>4, <1>5, <1>6 DEF Fresh
<1>12. m \in Managers /\ Live(m) = 1 .. n /\ m.latest = n /\ m.stack = st /\ m.mouse = mo /\ m.active = NoLayer
  <2>1. PICK S : S = 1 .. n
    OBVIOUS
  <2>2. PICK T : T = {}
    OBVIOUS
  <2>3. S \in SUBSET Ids /\ la \in [S -> LayerRecords] /\ T \in SUBSET Ids /\ ow \in [T -> Tasks]
    BY <1>8, <1>9, <1>10, <2>1, <2>2
  <2>4. [layers |-> la, latest |-> n, stack |-> st, mouse |-> mo, active |-> NoLayer, owner |-> ow, told |-> te,
         back |-> ba, screen |-> ba] \in Managers
    BY <1>8, <1>9, <1>10, <2>3, ManagerIs
  <2>5. m.layers = la /\ m.latest = n /\ m.stack = st /\ m.mouse = mo /\ m.active = NoLayer
    BY <1>11
  <2>6. Live(m) = 1 .. n
    BY <1>8, <2>5 DEF Live
  <2> QED BY <1>11, <2>4, <2>5, <2>6
<1>13. Range(m.stack) \subseteq Live(m)
  BY <1>5, <1>12, BootStackSound DEF TextWindow, MouseLayer
<1>14. Similar(m, d)
  <2>1. d = DrawFrom(m, 1, Pixels)
    BY <1>6 DEF DrawArea
  <2>2. PICK h \in Nat \ {0} : h = 1
    OBVIOUS
  <2> QED BY <1>12, <1>13, <2>1, <2>2, DrawFromIs
<1> QED BY <1>5, <1>12, <1>14 DEF Similar

\* what Init needs of the manager
Booted(m) == m \in Managers /\ Sound(m) /\ m.latest \in Nat

\* The boot without InitializeMouse, as main.cpp has it.
LEMMA BootsWithoutCursor ==
  Booted(BootMgr(FALSE))
<1>1. PICK d : d = DrawArea(Fresh(TextWindow, NoLayer), Pixels)
  OBVIOUS
<1>2. BootMgr(FALSE) = d
  BY <1>1, Zenon DEF BootMgr, Fresh, BootStack, NoOwner, FirstLayers
<1>3. d \in Managers /\ Live(d) = 1 .. TextWindow /\ d.latest = TextWindow /\ d.stack = BootStack /\ d.mouse = NoLayer /\ d.active = NoLayer
  BY <1>1, DrawnIs
<1>4. Sound(d)
  <2>1. \A l \in Live(d) : l <= d.latest
    BY <1>3 DEF TextWindow
  <2>2. Range(d.stack) \subseteq Live(d)
    BY <1>3, BootStackSound DEF TextWindow
  <2> QED BY <1>3, <2>1, <2>2, BootStackSound DEF Sound, NotCursor
<1>5. Booted(d)
  BY <1>3, <1>4 DEF Booted, TextWindow
<1> QED BY <1>2, <1>5, Zenon

\* The boot with InitializeMouse: the cursor is put on top.
LEMMA BootsWithCursor ==
  Booted(BootMgr(TRUE))
<1>1. PICK d : d = DrawArea(Fresh(MouseLayer, MouseLayer), Pixels)
  OBVIOUS
<1>2. d \in Managers /\ Live(d) = 1 .. MouseLayer /\ d.latest = MouseLayer /\ d.stack = BootStack /\ d.mouse = MouseLayer /\ d.active = NoLayer
  BY <1>1, DrawnIs
<1>3. PICK st : st = d.stack
  OBVIOUS
<1>4. st \in Seq(Ids) /\ Len(st) = 4 /\ IsInjective(st) /\ Range(st) = 1 .. 4
  BY <1>2, <1>3, BootStackIs, BootStackSound
<1>5. MouseLayer \notin Range(st) /\ MouseLayer \in Ids
  BY <1>4, LayerAssumption DEF MouseLayer, Ids
<1>6. BootMgr(TRUE) = UpDown(d, MouseLayer, 4)
  <2>1. Len(Fresh(MouseLayer, MouseLayer).stack) = 4
    BY BootStackIs DEF Fresh
  <2>2. BootMgr(TRUE) = UpDown(DrawArea(Fresh(MouseLayer, MouseLayer), Pixels), MouseLayer, Len(Fresh(MouseLayer, MouseLayer).stack))
    BY Zenon DEF BootMgr, Fresh, BootStack, NoOwner, FirstLayers
  <2> QED BY <1>1, <2>1, <2>2
<1>7. Height(d, MouseLayer) = 0
  BY <1>3, <1>4, <1>5, HeightIs
<1>8. RemoveFirst(st, MouseLayer) = st
  <2>1. \A i \in 1 .. Len(st) : st[i] # MouseLayer
    BY <1>4, <1>5 DEF Range
  <2> QED BY <2>1 DEF RemoveFirst
<1>9. Hide(d, MouseLayer).stack = st
  BY <1>2, <1>3, <1>8 DEF Hide, Managers
<1>10. Min({4, Len(d.stack)}) = 4
  <2>1. PICK S : S = {4, Len(d.stack)}
    OBVIOUS
  <2>2. Len(d.stack) = 4
    BY <1>3, <1>4
  <2>3. S = {4} /\ S \in SUBSET Nat /\ S # {}
    BY <2>1, <2>2
  <2>4. Min(S) \in S
    BY <2>3, MinIs
  <2> QED BY <2>1, <2>3, <2>4
<1>11. PICK k \in 1 .. Len(st) + 1 : k = 4 + 1
  BY <1>4
<1>12. PICK r : r = InsertAt(st, k, MouseLayer)
  OBVIOUS
<1>13. BootMgr(TRUE) = [d EXCEPT !.stack = r]
  <2>1. ~(4 < 0)
    OBVIOUS
  <2>2. UpDown(d, MouseLayer, 4) = [d EXCEPT !.stack = InsertAt(st, 4 + 1, MouseLayer)]
    BY <1>7, <1>9, <1>10, <2>1, Zenon DEF UpDown
  <2> QED BY <1>6, <1>11, <1>12, <2>2
<1>14. /\ r \in Seq(Ids) /\ IsInjective(r) /\ Range(r) = Range(st) \cup {MouseLayer} /\ Len(r) = Len(st) + 1
       /\ r[k] = MouseLayer
  <2>1. PICK e : e = MouseLayer
    OBVIOUS
  <2>2. e \in Ids /\ e \notin Range(st) /\ r = InsertAt(st, k, e)
    BY <1>5, <1>12, <2>1
  <2>3. st \in Seq(Ids) /\ IsInjective(st) /\ k \in 1 .. Len(st) + 1
    BY <1>4, <1>11
  <2>4. /\ r \in Seq(Ids) /\ IsInjective(r) /\ Range(r) = Range(st) \cup {e} /\ Len(r) = Len(st) + 1 /\ r[k] = e
    BY <2>2, <2>3, InsertIs
  <2> QED BY <2>1, <2>4
<1>15. r # <<>> /\ Last(r) = MouseLayer
  BY <1>4, <1>11, <1>14 DEF Last
<1>16. PICK n : n = BootMgr(TRUE)
  OBVIOUS
<1>17. n = [d EXCEPT !.stack = r]
  BY <1>13, <1>16, Zenon
<1>18. /\ n \in Managers /\ n.stack = r /\ n.layers = d.layers /\ n.latest = d.latest
       /\ n.active = d.active /\ n.mouse = d.mouse
  BY <1>2, <1>17, <1>14, WithStack
<1>19. Live(n) = 1 .. MouseLayer
  BY <1>2, <1>18 DEF Live
<1>20. Sound(n)
  <2>1. \A l \in Live(n) : l <= n.latest
    BY <1>2, <1>18, <1>19 DEF MouseLayer
  <2>2. Range(n.stack) \subseteq Live(n) /\ MouseLayer \in Live(n)
    BY <1>4, <1>14, <1>18, <1>19 DEF MouseLayer
  <2> QED BY <1>2, <1>14, <1>15, <1>18, <2>1, <2>2 DEF Sound, NotCursor
<1>21. Booted(n)
  BY <1>2, <1>18, <1>20 DEF Booted, MouseLayer
<1> QED BY <1>16, <1>21, Zenon

\* The invariant holds at the boot.
LEMMA InitHolds ==
  ASSUME Init
  PROVE  LayerInv
<1>1. PICK cursor \in BOOLEAN : mgr = BootMgr(cursor)
  BY DEF Init
<1>2. Booted(mgr)
  <2>1. CASE cursor = TRUE
    BY <1>1, <2>1, BootsWithCursor
  <2>2. CASE cursor = FALSE
    BY <1>1, <2>2, BootsWithoutCursor
  <2> QED BY <2>1, <2>2
<1>3. mgr \in Managers /\ Sound(mgr) /\ mgr.latest \in Nat
  BY <1>2 DEF Booted
<1>4. NoLayer \in IdsOrNone /\ 0 \in Pixels /\ 0 \in 0 .. MaxMoves
  BY LayerAssumption DEF NoLayer, IdsOrNone, Pixels
<1>5. mouse \in MouseStates /\ mouse.drag = NoLayer
  BY <1>4 DEF Init, MouseStates
<1>6. todo \in [Threads -> Seq(Steps)] /\ \A k \in Threads : todo[k] = <<>>
  <2>1. <<>> \in Seq(Steps)
    BY NoSteps
  <2> QED BY <2>1 DEF Init
<1>7. window \in [Tasks -> IdsOrNone] /\ (\A t \in Tasks : window[t] = NoLayer) /\ DOMAIN closing = Tasks
      /\ (\A t \in Tasks : closing[t] = Idle)
  BY <1>4 DEF Init
<1>8. fault = "none" /\ raced = FALSE /\ asked = {} /\ inbox = {}
  BY DEF Init
<1>9. TypeInv
  BY <1>3, <1>5, <1>6, <1>7, <1>8 DEF TypeInv
<1>10. \A k \in Threads : StepsFit(mgr, mouse, window, k, todo[k])
  <2>1. PICK e : e = <<>>
    OBVIOUS
  <2>2. (\A s \in Range(e) : FALSE) /\ \A s, t : ~Below(e, s, t)
    BY <2>1, NoSteps
  <2>3. \A k \in Threads : todo[k] = e
    BY <1>6, <2>1
  <2> QED BY <2>1, <2>2, <2>3 DEF StepsFit, Ordered
<1>11. Windows(mgr, window)
  BY <1>3, <1>7 DEF Windows, NotCursor, NoLayer
<1>12. Closings(mgr, todo, window, closing)
  BY <1>7 DEF Closings
<1>13. Safe(mgr, mouse, todo)
  <2>1. PICK e : e = <<>>
    OBVIOUS
  <2>2. \A s \in Range(e) : FALSE
    BY <2>1, NoSteps
  <2>3. \A k \in Threads : todo[k] = e
    BY <1>6, <2>1
  <2> QED BY <1>5, <2>2, <2>3 DEF Safe, Inside
<1>14. Clients(mgr, mouse, todo, window, closing)
  BY <1>10, <1>11, <1>12 DEF Clients
<1> QED BY <1>3, <1>8, <1>9, <1>13, <1>14 DEF LayerInv

-----------------------------------------------------------------------------
(***************************************************************************)
(* The theorems                                                            *)
(***************************************************************************)

\* Every step keeps the invariant.
LEMMA NextKeeps ==
  ASSUME LayerInv, [Next]_vars
  PROVE  LayerInv'
<1>1. CASE MainDraws
  BY <1>1, MainDrawsKeeps
<1>2. CASE MainReceivesLayer
  BY <1>2, MainReceivesLayerKeeps
<1>3. CASE OnInterrupt
  BY <1>3, OnInterruptKeeps
<1>4. CASE MainButton
  BY <1>4, MainButtonKeeps
<1>5. CASE MainSends
  BY <1>5, MainSendsKeeps
<1>6. ASSUME NEW k \in Threads, Step(k) PROVE LayerInv'
  <2>1. CASE Moves(k) \/ BeginsArea(k) \/ BeginsDraw(k) \/ Paints(k) \/ Copies(k)
    BY <2>1, MovesKeeps, BeginsAreaKeeps, BeginsDrawKeeps, PaintsKeeps, CopiesKeeps
  <2>2. CASE Activates(k) \/ ActivatesNew(k) \/ Raises(k) \/ DrawsActive(k) \/ Tells(k)
    BY <2>2, ActivatesKeeps, ActivatesNewKeeps, RaisesKeeps, DrawsActiveKeeps, TellsKeeps
  <2> QED BY <1>6, <2>1, <2>2 DEF Step
<1>7. ASSUME NEW t \in Terminals, OpenTerminal(t) \/ Registers(t) \/ SendLayerMessage(t) PROVE LayerInv'
  BY <1>7, OpenTerminalKeeps, RegistersKeeps, SendLayerMessageKeeps
<1>8. ASSUME NEW t \in Programs, OpenWindow(t) \/ WinRedraw(t) PROVE LayerInv'
  BY <1>8, OpenWindowKeeps, WinRedrawKeeps
<1>9. ASSUME NEW t \in Tasks, CloseBegin(t) \/ CloseFinish(t) PROVE LayerInv'
  BY <1>9, CloseBeginKeeps, CloseFinishKeeps
<1>10. CASE UNCHANGED vars
  <2>1. UNCHANGED <<mgr, mouse, todo, window, closing, inbox, fault, raced, asked>>
    BY <1>10 DEF vars
  <2>2. TypeInv'
    BY <2>1 DEF LayerInv, TypeInv
  <2> QED BY <2>1, <2>2 DEF LayerInv
<1> QED BY <1>1, <1>2, <1>3, <1>4, <1>5, <1>6, <1>7, <1>8, <1>9, <1>10 DEF Next

\* The inductive invariant: while no iterator broke, the stack is sound whatever
\* raced, tasks move only the cursor, what is dragged and their own window, and
\* before any race what Activate and Move will dereference is alive.
THEOREM LayerInvariant == Spec => []LayerInv
<1>1. Init => LayerInv
  BY InitHolds
<1>2. LayerInv /\ [Next]_vars => LayerInv'
  BY NextKeeps
<1> QED BY <1>1, <1>2, PTL DEF Spec

\* layer_stack_ holds live layers, each once, the cursor on top, and the active
\* layer is alive, in any interleaving of UpDown, Hide, Activate, OpenWindow,
\* CloseLayer and the mouse, until an iterator into the stack breaks.
THEOREM StackIntactTheorem == Spec => []StackIntact
<1>1. LayerInv => StackIntact
  <2>1. SUFFICES ASSUME LayerInv PROVE StackIntact
    OBVIOUS
  <2>2. TypeInv
    BY <2>1 DEF LayerInv
  <2>3. fault = "none" => Sound(mgr)
    BY <2>1 DEF LayerInv
  <2>4. TypeOK
    <3>1. /\ mgr \in Managers /\ mouse \in MouseStates /\ window \in [Tasks -> IdsOrNone]
          /\ fault \in {"none", "null", "iterator"} /\ raced \in BOOLEAN /\ asked \subseteq Tasks /\ inbox \subseteq Ids
      BY <2>2 DEF TypeInv
    <3>2. /\ Live(mgr) \in SUBSET Ids /\ mgr.layers \in [Live(mgr) -> LayerRecords]
          /\ mgr.latest \in IdsOrNone /\ mgr.stack \in Seq(Ids) /\ mgr.active \in IdsOrNone
          /\ mgr.told \in [Tasks -> BOOLEAN]
          /\ mgr.back \in [Pixels -> PixelRecords] /\ mgr.screen \in [Pixels -> PixelRecords]
      BY <3>1, ManagerFacts
    <3>3. DOMAIN mgr.layers \subseteq 1 .. MaxLayer
      BY <3>2 DEF Live, Ids
    <3>4. \A l \in Live(mgr) : mgr.layers[l] \in [pos : Int, kind : Kinds, lit : BOOLEAN]
      BY <3>2 DEF LayerRecords
    <3>5. mgr.stack \in Seq(1 .. MaxLayer) /\ mgr.latest \in 0 .. MaxLayer /\ mgr.active \in 0 .. MaxLayer
      BY <3>2 DEF Ids, IdsOrNone
    <3>6. /\ mgr.back \in [Pixels -> [layer : 0 .. MaxLayer, lit : BOOLEAN]]
          /\ mgr.screen \in [Pixels -> [layer : 0 .. MaxLayer, lit : BOOLEAN]]
      BY <3>2 DEF PixelRecords, IdsOrNone
    <3>7. /\ mouse \in [pos : Pixels, drag : 0 .. MaxLayer, pressed : BOOLEAN, moves : 0 .. MaxMoves]
          /\ window \in [Tasks -> 0 .. MaxLayer] /\ inbox \subseteq 1 .. MaxLayer
      BY <3>1 DEF MouseStates, Ids, IdsOrNone
    <3> QED BY <3>1, <3>2, <3>3, <3>4, <3>5, <3>6, <3>7 DEF TypeOK
  <2>5. fault = "none" =>
          /\ IsInjective(mgr.stack) /\ Range(mgr.stack) \subseteq Live(mgr)
          /\ mgr.active \in {NoLayer} \cup Live(mgr) /\ (mgr.mouse # NoLayer => Last(mgr.stack) = mgr.mouse)
    BY <2>3 DEF Sound
  <2> QED BY <2>4, <2>5 DEF StackIntact
<1> QED BY <1>1, LayerInvariant, PTL

\* Moves, draws and activations of the main task and of terminals dereference a
\* layer that is gone only in the cases raced records.
THEOREM NullNeedsRaceTheorem == Spec => []NullNeedsRace
<1>1. LayerInv => NullNeedsRace
  BY DEF LayerInv, NullNeedsRace
<1> QED BY <1>1, LayerInvariant, PTL
=============================================================================
