----------------------------- MODULE BootProofs -----------------------------
(***************************************************************************)
(* What is proved of the boot sequence for all values of the constants.    *)
(***************************************************************************)
EXTENDS Boot, SequenceTheorems, FiniteSetTheorems, WellFoundedInduction, TLAPS

-----------------------------------------------------------------------------
(***************************************************************************)
(* The inductive invariant of the USB part                                 *)
(***************************************************************************)
Bits == {0, 1}
TrbTypes == {"none", "enable_slot", "address_device", "setup", "data", "status"}
Trbs == [cycle : Bits, type : TrbTypes, n : Nat]
EventTrbs == [cycle : Bits, type : {"none", "port", "command", "transfer"}, ring : Rings, n : Nat,
              ok : BOOLEAN, slot : Rings]
PortRegisters == [ccs : BOOLEAN, csc : BOOLEAN, ped : BOOLEAN, pr : BOOLEAN, prc : BOOLEAN]
Tds == {<<>>, <<"status">>, <<"data", "status">>, <<"setup", "status">>, <<"setup", "data", "status">>}

Quiet == {"idle", "devices", "ended", "capability"}
Commands == {"slot", "address"}
Transfers == {"desc", "config"}
OnPort == {"connected", "prc", "enabled"} \cup Commands \cup Transfers

EventIndex == 0 .. kEventRingSize - 1

UsbType ==
  /\ pc \in Quiet \cup {"halt", "reset", "run", "port"} \cup OnPort
  /\ port \in 1 .. max_ports_ + 1 /\ (pc \in OnPort => port \in Ports)
  /\ slot \in Rings /\ td \in Tds
  /\ (pc \in {"address"} \cup Transfers => slot \in Slots)
  /\ DOMAIN rings = Rings
  /\ events \in [trb : [EventIndex -> EventTrbs], dequeue : EventIndex, cycle : Bits]
  /\ event \in 0 .. kEventRingSize
  /\ hc \in [st : {"firmware", "halting", "halted", "resetting", "notready", "ready", "starting", "running"},
             deq : [Rings -> Nat], ccs : [Rings -> Bits], enq : EventIndex, pcs : Bits, erdp : EventIndex,
             slots : SUBSET Slots, halted : SUBSET Slots, wired : SUBSET Ports, plugged : SUBSET Ports]
  /\ portsc \in [Ports -> PortRegisters]
  /\ rung \in SUBSET Rings
  /\ sent \in [Rings -> Nat] /\ got \in [Rings -> Nat]

\* The states of the controller that go with the steps of the driver; before
\* it is started nothing has happened on any ring.
Phases ==
  /\ pc \in Quiet => hc.st = "firmware"
  /\ pc = "halt" => hc.st \in {"halting", "halted"}
  /\ pc = "reset" => hc.st \in {"resetting", "notready", "ready"}
  /\ pc \in {"run", "port"} \cup OnPort => hc.st \in {"starting", "running"}
  /\ pc \in Quiet \cup {"halt", "reset"} =>
       /\ sent = [r \in Rings |-> 0] /\ hc.enq = 0 /\ hc.pcs = 1 /\ hc.erdp = 0
       /\ \A i \in EventIndex : events.trb[i].cycle = 0
       /\ events.dequeue = 0 /\ events.cycle = 1
       /\ port = 1 /\ \A p \in Ports : ~portsc[p].pr
  /\ pc \notin Transfers => td = <<>>

\* A ring of N entries and where its user is: the entries of this lap carry the
\* producer's cycle bit and those left of the last lap the other; the consumer
\* is s - g entries behind; entries are numbered in the order they were pushed.
Number(i, e, N, s) ==
  IF i < e THEN ((s - e) + i) + 1
  ELSE IF (s - e) + i > N - 2 THEN ((s - e) + i) - (N - 2) ELSE 0
RingShape(rg, N, d, ccs, s, g) ==
  /\ rg \in [trb : [0 .. N - 1 -> Trbs], enqueue : 0 .. N - 2, cycle : Bits]
  /\ d \in 0 .. N - 1 /\ ccs \in Bits /\ s \in Nat /\ g \in Nat
  /\ g <= s /\ s - g <= N - 2 /\ rg.enqueue <= s
  /\ \A i \in 0 .. N - 2 : rg.trb[i].cycle = IF i < rg.enqueue THEN rg.cycle ELSE Flip(rg.cycle)
  /\ rg.trb[N - 1].cycle = Flip(rg.cycle)
  /\ IF ccs = rg.cycle THEN d + (s - g) = rg.enqueue ELSE d + (s - g) = rg.enqueue + N - 1
  /\ \A i \in 0 .. N - 2 : rg.trb[i].n = Number(i, rg.enqueue, N, s)
  /\ s = 0 => d = 0 /\ ccs = 1

RingsInv == \A r \in Rings : RingShape(rings[r], Size(r), hc.deq[r], hc.ccs[r], sent[r], got[r])

\* What is outstanding: one command while its answer is awaited, and the stages
\* of one transfer; a slot is not given out twice.
Requests ==
  /\ pc \notin Commands => got[0] = sent[0]
  /\ pc \in Commands =>
       /\ sent[0] - got[0] <= 1
       /\ \A i \in 0 .. kCmdRingSize - 2 :
            rings[0].trb[i].n = sent[0]
              => rings[0].trb[i].type = IF pc = "slot" THEN "enable_slot" ELSE "address_device"
  /\ \A s \in Slots \ hc.halted : got[s] < sent[s] => s = slot /\ pc \in Transfers
  /\ \A s \in Slots \ hc.halted : \A i \in 0 .. kEp0RingSize - 2 :
       rings[s].trb[i].type = "status" /\ rings[s].trb[i].n > got[s]
         => rings[s].trb[i].n = sent[s] /\ td = <<>>
  /\ \A s \in Slots \ hc.slots : sent[s] = 0
  /\ pc \in {"address"} \cup Transfers => slot \in hc.slots
  /\ pc = "address" => sent[slot] = 0
  /\ pc \in Transfers => Len(td) <= Stages /\ sent[slot] + Len(td) - Stages <= got[slot]

\* The event ring between the controller and the driver
EventShape ==
  /\ events.dequeue \in EventIndex /\ events.cycle \in Bits /\ hc.erdp = events.dequeue
  /\ \A i \in EventIndex : events.trb[i].cycle = IF i < hc.enq THEN hc.pcs ELSE Flip(hc.pcs)
  /\ IF hc.pcs = events.cycle THEN events.dequeue <= hc.enq ELSE hc.enq < events.dequeue

\* the entries the driver has not taken yet
Pending == {i \in EventIndex : IF hc.pcs = events.cycle THEN events.dequeue <= i /\ i < hc.enq
                               ELSE events.dequeue <= i \/ i < hc.enq}

\* e answers the current request
Answers(e) ==
  \/ /\ pc \in Commands /\ e.type = "command" /\ e.n = sent[0]
     /\ pc = "slot" /\ e.ok => e.slot \in hc.slots /\ sent[e.slot] = 0
  \/ /\ pc \in Transfers /\ e.type = "transfer" /\ e.ring = slot
     /\ sent[slot] + Len(td) - Stages < e.n /\ e.n <= sent[slot]
     /\ e.ok => got[slot] = sent[slot] /\ td = <<>>

\* the controller has no more to say about the current request
Answered ==
  \/ pc \in Commands /\ got[0] = sent[0]
  \/ pc \in Transfers /\ (slot \in hc.halted \/ (got[slot] = sent[slot] /\ td = <<>>))

EventsInv ==
  /\ \A i \in Pending : events.trb[i].type # "port" => Answers(events.trb[i]) /\ Answered /\ event = NoEvent
  /\ \A i, j \in Pending : events.trb[i].type # "port" /\ events.trb[j].type # "port" => i = j
  /\ event # NoEvent =>
       /\ event = (IF events.dequeue = 0 THEN kEventRingSize ELSE events.dequeue) - 1
       /\ Answers(events.trb[event]) /\ Answered /\ td = <<>>

\* Only the port ScanPorts waits for is being reset or has just been, and a
\* reset without an error has enabled it.  The second part is what the driver
\* finds then, unless its own write has disabled the port.
ResetsInv ==
  /\ \A p \in Ports : /\ portsc[p].pr \/ portsc[p].prc => pc = "prc" /\ p = port
                      /\ ~(portsc[p].pr /\ portsc[p].prc)
                      /\ portsc[p].prc /\ p \notin faulted => portsc[p].ped
  /\ ~PedIsW1C /\ pc = "enabled" /\ port \notin faulted => portsc[port].ped

\* The ports behind the loop of ScanPorts are done.
PortsInv ==
  /\ pc \notin Quiet => hc.wired = Ports
  /\ hc.st \in {"ready", "starting", "running"} => \A p \in hc.plugged \ faulted : portsc[p].ccs
  /\ ~PedIsW1C => \A p \in hc.plugged \ faulted : p < port => p \in configured

UsbInv == UsbType /\ Phases /\ RingsInv /\ Requests /\ EventShape /\ EventsInv /\ PortsInv /\ ResetsInv
BeforeUsb == boot \notin {"usb", "running"} => pc = "idle"

-----------------------------------------------------------------------------
(* Numbers *)

\* A nonempty set of numbers has a least element.
LEMMA LeastExists ==
  ASSUME NEW T \in SUBSET Nat, T # {}
  PROVE  \E m \in T : \A k \in T : m <= k
<1> DEFINE R == OpToRel(<, Nat)
<1>1. \E x \in T : \A y \in T : ~(<<y, x>> \in R)
  BY NatLessThanWellFounded, WFMin, Zenon
<1>2. \A x, y \in T : <<y, x>> \notin R => ~(y < x)
  BY Zenon DEF OpToRel
<1>3. \E x \in T : \A y \in T : ~(y < x)
  BY <1>1, <1>2, Zenon
<1> QED BY <1>3

-----------------------------------------------------------------------------
(* Rings *)

LEMMA SizeType == \A r \in Rings : Size(r) \in Nat /\ Size(r) >= 3 /\ (r \in Slots => Size(r) = kEp0RingSize /\ Size(r) >= 5)
  BY XhciAssumption DEF Rings, Slots, Size

\* A new ring, with its user at the beginning.
LEMMA EmptyRingShape ==
  ASSUME NEW r \in Rings
  PROVE  RingShape(EmptyRing(r), Size(r), 0, 1, 0, 0)
  BY SizeType DEF EmptyRing, EmptyTrb, RingShape, Trbs, TrbTypes, Bits, Flip, Number

\* How the numbers change with a push.
LEMMA NumberStep ==
  ASSUME NEW N \in Nat, N >= 3, NEW e \in 0 .. N - 2, NEW s \in Nat, e <= s, NEW i \in 0 .. N - 2
  PROVE  /\ Number(i, e, N, s) <= s
         /\ Number(e, e + 1, N, s + 1) = s + 1
         /\ i # e => Number(i, e + 1, N, s + 1) = Number(i, e, N, s)
         /\ e + 1 = N - 1 => /\ Number(e, 0, N, s + 1) = s + 1
                             /\ i # e => Number(i, 0, N, s + 1) = Number(i, e, N, s)
  BY DEF Number

\* In new one entry is added to old, with the next number.
OneMore(new, old, N, type, s) ==
  \A i \in 0 .. N - 2 : \/ new.trb[i] = old.trb[i] /\ old.trb[i].n <= s
                        \/ new.trb[i].type = type /\ new.trb[i].n = s + 1

\* PushCommand and PushTransfer: with two entries to spare one is added, and
\* no other is changed but the Link TRB.
LEMMA PushShape ==
  ASSUME NEW r \in Rings, NEW rg, NEW d, NEW ccs, NEW g, NEW type \in TrbTypes,
         RingShape(rg, Size(r), d, ccs, sent[r], g), sent[r] - g <= Size(r) - 3
  PROVE  /\ RingShape(Push(rg, r, type), Size(r), d, ccs, sent[r] + 1, g)
         /\ OneMore(Push(rg, r, type), rg, Size(r), type, sent[r])
<1> DEFINE N == Size(r)
           e == rg.enqueue
           c == rg.cycle
           s == sent[r]
           new == [cycle |-> c, type |-> type, n |-> s + 1]
           put == [rg.trb EXCEPT ![e] = new]
           link == [put EXCEPT ![e + 1].cycle = c]
           np == Push(rg, r, type)
<1>0. N \in Nat /\ N >= 3 /\ e \in 0 .. N - 2 /\ c \in Bits /\ s \in Nat /\ rg.trb \in [0 .. N - 1 -> Trbs] /\ g \in Nat
      /\ d \in 0 .. N - 1 /\ ccs \in Bits /\ g <= s /\ s - g <= N - 3 /\ e <= s
  BY SizeType DEF RingShape
<1>1. IF ccs = c THEN d + (s - g) = e ELSE d + (s - g) = e + N - 1
  BY DEF RingShape
<1>2. \A i \in 0 .. N - 2 : rg.trb[i].cycle = IF i < e THEN c ELSE 1 - c
  BY DEF RingShape, Flip
<1>3. rg.trb[N - 1].cycle = 1 - c
  BY DEF RingShape, Flip
<1>4. \A i \in 0 .. N - 2 : rg.trb[i].n = Number(i, e, N, s)
  BY DEF RingShape
<1>5. rg \in [trb : [0 .. N - 1 -> Trbs], enqueue : 0 .. N - 2, cycle : Bits]
  BY DEF RingShape
<1>6. np = IF e + 1 = N - 1 THEN [trb |-> link, enqueue |-> 0, cycle |-> 1 - c]
           ELSE [rg EXCEPT !.trb = put, !.enqueue = e + 1]
  BY DEF Push, Flip
<1>7. new \in Trbs /\ new.type = type /\ new.n = s + 1 /\ new.cycle = c
  BY <1>0 DEF Trbs
<1>8. put \in [0 .. N - 1 -> Trbs] /\ \A i \in 0 .. N - 1 : put[i] = IF i = e THEN new ELSE rg.trb[i]
  <2> HIDE DEF new, N, e, c, s
  <2> QED BY <1>0, <1>7
<1>9. e + 1 = N - 1 => link \in [0 .. N - 1 -> Trbs] /\ link[N - 1].cycle = c /\ \A i \in 0 .. N - 2 : link[i] = put[i]
  <2> SUFFICES ASSUME e + 1 = N - 1 PROVE link \in [0 .. N - 1 -> Trbs] /\ link[N - 1].cycle = c /\ \A i \in 0 .. N - 2 : link[i] = put[i]
    OBVIOUS
  <2> DEFINE l == [put[e + 1] EXCEPT !.cycle = c]
  <2>1. link = [put EXCEPT ![e + 1] = l]
    OBVIOUS
  <2>2. put[e + 1] \in Trbs
    <3> HIDE DEF put, N, e
    <3> QED BY <1>0, <1>8
  <2>3. l \in Trbs /\ l.cycle = c
    <3> HIDE DEF put, e, c
    <3> QED BY <1>0, <2>2 DEF Trbs
  <2> HIDE DEF put, N, e, c, l, link
  <2> QED BY <1>0, <1>8, <2>1, <2>3
<1> HIDE DEF N, e, c, s, new, put, link, np
<1>10. \A i \in 0 .. N - 2 : rg.trb[i].n <= s
  BY <1>0, <1>4, NumberStep
<1>11. CASE e + 1 = N - 1
  <2>3. np.trb = link /\ np.enqueue = 0 /\ np.cycle = 1 - c
    BY <1>6, <1>11
  <2>4. \A i \in 0 .. N - 2 : np.trb[i].cycle = c
    BY <2>3, <1>2, <1>7, <1>8, <1>9, <1>0, <1>11
  <2>5. IF ccs = 1 - c THEN d + (s + 1 - g) = 0 ELSE d + (s + 1 - g) = 0 + N - 1
    BY <1>1, <1>0, <1>11 DEF Bits
  <2>7. RingShape(np, N, d, ccs, s + 1, g)
    <3>1. s + 1 \in Nat /\ g <= s + 1 /\ s + 1 - g <= N - 2 /\ np.enqueue <= s + 1 /\ s + 1 # 0
      BY <2>3, <1>0
    <3>2. np \in [trb : [0 .. N - 1 -> Trbs], enqueue : 0 .. N - 2, cycle : Bits]
      BY <1>6, <1>9, <1>0, <1>11 DEF Bits
    <3>4. \A i \in 0 .. N - 2 : np.trb[i].cycle = IF i < np.enqueue THEN np.cycle ELSE Flip(np.cycle)
      BY <2>4, <2>3, <1>0, SMTT(30) DEF Flip, Bits
    <3>5. np.trb[N - 1].cycle = Flip(np.cycle)
      BY <2>3, <1>9, <1>0, <1>11 DEF Flip, Bits
    <3>6. \A i \in 0 .. N - 2 : np.trb[i].n = Number(i, np.enqueue, N, s + 1)
      <4> TAKE i \in 0 .. N - 2
      <4>1. CASE i = e
        <5>1. np.trb[i].n = s + 1
          BY <4>1, <2>3, <1>7, <1>8, <1>9, <1>11, <1>0
        <5>2. Number(i, np.enqueue, N, s + 1) = s + 1
          BY <4>1, <2>3, <1>0, <1>11, NumberStep
        <5> QED BY <5>1, <5>2
      <4>2. CASE i # e
        <5>1. np.trb[i] = rg.trb[i]
          BY <4>2, <2>3, <1>8, <1>9, <1>11, <1>0
        <5>2. Number(i, np.enqueue, N, s + 1) = Number(i, e, N, s)
          BY <4>2, <2>3, <1>0, <1>11, NumberStep
        <5> QED BY <5>1, <5>2, <1>4
      <4> QED BY <4>1, <4>2
    <3>7. IF ccs = np.cycle THEN d + (s + 1 - g) = np.enqueue ELSE d + (s + 1 - g) = np.enqueue + N - 1
      BY <2>3, <2>5
    <3> QED BY <3>1, <3>2, <2>3, <3>4, <3>5, <3>6, <3>7, <1>0 DEF RingShape
  <2>8. OneMore(np, rg, N, type, s)
    BY <2>3, <1>7, <1>8, <1>9, <1>10, <1>0, <1>11 DEF OneMore
  <2> QED BY <2>7, <2>8 DEF np, N, s
<1>12. CASE e + 1 # N - 1
  <2>3. np.trb = put /\ np.enqueue = e + 1 /\ np.cycle = c
    BY <1>5, <1>6, <1>12, <1>8, <1>0 DEF c
  <2>7. RingShape(np, N, d, ccs, s + 1, g)
    <3>1. s + 1 \in Nat /\ g <= s + 1 /\ s + 1 - g <= N - 2 /\ np.enqueue <= s + 1 /\ s + 1 # 0
      BY <2>3, <1>0
    <3>2. np \in [trb : [0 .. N - 1 -> Trbs], enqueue : 0 .. N - 2, cycle : Bits]
      <4>1. e + 1 \in 0 .. N - 2 /\ np = [rg EXCEPT !.trb = put, !.enqueue = e + 1]
        BY <1>0, <1>6, <1>12
      <4> QED BY <1>5, <1>8, <4>1
    <3>4. \A i \in 0 .. N - 2 : np.trb[i].cycle = IF i < np.enqueue THEN np.cycle ELSE Flip(np.cycle)
      <4> TAKE i \in 0 .. N - 2
      <4>1. CASE i = e
        BY <4>1, <2>3, <1>7, <1>8, <1>0
      <4>2. CASE i # e
        BY <4>2, <2>3, <1>2, <1>8, <1>0 DEF Flip
      <4> QED BY <4>1, <4>2
    <3>5. np.trb[N - 1].cycle = Flip(np.cycle)
      BY <2>3, <1>3, <1>8, <1>0, SMTT(30) DEF Flip
    <3>6. \A i \in 0 .. N - 2 : np.trb[i].n = Number(i, np.enqueue, N, s + 1)
      <4> TAKE i \in 0 .. N - 2
      <4>1. CASE i = e
        <5>1. np.trb[i].n = s + 1
          BY <4>1, <2>3, <1>7, <1>8, <1>0
        <5>2. Number(i, np.enqueue, N, s + 1) = s + 1
          <6>1. Number(e, e + 1, N, s + 1) = s + 1
            BY <1>0, NumberStep
          <6> QED BY <4>1, <2>3, <6>1
        <5> QED BY <5>1, <5>2
      <4>2. CASE i # e
        <5>1. np.trb[i] = rg.trb[i]
          BY <4>2, <2>3, <1>8, <1>0
        <5>2. Number(i, np.enqueue, N, s + 1) = Number(i, e, N, s)
          BY <4>2, <2>3, <1>0, <1>12, NumberStep
        <5> QED BY <5>1, <5>2, <1>4
      <4> QED BY <4>1, <4>2
    <3>7. IF ccs = np.cycle THEN d + (s + 1 - g) = np.enqueue ELSE d + (s + 1 - g) = np.enqueue + N - 1
      BY <2>3, <1>1, <1>0 DEF Bits
    <3> QED BY <3>1, <3>2, <2>3, <3>4, <3>5, <3>6, <3>7, <1>0 DEF RingShape
  <2>8. OneMore(np, rg, N, type, s)
    BY <2>3, <1>7, <1>8, <1>10, <1>0 DEF OneMore
  <2> QED BY <2>7, <2>8 DEF np, N, s
<1> QED BY <1>11, <1>12

\* The controller finds an entry exactly if one is outstanding, and the oldest
\* one; it takes it and the ring keeps its shape.
LEMMA TakeShape ==
  ASSUME NEW r \in Rings, RingShape(rings[r], Size(r), hc.deq[r], hc.ccs[r], sent[r], got[r])
  PROVE  /\ Ready(r) <=> got[r] < sent[r]
         /\ Ready(r) => /\ Look(r) \in 0 .. Size(r) - 2
                        /\ rings[r].trb[Look(r)].n = got[r] + 1
                        /\ RingShape(rings[r], Size(r), Look(r) + 1, LookCycle(r), sent[r], got[r] + 1)
<1> DEFINE N == Size(r)
           rg == rings[r]
           e == rg.enqueue
           c == rg.cycle
           s == sent[r]
           g == got[r]
           d == hc.deq[r]
           ccs == hc.ccs[r]
<1>0. N \in Nat /\ N >= 3 /\ e \in 0 .. N - 2 /\ c \in Bits /\ s \in Nat /\ rg.trb \in [0 .. N - 1 -> Trbs] /\ g \in Nat
      /\ d \in 0 .. N - 1 /\ ccs \in Bits /\ g <= s /\ s - g <= N - 2
  BY SizeType DEF RingShape
<1>1. IF ccs = c THEN d + (s - g) = e ELSE d + (s - g) = e + N - 1
  BY DEF RingShape
<1>2. \A i \in 0 .. N - 2 : rg.trb[i].cycle = IF i < e THEN c ELSE 1 - c
  BY DEF RingShape, Flip
<1>3. rg.trb[N - 1].cycle = 1 - c
  BY DEF RingShape, Flip
<1>4. \A i \in 0 .. N - 2 : rg.trb[i].n = Number(i, e, N, s)
  BY DEF RingShape
<1>5. /\ AtLink(r) <=> d = N - 1
      /\ Ready(r) <=> (AtLink(r) => LinkReady(r)) /\ rg.trb[Look(r)].cycle = LookCycle(r)
      /\ LinkReady(r) <=> AtLink(r) /\ rg.trb[d].cycle = ccs
      /\ Look(r) = IF LinkReady(r) THEN 0 ELSE d
      /\ LookCycle(r) = IF LinkReady(r) THEN 1 - ccs ELSE ccs
  BY DEF AtLink, LinkReady, Ready, Look, LookCycle, Flip
<1> HIDE DEF N, rg, e, c, s, g, d, ccs
<1>6. CASE d = N - 1
  <2>1. ccs # c /\ ccs = 1 - c /\ s - g = e
    BY <1>0, <1>1, <1>6, SMTT(30) DEF Bits
  <2>2. LinkReady(r) /\ Look(r) = 0 /\ LookCycle(r) = c
    BY <1>0, <1>3, <1>5, <1>6, <2>1 DEF Bits
  <2>3. Ready(r) <=> g < s
    BY <1>0, <1>2, <1>5, <2>1, <2>2 DEF Bits
  <2>4. ASSUME g < s PROVE rg.trb[0].n = g + 1
    BY <1>0, <1>4, <2>1, <2>4 DEF Number
  <2>5. ASSUME g < s PROVE RingShape(rg, N, 1, c, s, g + 1)
    <3>1. g + 1 \in Nat /\ g + 1 <= s /\ s - (g + 1) <= N - 2 /\ 1 \in 0 .. N - 1 /\ 1 + (s - (g + 1)) = e /\ s # 0
      BY <1>0, <2>1, <2>5
    <3>2. RingShape(rg, N, d, ccs, s, g)
      BY DEF rg, N, d, ccs, s, g
    <3> QED BY <3>1, <3>2, <1>0 DEF RingShape, c, e
  <2> QED BY <2>2, <2>3, <2>4, <2>5, <1>0 DEF rg, N, s, g
<1>7. CASE d # N - 1
  <2>1. ~LinkReady(r) /\ Look(r) = d /\ LookCycle(r) = ccs /\ d \in 0 .. N - 2
    BY <1>0, <1>5, <1>7
  <2>2. Ready(r) <=> rg.trb[d].cycle = ccs
    BY <2>1, <1>5, <1>7
  <2>3. Ready(r) <=> g < s
    <3>1. CASE ccs = c
      BY <3>1, <2>1, <2>2, <1>0, <1>1, <1>2 DEF Bits
    <3>2. CASE ccs # c
      BY <3>2, <2>1, <2>2, <1>0, <1>1, <1>2 DEF Bits
    <3> QED BY <3>1, <3>2
  <2>4. ASSUME g < s PROVE rg.trb[d].n = g + 1
    BY <1>0, <1>1, <1>4, <2>1, <2>4 DEF Number
  <2>5. ASSUME g < s PROVE RingShape(rg, N, d + 1, ccs, s, g + 1)
    <3>1. g + 1 \in Nat /\ g + 1 <= s /\ s - (g + 1) <= N - 2 /\ d + 1 \in 0 .. N - 1 /\ s # 0
          /\ (d + 1) + (s - (g + 1)) = d + (s - g)
      BY <1>0, <2>1, <2>5, SMTT(30)
    <3>2. RingShape(rg, N, d, ccs, s, g)
      BY DEF rg, N, d, ccs, s, g
    <3> QED BY <3>1, <3>2, <1>0 DEF RingShape, c, e
  <2> QED BY <2>1, <2>3, <2>4, <2>5, <1>0 DEF rg, N, s, g
<1> QED BY <1>6, <1>7

-----------------------------------------------------------------------------
(* The event ring *)

\* The remainder of a number below twice the divisor.
LEMMA ModSmall ==
  ASSUME NEW N \in Nat \ {0}, NEW x \in 0 .. 2 * N - 1
  PROVE  x % N = IF x < N THEN x ELSE x - N
<1>1. CASE x < N
  BY <1>1
<1>2. CASE ~(x < N)
  <2>1. (x - N) \in 0 .. N - 1 /\ x = 1 * N + (x - N)
    BY <1>2
  <2> QED BY <2>1, <1>2
<1> QED BY <1>1, <1>2

LEMMA EventRingSize == kEventRingSize \in Nat /\ kEventRingSize > 1
  BY XhciAssumption

LEMMA NoEventType == NoEvent \in 0 .. kEventRingSize /\ NoEvent \notin EventIndex
  BY EventRingSize DEF NoEvent, EventIndex

\* The controller posts an event: it has not overtaken the driver, and the
\* entry the driver has just been given is not the one that is written.
LEMMA PostShape ==
  ASSUME UsbType, EventShape, HcRoom,
         NEW type, NEW r, NEW n, NEW ok, NEW s, Post(type, r, n, ok, s),
         hc'.enq = Posted(hc).enq, hc'.pcs = Posted(hc).pcs, hc'.erdp = hc.erdp,
         [cycle |-> hc.pcs, type |-> type, ring |-> r, n |-> n, ok |-> ok, slot |-> s] \in EventTrbs
  PROVE  /\ EventShape'
         /\ events' \in [trb : [EventIndex -> EventTrbs], dequeue : EventIndex, cycle : Bits]
         /\ hc'.enq \in EventIndex /\ hc'.pcs \in Bits
         /\ Pending' = Pending \cup {hc.enq} /\ hc.enq \notin Pending
         /\ hc.enq # (IF events.dequeue = 0 THEN kEventRingSize ELSE events.dequeue) - 1
         /\ events'.dequeue = events.dequeue
         /\ \A i \in EventIndex \ {hc.enq} : events'.trb[i] = events.trb[i]
         /\ events'.trb[hc.enq].type = type /\ events'.trb[hc.enq].ring = r /\ events'.trb[hc.enq].n = n
         /\ events'.trb[hc.enq].ok = ok /\ events'.trb[hc.enq].slot = s
<1> DEFINE N == kEventRingSize
           e == hc.enq
           p == hc.pcs
           D == events.dequeue
           c == events.cycle
           tr == events.trb
           new == [cycle |-> p, type |-> type, ring |-> r, n |-> n, ok |-> ok, slot |-> s]
<1>0. N \in Nat /\ N > 1 /\ e \in 0 .. N - 1 /\ p \in Bits /\ D \in 0 .. N - 1 /\ c \in Bits /\ hc.erdp = D
      /\ tr \in [0 .. N - 1 -> EventTrbs] /\ events \in [trb : [EventIndex -> EventTrbs], dequeue : EventIndex, cycle : Bits]
  BY EventRingSize DEF UsbType, EventShape, EventIndex
<1>1. (e + 1) % N = IF e + 1 = N THEN 0 ELSE e + 1
  <2>1. N \in Nat \ {0} /\ e + 1 \in 0 .. 2 * N - 1
    BY <1>0
  <2>2. (e + 1) % N = IF e + 1 < N THEN e + 1 ELSE (e + 1) - N
    BY <2>1, ModSmall
  <2> QED BY <2>2, <1>0
<1>2. hc'.enq = (IF e + 1 = N THEN 0 ELSE e + 1) /\ hc'.pcs = (IF e + 1 = N THEN 1 - p ELSE p) /\ hc'.erdp = D
  <2>1. Posted(hc).enq = (e + 1) % N /\ Posted(hc).pcs = IF e + 1 = N THEN 1 - p ELSE p
    BY DEF Posted, Flip, UsbType
  <2> QED BY <2>1, <1>0, <1>1
<1>3. (IF e + 1 = N THEN 0 ELSE e + 1) # D
  BY <1>0, <1>1 DEF HcRoom
<1>4. events' = [events EXCEPT !.trb = [tr EXCEPT ![e] = new]]
  BY DEF Post
<1>5. [tr EXCEPT ![e] = new] \in [EventIndex -> EventTrbs]
  BY <1>0 DEF EventIndex
<1>6. events' \in [trb : [EventIndex -> EventTrbs], dequeue : EventIndex, cycle : Bits] /\ events'.dequeue = D
      /\ events'.cycle = c /\ events'.trb = [tr EXCEPT ![e] = new]
  <2> HIDE DEF new
  <2> QED BY <1>0, <1>4, <1>5
<1>7. (\A i \in 0 .. N - 1 : i # e => events'.trb[i] = tr[i]) /\ events'.trb[e] = new
  <2> HIDE DEF new
  <2> QED BY <1>0, <1>6
<1>8. (\A i \in 0 .. N - 1 : tr[i].cycle = IF i < e THEN p ELSE 1 - p) /\ IF p = c THEN D <= e ELSE e < D
  BY DEF EventShape, EventIndex, Flip
<1>9. new.cycle = p /\ new.type = type /\ new.ring = r /\ new.n = n /\ new.ok = ok /\ new.slot = s
  OBVIOUS
<1> HIDE DEF new, e, p, D, c, tr, N
<1>10. \A i \in 0 .. N - 1 : events'.trb[i].cycle = IF i < hc'.enq THEN hc'.pcs ELSE 1 - hc'.pcs
  <2> TAKE i \in 0 .. N - 1
  <2>1. events'.trb[i].cycle = IF i < e THEN p ELSE IF i = e THEN p ELSE 1 - p
    BY <1>0, <1>7, <1>8, <1>9
  <2> QED BY <1>0, <1>2, <2>1 DEF Bits
<1>11. IF hc'.pcs = events'.cycle THEN events'.dequeue <= hc'.enq ELSE hc'.enq < events'.dequeue
  BY <1>0, <1>2, <1>3, <1>6, <1>8 DEF Bits
<1>12. hc'.enq \in EventIndex /\ hc'.pcs \in Bits
  BY <1>0, <1>2 DEF EventIndex, Bits, N
<1>13. EventShape'
  BY <1>10, <1>11, <1>6, <1>0, <1>2 DEF EventShape, EventIndex, Flip, N
<1>14. Pending' = Pending \cup {e} /\ e \notin Pending
  <2>1. Pending = {i \in 0 .. N - 1 : IF p = c THEN D <= i /\ i < e ELSE D <= i \/ i < e}
    BY DEF Pending, EventIndex, N, p, c, D, e
  <2>2. Pending' = {i \in 0 .. N - 1 : IF hc'.pcs = c THEN D <= i /\ i < hc'.enq ELSE D <= i \/ i < hc'.enq}
    BY <1>6 DEF Pending, EventIndex, N
  <2>3. \A i \in 0 .. N - 1 : (IF hc'.pcs = c THEN D <= i /\ i < hc'.enq ELSE D <= i \/ i < hc'.enq)
                              <=> (IF p = c THEN D <= i /\ i < e ELSE D <= i \/ i < e) \/ i = e
    BY <1>0, <1>2, <1>3, <1>8 DEF Bits
  <2>4. ~(IF p = c THEN D <= e /\ e < e ELSE D <= e \/ e < e)
    BY <1>0, <1>8
  <2> QED BY <2>1, <2>2, <2>3, <2>4, <1>0
<1>15. e # (IF D = 0 THEN N ELSE D) - 1
  BY <1>0, <1>3
<1> QED BY <1>6, <1>7, <1>9, <1>12, <1>13, <1>14, <1>15 DEF N, e, D, EventIndex, tr

\* The driver takes an entry of the event ring, and moves ERDP behind it.
LEMMA TakeEvent ==
  ASSUME UsbType, EventShape, Arrived, events' = Dequeue(events),
         hc'.enq = hc.enq, hc'.pcs = hc.pcs, hc'.erdp = events'.dequeue
  PROVE  /\ EventShape'
         /\ events' \in [trb : [EventIndex -> EventTrbs], dequeue : EventIndex, cycle : Bits]
         /\ events'.trb = events.trb
         /\ Pending' = Pending \ {events.dequeue} /\ events.dequeue \in Pending
         /\ events.dequeue = (IF events'.dequeue = 0 THEN kEventRingSize ELSE events'.dequeue) - 1
<1> DEFINE N == kEventRingSize
           e == hc.enq
           p == hc.pcs
           D == events.dequeue
           c == events.cycle
           tr == events.trb
<1>0. N \in Nat /\ N > 1 /\ e \in 0 .. N - 1 /\ p \in Bits /\ D \in 0 .. N - 1 /\ c \in Bits /\ hc.erdp = D
      /\ tr \in [0 .. N - 1 -> EventTrbs] /\ events \in [trb : [EventIndex -> EventTrbs], dequeue : EventIndex, cycle : Bits]
  BY EventRingSize DEF UsbType, EventShape, EventIndex
<1>8. (\A i \in 0 .. N - 1 : tr[i].cycle = IF i < e THEN p ELSE 1 - p) /\ IF p = c THEN D <= e ELSE e < D
  BY DEF EventShape, EventIndex, Flip
<1>2. events'.trb = tr /\ events'.dequeue = (IF D + 1 = N THEN 0 ELSE D + 1) /\ events'.cycle = IF D + 1 = N THEN 1 - c ELSE c
  BY <1>0 DEF Dequeue, Flip
<1>3. events' \in [trb : [EventIndex -> EventTrbs], dequeue : EventIndex, cycle : Bits]
  <2>1. 0 \in EventIndex /\ (D + 1 # N => D + 1 \in EventIndex) /\ 1 - c \in Bits
    BY <1>0 DEF Bits, EventIndex
  <2>2. CASE D + 1 = N
    BY <1>0, <2>1, <2>2 DEF Dequeue, Flip
  <2>3. CASE D + 1 # N
    BY <1>0, <2>1, <2>3 DEF Dequeue
  <2> QED BY <2>2, <2>3
<1>4. tr[D].cycle = c
  BY DEF Arrived
<1> HIDE DEF e, p, D, c, tr, N
<1>5. p = c => D < e
  BY <1>0, <1>8, <1>4 DEF Bits
<1>6. IF p = events'.cycle THEN events'.dequeue <= e ELSE e < events'.dequeue
  BY <1>0, <1>2, <1>5, <1>8 DEF Bits
<1>7. EventShape'
  BY <1>0, <1>2, <1>3, <1>6, <1>8 DEF EventShape, EventIndex, Flip, N, e, p
<1>14. Pending' = Pending \ {D} /\ D \in Pending
  <2>1. Pending = {i \in 0 .. N - 1 : IF p = c THEN D <= i /\ i < e ELSE D <= i \/ i < e}
    BY DEF Pending, EventIndex, N, p, c, D, e
  <2>2. Pending' = {i \in 0 .. N - 1 : IF p = events'.cycle THEN events'.dequeue <= i /\ i < e ELSE events'.dequeue <= i \/ i < e}
    BY DEF Pending, EventIndex, N, e, p
  <2>3. \A i \in 0 .. N - 1 : (IF p = events'.cycle THEN events'.dequeue <= i /\ i < e ELSE events'.dequeue <= i \/ i < e)
                              <=> (IF p = c THEN D <= i /\ i < e ELSE D <= i \/ i < e) /\ i # D
    BY <1>0, <1>2, <1>5, <1>8 DEF Bits
  <2>4. IF p = c THEN D <= D /\ D < e ELSE D <= D \/ D < e
    BY <1>0, <1>5
  <2> QED BY <2>1, <2>2, <2>3, <2>4, <1>0
<1>15. D = (IF events'.dequeue = 0 THEN N ELSE events'.dequeue) - 1
  BY <1>0, <1>2
<1> QED BY <1>2, <1>3, <1>7, <1>14, <1>15 DEF N, D, tr

-----------------------------------------------------------------------------
(* Steps of the USB part that leave most of its state alone *)

\* A controller nobody has touched.
FreshController ==
  /\ port = 1 /\ slot = 0 /\ td = <<>> /\ event = NoEvent
  /\ rings = [r \in Rings |-> EmptyRing(r)] /\ events = EmptyEvents
  /\ hc = NewHc /\ portsc = [p \in Ports |-> NoPort] /\ rung = {}
  /\ sent = [r \in Rings |-> 0] /\ got = [r \in Rings |-> 0]

LEMMA FreshInv == FreshController /\ pc \in Quiet => UsbInv
<1> SUFFICES ASSUME FreshController, pc \in Quiet PROVE UsbInv
  OBVIOUS
<1>0. max_ports_ \in Nat /\ max_slots_ \in Nat /\ kEventRingSize \in Nat /\ kEventRingSize > 1
  BY XhciAssumption, EventRingSize
<1>1. 0 \in EventIndex /\ 0 \in Rings /\ \A s \in Slots : s \in Rings
  BY <1>0 DEF EventIndex, Rings, Slots
<1>2. events \in [trb : [EventIndex -> EventTrbs], dequeue : EventIndex, cycle : Bits]
      /\ events.dequeue = 0 /\ events.cycle = 1 /\ \A i \in EventIndex : events.trb[i].cycle = 0
  <2>1. [cycle |-> 0, type |-> "none", ring |-> 0, n |-> 0, ok |-> FALSE, slot |-> 0] \in EventTrbs
    BY <1>1 DEF EventTrbs, Bits
  <2> QED BY <1>1, <2>1 DEF FreshController, EmptyEvents, EventIndex, Bits
<1>3. hc \in [st : {"firmware", "halting", "halted", "resetting", "notready", "ready", "starting", "running"},
             deq : [Rings -> Nat], ccs : [Rings -> Bits], enq : EventIndex, pcs : Bits, erdp : EventIndex,
             slots : SUBSET Slots, halted : SUBSET Slots, wired : SUBSET Ports, plugged : SUBSET Ports]
      /\ hc.st = "firmware" /\ hc.deq = [r \in Rings |-> 0] /\ hc.ccs = [r \in Rings |-> 1] /\ hc.enq = 0 /\ hc.pcs = 1
      /\ hc.erdp = 0 /\ hc.slots = {} /\ hc.plugged = {}
  BY <1>1 DEF FreshController, NewHc, Bits
<1>4. UsbType
  <2>1. portsc \in [Ports -> PortRegisters]
    BY DEF FreshController, NoPort, PortRegisters
  <2>2. pc \notin OnPort /\ pc \notin {"address"} \cup Transfers
    BY DEF Quiet, OnPort, Commands, Transfers
  <2>3. port \in 1 .. max_ports_ + 1 /\ event \in 0 .. kEventRingSize
    BY <1>0 DEF FreshController, NoEvent
  <2> QED BY <1>1, <1>2, <1>3, <2>1, <2>2, <2>3 DEF FreshController, UsbType, Tds
<1>5. Phases
  <2>1. \A p \in Ports : ~portsc[p].pr
    BY DEF FreshController, NoPort
  <2> QED BY <1>2, <1>3, <2>1 DEF FreshController, Phases, Quiet, OnPort, Commands, Transfers
<1>6. RingsInv
  <2> SUFFICES ASSUME NEW r \in Rings PROVE RingShape(rings[r], Size(r), hc.deq[r], hc.ccs[r], sent[r], got[r])
    BY DEF RingsInv
  <2>1. rings[r] = EmptyRing(r) /\ hc.deq[r] = 0 /\ hc.ccs[r] = 1 /\ sent[r] = 0 /\ got[r] = 0
    BY <1>3 DEF FreshController
  <2> QED BY <2>1, EmptyRingShape
<1>7. Requests
  BY <1>1, <1>3, SMTT(30) DEF FreshController, Requests, Quiet, Commands, Transfers
<1>8. EventShape
  BY <1>1, <1>2, <1>3, <1>0 DEF EventShape, EventIndex, Flip, Bits
<1>9. EventsInv
  <2>1. Pending = {}
    BY <1>0, <1>2, <1>3 DEF Pending, EventIndex
  <2> QED BY <2>1 DEF EventsInv, FreshController
<1>10. PortsInv
  BY <1>3 DEF PortsInv
<1>11. ResetsInv
  <2>1. \A p \in Ports : ~portsc[p].pr /\ ~portsc[p].prc
    BY DEF FreshController, NoPort
  <2> QED BY <2>1 DEF ResetsInv, Quiet
<1> QED BY <1>4, <1>5, <1>6, <1>7, <1>8, <1>9, <1>10, <1>11 DEF UsbInv

LEMMA FreshStep == ASSUME NewController, pc' \in Quiet PROVE UsbInv'
<1>1. (FreshController /\ pc \in Quiet)'
  BY DEF NewController, FreshController, NoEvent, Rings, EmptyRing, EmptyTrb, Size, EmptyEvents, NewHc, Ports, NoPort, Quiet
<1>2. (FreshController /\ pc \in Quiet)' => UsbInv'
  BY FreshInv, PTL
<1> QED BY <1>1, <1>2

\* Nothing happens on the rings.
LEMMA RingsFrame ==
  ASSUME RingsInv, UNCHANGED <<rings, sent, got>>, hc'.deq = hc.deq, hc'.ccs = hc.ccs
  PROVE  RingsInv'
  BY DEF RingsInv

LEMMA EventsFrame ==
  ASSUME EventShape, UNCHANGED events, hc'.enq = hc.enq, hc'.pcs = hc.pcs, hc'.erdp = hc.erdp
  PROVE  EventShape' /\ Pending' = Pending
  BY DEF EventShape, Pending

\* Without a request, and behind an answer, only port events are on the ring.
LEMMA OnlyPortEvents ==
  ASSUME EventsInv, pc \notin Commands \cup Transfers \/ event # NoEvent
  PROVE  \A i \in Pending : events.trb[i].type = "port"
  BY DEF EventsInv, Answers

\* Away from the reset of a port there is none.
LEMMA ResetsFrame ==
  ASSUME ResetsInv, UNCHANGED portsc, pc # "prc", pc' \notin {"prc", "enabled"} PROVE ResetsInv'
  BY DEF ResetsInv

\* Nothing happens to the ports.
LEMMA ResetsStay ==
  ASSUME ResetsInv, UNCHANGED <<portsc, pc, port, faulted>> PROVE ResetsInv'
  BY DEF ResetsInv

\* The next turn of ScanPorts, with what the one before left.
LEMMA NextPortStep ==
  ASSUME UsbInv, NextPort, UNCHANGED <<rings, events, hc, portsc, rung, sent, got>>, pc # "prc",
         pc \in {"port"} \cup OnPort, port \in Ports, pc \notin Commands \cup Transfers \/ event # NoEvent,
         faulted \subseteq faulted', configured \subseteq configured',
         ~PedIsW1C /\ port \in hc.plugged \ faulted' => port \in configured'
  PROVE  UsbInv'
<1>0. UsbType /\ Phases /\ RingsInv /\ Requests /\ EventShape /\ EventsInv /\ PortsInv /\ ResetsInv
  BY DEF UsbInv
<1>1. pc' = "port" /\ port' = port + 1 /\ slot' = 0 /\ td' = <<>> /\ event' = NoEvent
  BY DEF NextPort
<1>2. UsbType'
  <2>1. port + 1 \in 1 .. max_ports_ + 1 /\ 0 \in Rings /\ NoEvent \in 0 .. kEventRingSize
    BY XhciAssumption DEF Ports, Rings, NoEvent
  <2> QED BY <1>0, <1>1, <2>1 DEF UsbType, OnPort, Commands, Transfers, Tds
<1>3. Phases'
  BY <1>0, <1>1 DEF Phases, Quiet, OnPort, Transfers, Commands
<1>4. RingsInv' /\ EventShape' /\ Pending' = Pending
  BY <1>0, RingsFrame, EventsFrame
<1>5. Requests'
  <2>1. got[0] = sent[0]
    BY <1>0 DEF Requests, EventsInv, Answered, Transfers, Commands
  <2>2. \A s \in Slots \ hc.halted : ~(got[s] < sent[s])
    <3> SUFFICES ASSUME NEW s \in Slots \ hc.halted, got[s] < sent[s] PROVE FALSE
      OBVIOUS
    <3>1. s = slot /\ pc \in Transfers
      BY <1>0 DEF Requests
    <3>2. event # NoEvent
      BY <3>1 DEF Transfers
    <3>3. got[slot] = sent[slot]
      BY <1>0, <3>1, <3>2 DEF EventsInv, Answered, Transfers, Commands
    <3>4. got[s] \in Nat
      BY <1>0 DEF UsbType, Slots, Rings
    <3> QED BY <3>1, <3>3, <3>4
  <2>3. \A s \in Slots \ hc.halted : \A i \in 0 .. kEp0RingSize - 2 :
          rings[s].trb[i].type = "status" /\ rings[s].trb[i].n > got[s] => rings[s].trb[i].n = sent[s]
    BY <1>0 DEF Requests
  <2> QED BY <1>0, <1>1, <2>1, <2>2, <2>3 DEF Requests, Commands, Transfers
<1>6. EventsInv'
  <2>1. \A i \in Pending : events.trb[i].type = "port"
    BY <1>0, OnlyPortEvents
  <2> QED BY <1>1, <1>4, <2>1 DEF EventsInv, NoEvent
<1>7. PortsInv'
  <2>1. \A p \in hc.plugged : p \in Nat
    BY <1>0 DEF UsbType, Ports
  <2>2. port \in Nat
    BY DEF Ports
  <2> QED BY <1>0, <1>1, <2>1, <2>2 DEF PortsInv, Quiet, OnPort, Commands, Transfers
<1>8. ResetsInv'
  BY <1>0, <1>1, ResetsFrame
<1> QED BY <1>2, <1>3, <1>4, <1>5, <1>6, <1>7, <1>8 DEF UsbInv

\* A step that touches no ring, in the middle of a request or outside of one.
LEMMA CalmStep ==
  ASSUME UsbInv, UNCHANGED <<slot, td, rings, events, event, sent, got>>,
         pc' = pc \/ (pc \notin Commands \cup Transfers /\ pc' \notin Commands \cup Transfers),
         hc'.deq = hc.deq, hc'.ccs = hc.ccs, hc'.enq = hc.enq, hc'.pcs = hc.pcs, hc'.erdp = hc.erdp,
         hc'.slots = hc.slots, hc'.halted = hc.halted, UsbType', Phases', PortsInv', ResetsInv'
  PROVE  UsbInv'
<1>0. UsbType /\ Phases /\ RingsInv /\ Requests /\ EventShape /\ EventsInv /\ PortsInv
  BY DEF UsbInv
<1>1. RingsInv' /\ EventShape' /\ Pending' = Pending
  BY <1>0, RingsFrame, EventsFrame
<1>2. Requests'
  <2>1. CASE pc' = pc
    BY <1>0, <2>1 DEF Requests, Stages
  <2>2. CASE pc \notin Commands \cup Transfers /\ pc' \notin Commands \cup Transfers
    BY <1>0, <2>2 DEF Requests, Commands, Transfers
  <2> QED BY <2>1, <2>2
<1>3. EventsInv'
  <2>1. CASE pc' = pc
    BY <1>0, <1>1, <2>1 DEF EventsInv, Answers, Answered, Stages, NoEvent
  <2>2. CASE pc \notin Commands \cup Transfers /\ pc' \notin Commands \cup Transfers
    <3>1. \A i \in Pending : events.trb[i].type = "port"
      BY <1>0, <2>2, OnlyPortEvents
    <3>2. event = NoEvent
      BY <1>0, <2>2 DEF EventsInv, Answers
    <3> QED BY <1>1, <3>1, <3>2 DEF EventsInv, NoEvent
  <2> QED BY <2>1, <2>2
<1> QED BY <1>1, <1>2, <1>3 DEF UsbInv

LEMMA NextDeviceInv == ASSUME UsbInv, NextDevice PROVE UsbInv'
<1>0. UsbType /\ Phases /\ PortsInv /\ ResetsInv
  BY DEF UsbInv
<1>1. pc = "devices" /\ pc' \in {"devices", "capability", "ended"}
      /\ UNCHANGED <<port, slot, td, rings, events, event, hc, portsc, rung, sent, got, faulted, configured>>
  BY DEF NextDevice, hcVars, historyVars
<1>2. UsbType'
  BY <1>0, <1>1 DEF UsbType, Quiet, OnPort, Commands, Transfers
<1>3. Phases'
  BY <1>0, <1>1 DEF Phases, Quiet, OnPort, Commands, Transfers
<1>4. PortsInv'
  BY <1>0, <1>1 DEF PortsInv, Quiet
<1>5. ResetsInv'
  BY <1>0, <1>1, ResetsFrame
<1> QED BY <1>1, <1>2, <1>3, <1>4, <1>5, CalmStep DEF Commands, Transfers

LEMMA ReadCapabilityRegistersInv == ASSUME UsbInv, ReadCapabilityRegisters PROVE UsbInv'
<1>0. UsbType /\ Phases /\ PortsInv /\ ResetsInv
  BY DEF UsbInv
<1>1. CASE InitializeFails
  BY <1>1, FreshStep DEF InitializeFails, Quiet
<1>2. CASE ~InitializeFails
  <2>1. PICK c \in Chipsets : hc' = [hc EXCEPT !.st = "halting", !.wired = RouteToXhci(c)]
    BY <1>2 DEF ReadCapabilityRegisters
  <2>2. pc = "capability" /\ pc' = "halt"
        /\ UNCHANGED <<port, slot, td, rings, events, event, portsc, rung, sent, got, faulted, configured>>
    BY <1>2 DEF ReadCapabilityRegisters, historyVars
  <2>3. RouteToXhci(c) = Ports
    BY DEF RouteToXhci, Chipsets
  <2>4. hc' = [hc EXCEPT !.st = "halting", !.wired = Ports]
    BY <2>1, <2>3
  <2>5. UsbType'
    BY <1>0, <2>2, <2>4 DEF UsbType, Quiet, OnPort, Commands, Transfers
  <2>6. hc'.st = "halting" /\ hc'.wired = Ports /\ hc'.deq = hc.deq /\ hc'.ccs = hc.ccs /\ hc'.enq = hc.enq /\ hc'.pcs = hc.pcs
        /\ hc'.erdp = hc.erdp /\ hc'.slots = hc.slots /\ hc'.halted = hc.halted /\ hc'.plugged = hc.plugged
    BY <1>0, <2>4 DEF UsbType
  <2>7. Phases'
    BY <1>0, <2>2, <2>6 DEF Phases, Quiet, OnPort, Commands, Transfers
  <2>8. PortsInv'
    BY <1>0, <2>2, <2>6 DEF PortsInv
  <2>9. ResetsInv'
    BY <1>0, <2>2, ResetsFrame
  <2> QED BY <2>2, <2>5, <2>6, <2>7, <2>8, <2>9, CalmStep DEF Commands, Transfers
<1> QED BY <1>1, <1>2

LEMMA ResetControllerInv == ASSUME UsbInv, ResetController PROVE UsbInv'
<1>0. UsbType /\ Phases /\ PortsInv /\ ResetsInv
  BY DEF UsbInv
<1>1. hc' = [hc EXCEPT !.st = "resetting"] /\ pc = "halt" /\ pc' = "reset"
      /\ UNCHANGED <<port, slot, td, rings, events, event, portsc, rung, sent, got, faulted, configured>>
  BY DEF ResetController, historyVars
<1>2. UsbType'
  BY <1>0, <1>1 DEF UsbType, Quiet, OnPort, Commands, Transfers
<1>3. hc'.st = "resetting" /\ hc'.wired = hc.wired /\ hc'.deq = hc.deq /\ hc'.ccs = hc.ccs /\ hc'.enq = hc.enq /\ hc'.pcs = hc.pcs
      /\ hc'.erdp = hc.erdp /\ hc'.slots = hc.slots /\ hc'.halted = hc.halted /\ hc'.plugged = hc.plugged
  BY <1>0, <1>1 DEF UsbType
<1>4. Phases'
  BY <1>0, <1>1, <1>3 DEF Phases, Quiet, OnPort, Commands, Transfers
<1>5. PortsInv'
  BY <1>0, <1>1, <1>3 DEF PortsInv, Quiet
<1>6. ResetsInv'
  BY <1>0, <1>1, ResetsFrame
<1> QED BY <1>1, <1>2, <1>3, <1>4, <1>5, <1>6, CalmStep DEF Commands, Transfers

LEMMA StartedInv == ASSUME UsbInv, Started PROVE UsbInv'
<1>0. UsbType /\ Phases /\ PortsInv /\ ResetsInv
  BY DEF UsbInv
<1>1. pc = "run" /\ pc' = "port"
      /\ UNCHANGED <<port, slot, td, rings, events, event, hc, portsc, rung, sent, got, faulted, configured>>
  BY DEF Started, hcVars, historyVars
<1>2. UsbType'
  BY <1>0, <1>1 DEF UsbType, Quiet, OnPort, Commands, Transfers
<1>3. Phases'
  BY <1>0, <1>1 DEF Phases, Quiet, OnPort, Commands, Transfers
<1>4. PortsInv'
  BY <1>0, <1>1 DEF PortsInv, Quiet
<1>5. ResetsInv'
  BY <1>0, <1>1, ResetsFrame
<1> QED BY <1>1, <1>2, <1>3, <1>4, <1>5, CalmStep DEF Commands, Transfers

LEMMA StartControllerInv == ASSUME UsbInv, StartController PROVE UsbInv'
<1>0. UsbType /\ Phases /\ RingsInv /\ Requests /\ EventShape /\ EventsInv /\ PortsInv /\ ResetsInv
  BY DEF UsbInv
<1>1. CASE InitializeFails
  BY <1>1, FreshStep DEF InitializeFails, Quiet
<1>2. CASE ~InitializeFails
  <2>1. rings' = [rings EXCEPT ![0] = EmptyRing(0)] /\ events' = EmptyEvents /\ hc' = [hc EXCEPT !.st = "starting"]
        /\ pc = "reset" /\ pc' = "run" /\ UNCHANGED <<port, slot, td, event, portsc, rung, sent, got, faulted, configured>>
        /\ hc.st = "ready"
    BY <1>2 DEF StartController, historyVars
  <2>2. hc'.st = "starting" /\ hc'.wired = hc.wired /\ hc'.deq = hc.deq /\ hc'.ccs = hc.ccs /\ hc'.enq = hc.enq /\ hc'.pcs = hc.pcs
        /\ hc'.erdp = hc.erdp /\ hc'.slots = hc.slots /\ hc'.halted = hc.halted /\ hc'.plugged = hc.plugged
    BY <1>0, <2>1 DEF UsbType
  <2>3. sent = [r \in Rings |-> 0] /\ hc.enq = 0 /\ hc.pcs = 1 /\ hc.erdp = 0
    BY <1>0, <2>1 DEF Phases
  <2>4. kEventRingSize \in Nat /\ kEventRingSize > 1 /\ 0 \in EventIndex /\ 0 \in Rings
    BY EventRingSize, XhciAssumption DEF EventIndex, Rings
  <2>5. events' \in [trb : [EventIndex -> EventTrbs], dequeue : EventIndex, cycle : Bits]
        /\ events'.dequeue = 0 /\ events'.cycle = 1 /\ \A i \in EventIndex : events'.trb[i].cycle = 0
    <3>1. [cycle |-> 0, type |-> "none", ring |-> 0, n |-> 0, ok |-> FALSE, slot |-> 0] \in EventTrbs
      BY <2>4 DEF EventTrbs, Bits
    <3> QED BY <2>1, <2>4, <3>1 DEF EmptyEvents, EventIndex, Bits
  <2>6. UsbType'
    BY <1>0, <2>1, <2>5 DEF UsbType, Quiet, OnPort, Commands, Transfers
  <2>7. Phases'
    BY <1>0, <2>1, <2>2 DEF Phases, Quiet, OnPort, Commands, Transfers
  <2>8. RingsInv'
    <3> SUFFICES ASSUME NEW r \in Rings PROVE RingShape(rings'[r], Size(r), hc'.deq[r], hc'.ccs[r], sent'[r], got'[r])
      BY DEF RingsInv
    <3>0. DOMAIN rings = Rings /\ RingShape(rings[r], Size(r), hc.deq[r], hc.ccs[r], sent[r], got[r])
      BY <1>0 DEF UsbType, RingsInv
    <3>1. CASE r = 0
      <4>1. sent[r] = 0 /\ got[r] = 0 /\ hc.deq[r] = 0 /\ hc.ccs[r] = 1
        BY <2>3, <3>0 DEF RingShape
      <4>2. rings'[r] = EmptyRing(r)
        BY <2>1, <3>0, <3>1
      <4> QED BY <2>1, <2>2, <4>1, <4>2, EmptyRingShape
    <3>2. CASE r # 0
      BY <2>1, <2>2, <3>0, <3>2
    <3> QED BY <3>1, <3>2
  <2>9. Requests'
    <3>1. \A s \in Slots : s \in Rings /\ s # 0
      BY XhciAssumption DEF Slots, Rings
    <3>2. \A s \in Slots : rings'[s] = rings[s]
      BY <1>0, <2>1, <3>1 DEF UsbType
    <3> QED BY <1>0, <2>1, <2>2, <3>2 DEF Requests, Commands, Transfers
  <2>10. EventShape'
    BY <2>1, <2>2, <2>3, <2>4, <2>5 DEF EventShape, EventIndex, Flip, Bits
  <2>11. EventsInv'
    <3>1. Pending' = {}
      BY <2>2, <2>3, <2>4, <2>5 DEF Pending, EventIndex
    <3>2. event = NoEvent
      BY <1>0, <2>1 DEF EventsInv, Answers, Commands, Transfers
    <3> QED BY <2>1, <3>1, <3>2 DEF EventsInv, NoEvent
  <2>12. PortsInv'
    BY <1>0, <2>1, <2>2 DEF PortsInv, Quiet
  <2>13. ResetsInv'
    BY <1>0, <2>1, ResetsFrame
  <2> QED BY <2>6, <2>7, <2>8, <2>9, <2>10, <2>11, <2>12, <2>13 DEF UsbInv
<1> QED BY <1>1, <1>2

LEMMA RegisteredInv == ASSUME UsbInv, Registered PROVE UsbInv'
  BY FreshStep DEF Registered, Quiet

LEMMA ScanPortInv == ASSUME UsbInv, ScanPort PROVE UsbInv'
<1>0. UsbType /\ Phases /\ PortsInv /\ ResetsInv
  BY DEF UsbInv
<1>1. pc = "port" /\ port \in Ports /\ UNCHANGED <<rings, events, hc, portsc, rung, sent, got, faulted, configured>>
  BY DEF ScanPort, hcVars, historyVars
<1>2. CASE portsc[port].ccs
  <2>1. pc' = "connected" /\ UNCHANGED <<port, slot, td, event>>
    BY <1>2 DEF ScanPort
  <2>2. UsbType'
    BY <1>0, <1>1, <2>1 DEF UsbType, Quiet, OnPort, Commands, Transfers
  <2>3. Phases'
    BY <1>0, <1>1, <2>1 DEF Phases, Quiet, OnPort, Commands, Transfers
  <2>4. PortsInv'
    BY <1>0, <1>1, <2>1 DEF PortsInv, Quiet
  <2>5. ResetsInv'
    BY <1>0, <1>1, <2>1, ResetsFrame
  <2> QED BY <1>1, <2>1, <2>2, <2>3, <2>4, <2>5, CalmStep DEF Commands, Transfers
<1>3. CASE ~portsc[port].ccs
  <2>1. NextPort
    BY <1>3 DEF ScanPort
  <2>2. port \notin hc.plugged \ faulted
    BY <1>0, <1>1, <1>3 DEF Phases, PortsInv
  <2> QED BY <1>1, <2>1, <2>2, NextPortStep DEF Commands, Transfers
<1> QED BY <1>2, <1>3

\* What a write of the driver leaves of a port register.
LEMMA WrittenPort ==
  ASSUME UsbType, NEW p \in Ports, NEW b \in BOOLEAN
  PROVE  /\ [WritePort(p, portsc[p]) EXCEPT !.pr = b] \in PortRegisters
         /\ [WritePort(p, portsc[p]) EXCEPT !.pr = b].ccs = portsc[p].ccs
         /\ [WritePort(p, portsc[p]) EXCEPT !.pr = b].pr = b
         /\ [WritePort(p, portsc[p]) EXCEPT !.pr = b].prc = portsc[p].prc
         /\ [WritePort(p, portsc[p]) EXCEPT !.prc = b] \in PortRegisters
         /\ [WritePort(p, portsc[p]) EXCEPT !.prc = b].ccs = portsc[p].ccs
         /\ [WritePort(p, portsc[p]) EXCEPT !.prc = b].pr = portsc[p].pr
         /\ [WritePort(p, portsc[p]) EXCEPT !.prc = b].prc = b
         /\ ~PedIsW1C => [WritePort(p, portsc[p]) EXCEPT !.prc = b].ped = portsc[p].ped
<1>1. portsc[p] \in PortRegisters
  BY DEF UsbType
<1>2. PICK w \in BOOLEAN : w = (portsc[p].ped /\ ~(PedIsW1C /\ portsc[p].ped))
  OBVIOUS
<1>3. WritePort(p, portsc[p]) = [portsc[p] EXCEPT !.ped = w]
  BY <1>2 DEF WritePort
<1>4. PICK x : x = WritePort(p, portsc[p])
  OBVIOUS
<1>5. x \in PortRegisters /\ x.ccs = portsc[p].ccs /\ x.pr = portsc[p].pr /\ x.prc = portsc[p].prc /\ x.ped = w
  BY <1>1, <1>3, <1>4 DEF PortRegisters
<1>6. ~PedIsW1C => w = portsc[p].ped
  BY <1>1, <1>2 DEF PortRegisters
<1>7. /\ [x EXCEPT !.pr = b] \in PortRegisters /\ [x EXCEPT !.pr = b].ccs = x.ccs
      /\ [x EXCEPT !.pr = b].pr = b /\ [x EXCEPT !.pr = b].prc = x.prc
      /\ [x EXCEPT !.prc = b] \in PortRegisters /\ [x EXCEPT !.prc = b].ccs = x.ccs
      /\ [x EXCEPT !.prc = b].pr = x.pr /\ [x EXCEPT !.prc = b].prc = b /\ [x EXCEPT !.prc = b].ped = x.ped
  BY <1>5 DEF PortRegisters
<1> QED BY <1>4, <1>5, <1>6, <1>7

LEMMA ResetPortInv == ASSUME UsbInv, ResetPort PROVE UsbInv'
<1>0. UsbType /\ Phases /\ PortsInv /\ ResetsInv
  BY DEF UsbInv
<1>1. pc = "connected" /\ pc' = "prc"
      /\ UNCHANGED <<port, slot, td, rings, events, event, hc, rung, sent, got, faulted, configured>>
  BY DEF ResetPort, historyVars
<1>2. port \in Ports
  BY <1>0, <1>1 DEF UsbType, OnPort
<1>3. PICK y : y = [WritePort(port, portsc[port]) EXCEPT !.pr = portsc[port].ccs]
  OBVIOUS
<1>4. portsc[port].ccs \in BOOLEAN
  BY <1>0, <1>2 DEF UsbType, PortRegisters
<1>5. y \in PortRegisters /\ y.ccs = portsc[port].ccs /\ y.prc = portsc[port].prc
  BY <1>0, <1>2, <1>3, <1>4, WrittenPort
<1>6. portsc' = [portsc EXCEPT ![port] = y]
  BY <1>3 DEF ResetPort
<1>7. /\ portsc' \in [Ports -> PortRegisters] /\ portsc'[port] = y
      /\ \A p \in Ports : portsc'[p].ccs = portsc[p].ccs
      /\ \A p \in Ports \ {port} : portsc'[p] = portsc[p]
  BY <1>0, <1>2, <1>5, <1>6 DEF UsbType
<1>8. UsbType'
  BY <1>0, <1>1, <1>7 DEF UsbType, Quiet, OnPort, Commands, Transfers
<1>9. Phases'
  BY <1>0, <1>1 DEF Phases, Quiet, OnPort, Commands, Transfers
<1>10. PortsInv'
  BY <1>0, <1>1, <1>7 DEF PortsInv, Quiet, UsbType
<1>11. ResetsInv'
  <2>1. \A p \in Ports : ~portsc[p].pr /\ ~portsc[p].prc
    BY <1>0, <1>1 DEF ResetsInv
  <2>2. ~portsc'[port].prc /\ \A p \in Ports \ {port} : ~portsc'[p].pr /\ ~portsc'[p].prc
    BY <1>2, <1>5, <1>7, <2>1
  <2> QED BY <1>1, <1>2, <2>2 DEF ResetsInv
<1> QED BY <1>1, <1>8, <1>9, <1>10, <1>11, CalmStep DEF Commands, Transfers

LEMMA ClearPrcInv == ASSUME UsbInv, ClearPrc PROVE UsbInv'
<1>0. UsbType /\ Phases /\ PortsInv /\ ResetsInv
  BY DEF UsbInv
<1>1. pc = "prc" /\ pc' = "enabled" /\ portsc[port].prc
      /\ UNCHANGED <<port, slot, td, rings, events, event, hc, rung, sent, got, faulted, configured>>
  BY DEF ClearPrc, historyVars
<1>2. port \in Ports
  BY <1>0, <1>1 DEF UsbType, OnPort
<1>3. PICK y : y = [WritePort(port, portsc[port]) EXCEPT !.prc = FALSE]
  OBVIOUS
<1>4. /\ y \in PortRegisters /\ y.ccs = portsc[port].ccs /\ y.pr = portsc[port].pr /\ ~y.prc
      /\ ~PedIsW1C => y.ped = portsc[port].ped
  BY <1>0, <1>2, <1>3, WrittenPort
<1>5. portsc' = [portsc EXCEPT ![port] = y]
  BY <1>3 DEF ClearPrc
<1>6. /\ portsc' \in [Ports -> PortRegisters] /\ portsc'[port] = y
      /\ \A p \in Ports : portsc'[p].ccs = portsc[p].ccs
      /\ \A p \in Ports \ {port} : portsc'[p] = portsc[p]
  BY <1>0, <1>2, <1>4, <1>5 DEF UsbType
<1>7. UsbType'
  BY <1>0, <1>1, <1>6 DEF UsbType, Quiet, OnPort, Commands, Transfers
<1>8. Phases'
  BY <1>0, <1>1 DEF Phases, Quiet, OnPort, Commands, Transfers
<1>9. PortsInv'
  BY <1>0, <1>1, <1>6 DEF PortsInv, Quiet, UsbType
<1>10. ResetsInv'
  <2>1. ~portsc[port].pr /\ (port \notin faulted => portsc[port].ped)
        /\ \A p \in Ports \ {port} : ~portsc[p].pr /\ ~portsc[p].prc
    BY <1>0, <1>1, <1>2 DEF ResetsInv
  <2>2. \A p \in Ports : ~portsc'[p].pr /\ ~portsc'[p].prc
    BY <1>2, <1>4, <1>6, <2>1
  <2>3. ~PedIsW1C /\ port \notin faulted => portsc'[port].ped
    BY <1>4, <1>6, <2>1
  <2> QED BY <1>1, <2>2, <2>3 DEF ResetsInv
<1> QED BY <1>1, <1>7, <1>8, <1>9, <1>10, CalmStep DEF Commands, Transfers

\* One more entry on one ring, for which there is room.
LEMMA PushOn ==
  ASSUME UsbType, RingsInv, NEW r \in Rings, NEW type \in TrbTypes, sent[r] - got[r] <= Size(r) - 3,
         rings' = [rings EXCEPT ![r] = Push(rings[r], r, type)], sent' = [sent EXCEPT ![r] = sent[r] + 1],
         UNCHANGED <<hc, got>>
  PROVE  /\ RingsInv' /\ DOMAIN rings' = Rings /\ sent' \in [Rings -> Nat]
         /\ sent'[r] = sent[r] + 1 /\ \A q \in Rings \ {r} : rings'[q] = rings[q] /\ sent'[q] = sent[q]
         /\ OneMore(rings'[r], rings[r], Size(r), type, sent[r])
<1>1. RingShape(rings[r], Size(r), hc.deq[r], hc.ccs[r], sent[r], got[r])
  BY DEF RingsInv
<1>2. RingShape(Push(rings[r], r, type), Size(r), hc.deq[r], hc.ccs[r], sent[r] + 1, got[r])
  BY <1>1, PushShape
<1>3. OneMore(Push(rings[r], r, type), rings[r], Size(r), type, sent[r])
  BY <1>1, PushShape
<1>4. rings'[r] = Push(rings[r], r, type) /\ sent'[r] = sent[r] + 1 /\ DOMAIN rings' = Rings /\ sent' \in [Rings -> Nat]
      /\ \A q \in Rings \ {r} : rings'[q] = rings[q] /\ sent'[q] = sent[q]
  <2>1. DOMAIN rings = Rings /\ sent \in [Rings -> Nat]
    BY DEF UsbType
  <2>2. rings'[r] = Push(rings[r], r, type) /\ DOMAIN rings' = Rings /\ \A q \in Rings \ {r} : rings'[q] = rings[q]
    BY <2>1
  <2>3. sent'[r] = sent[r] + 1 /\ sent' \in [Rings -> Nat] /\ \A q \in Rings \ {r} : sent'[q] = sent[q]
    BY <2>1
  <2> QED BY <2>2, <2>3
<1>5. RingsInv'
  <2> SUFFICES ASSUME NEW q \in Rings PROVE RingShape(rings'[q], Size(q), hc'.deq[q], hc'.ccs[q], sent'[q], got'[q])
    BY DEF RingsInv
  <2>1. CASE q = r
    BY <1>2, <1>4, <2>1
  <2>2. CASE q # r
    BY <1>4, <2>2 DEF RingsInv
  <2> QED BY <2>1, <2>2
<1> QED BY <1>3, <1>4, <1>5

LEMMA EnableSlotInv == ASSUME UsbInv, EnableSlot PROVE UsbInv'
<1>0. UsbType /\ Phases /\ RingsInv /\ Requests /\ EventShape /\ EventsInv /\ PortsInv /\ ResetsInv
  BY DEF UsbInv
<1>1. pc = "enabled" /\ UNCHANGED <<events, hc, portsc, got, configured>>
  BY DEF EnableSlot
<1>1a. port \in Ports
  BY <1>0, <1>1 DEF UsbType, OnPort
<1>2. CASE portsc[port].ped
  <2>1. PushCommand("enable_slot") /\ pc' = "slot" /\ UNCHANGED <<port, slot, td, event, faulted>>
    BY <1>2 DEF EnableSlot
  <2>2. rings' = [rings EXCEPT ![0] = Push(rings[0], 0, "enable_slot")] /\ sent' = [sent EXCEPT ![0] = sent[0] + 1]
        /\ rung' = rung \cup {0}
    BY <2>1 DEF PushCommand
  <2>3. 0 \in Rings /\ \A s \in Slots : s \in Rings \ {0}
    BY XhciAssumption DEF Rings, Slots
  <2>4. got[0] = sent[0] /\ sent[0] \in Nat /\ sent[0] - got[0] <= Size(0) - 3 /\ Size(0) = kCmdRingSize
    <3>1. got[0] = sent[0] /\ sent[0] \in Nat
      BY <1>0, <1>1, <2>3 DEF Requests, Commands, UsbType
    <3> QED BY <3>1, <2>3, SizeType DEF Size
  <2>5. RingsInv' /\ DOMAIN rings' = Rings /\ sent' \in [Rings -> Nat]
         /\ sent'[0] = sent[0] + 1 /\ (\A q \in Rings \ {0} : rings'[q] = rings[q] /\ sent'[q] = sent[q])
         /\ OneMore(rings'[0], rings[0], Size(0), "enable_slot", sent[0])
    BY <1>0, <1>1, <2>2, <2>3, <2>4, PushOn DEF TrbTypes
  <2>6. UsbType'
    BY <1>0, <1>1, <1>1a, <2>1, <2>2, <2>3, <2>5 DEF UsbType, Quiet, OnPort, Commands, Transfers
  <2>7. Phases'
    BY <1>0, <1>1, <2>1 DEF Phases, Quiet, OnPort, Commands, Transfers
  <2>8. Requests'
    <3>1. \A i \in 0 .. kCmdRingSize - 2 : rings'[0].trb[i].n = sent'[0] => rings'[0].trb[i].type = "enable_slot"
      BY <2>4, <2>5 DEF OneMore
    <3>2. \A s \in Slots : rings'[s] = rings[s] /\ sent'[s] = sent[s]
      BY <2>3, <2>5
    <3>3. sent'[0] - got'[0] <= 1
      BY <1>1, <2>4, <2>5
    <3> QED BY <1>0, <1>1, <2>1, <3>1, <3>2, <3>3 DEF Requests, Commands, Transfers
  <2>9. EventShape' /\ Pending' = Pending
    BY <1>0, <1>1, EventsFrame
  <2>10. EventsInv'
    <3>1. \A i \in Pending : events.trb[i].type = "port"
      BY <1>0, <1>1, OnlyPortEvents DEF Commands, Transfers
    <3>2. event = NoEvent
      BY <1>0, <1>1 DEF EventsInv, Answers, Commands, Transfers
    <3> QED BY <1>1, <2>1, <2>9, <3>1, <3>2 DEF EventsInv, NoEvent
  <2>11. PortsInv'
    BY <1>0, <1>1, <2>1 DEF PortsInv, Quiet
  <2>12. ResetsInv'
    BY <1>0, <1>1, <2>1, ResetsFrame
  <2> QED BY <2>5, <2>6, <2>7, <2>8, <2>9, <2>10, <2>11, <2>12 DEF UsbInv
<1>3. CASE ~portsc[port].ped
  <2>1. NextPort /\ UNCHANGED <<rings, sent, rung, faulted>>
    BY <1>3 DEF EnableSlot
  <2>2. ~PedIsW1C => port \in faulted
    BY <1>0, <1>1, <1>3 DEF ResetsInv
  <2> QED BY <1>1, <1>1a, <2>1, <2>2, NextPortStep DEF OnPort, Commands, Transfers
<1> QED BY <1>2, <1>3

LEMMA AddressDeviceInv == ASSUME UsbInv, AddressDevice PROVE UsbInv'
<1>0. UsbType /\ Phases /\ RingsInv /\ Requests /\ EventShape /\ EventsInv /\ PortsInv /\ ResetsInv
  BY DEF UsbInv
<1>1. pc = "slot" /\ event # NoEvent /\ UNCHANGED <<events, hc, portsc, got, configured>>
  BY DEF AddressDevice
<1>1a. port \in Ports
  BY <1>0, <1>1 DEF UsbType, OnPort, Commands
<1>2. CASE NextPort /\ faulted' = faulted \cup {port} /\ UNCHANGED <<rings, sent, rung>>
  BY <1>1, <1>1a, <1>2, NextPortStep DEF OnPort, Commands, Transfers
<1>3. CASE ~(NextPort /\ faulted' = faulted \cup {port} /\ UNCHANGED <<rings, sent, rung>>)
  <2>0. Answer.ok /\ slot' = Answer.slot
        /\ rings' = [rings EXCEPT ![0] = Push(rings[0], 0, "address_device"), ![Answer.slot] = EmptyRing(Answer.slot)]
        /\ sent' = [sent EXCEPT ![0] = sent[0] + 1] /\ rung' = rung \cup {0}
        /\ pc' = "address" /\ event' = NoEvent /\ UNCHANGED <<port, td, faulted>>
    BY <1>3 DEF AddressDevice
  <2>1. PICK a : a = Answer.slot
    OBVIOUS
  <2>2. a \in Slots /\ a \in hc.slots /\ sent[a] = 0
    <3>1. a \in hc.slots /\ sent[a] = 0
      BY <1>0, <1>1, <2>0, <2>1 DEF EventsInv, Answers, Answer, Commands, Transfers
    <3> QED BY <1>0, <3>1 DEF UsbType
  <2>3. 0 \in Rings /\ (\A s \in Slots : s \in Rings /\ s # 0)
    BY XhciAssumption DEF Rings, Slots
  <2>4. got[0] = sent[0] /\ sent[0] \in Nat /\ Size(0) = kCmdRingSize
    BY <1>0, <1>1, <2>3 DEF EventsInv, Answered, Commands, Transfers, UsbType, Size
  <2>5. sent[0] - got[0] <= Size(0) - 3
    BY <2>3, <2>4, SizeType
  <2>6. RingShape(rings[0], Size(0), hc.deq[0], hc.ccs[0], sent[0], got[0])
        /\ RingShape(rings[a], Size(a), hc.deq[a], hc.ccs[a], sent[a], got[a])
    BY <1>0, <2>2, <2>3 DEF RingsInv
  <2>7. RingShape(Push(rings[0], 0, "address_device"), Size(0), hc.deq[0], hc.ccs[0], sent[0] + 1, got[0])
    BY <2>3, <2>5, <2>6, PushShape DEF TrbTypes
  <2>8. OneMore(Push(rings[0], 0, "address_device"), rings[0], Size(0), "address_device", sent[0])
    BY <2>3, <2>5, <2>6, PushShape DEF TrbTypes
  <2>9. got[a] = 0 /\ hc.deq[a] = 0 /\ hc.ccs[a] = 1
    BY <2>2, <2>6 DEF RingShape
  <2>10. /\ DOMAIN rings' = Rings /\ rings'[0] = Push(rings[0], 0, "address_device") /\ rings'[a] = EmptyRing(a)
         /\ \A q \in Rings : q # 0 /\ q # a => rings'[q] = rings[q]
    <3>1. DOMAIN rings = Rings
      BY <1>0 DEF UsbType
    <3>2. rings' = [rings EXCEPT ![0] = Push(rings[0], 0, "address_device"), ![a] = EmptyRing(a)]
      BY <2>0, <2>1
    <3> QED BY <2>2, <2>3, <3>1, <3>2
  <2>11. sent' \in [Rings -> Nat] /\ sent'[0] = sent[0] + 1 /\ \A q \in Rings \ {0} : sent'[q] = sent[q]
    <3>1. sent \in [Rings -> Nat]
      BY <1>0 DEF UsbType
    <3> QED BY <2>0, <2>3, <3>1
  <2>12. RingsInv'
    <3> SUFFICES ASSUME NEW q \in Rings PROVE RingShape(rings'[q], Size(q), hc'.deq[q], hc'.ccs[q], sent'[q], got'[q])
      BY DEF RingsInv
    <3>1. CASE q = 0
      BY <1>1, <2>7, <2>10, <2>11, <3>1
    <3>2. CASE q = a
      <4>1. RingShape(EmptyRing(a), Size(a), 0, 1, 0, 0)
        BY <2>2, <2>3, EmptyRingShape
      <4>2. sent'[a] = 0
        BY <2>2, <2>3, <2>11
      <4> QED BY <1>1, <2>9, <2>10, <3>2, <4>1, <4>2
    <3>3. CASE q # 0 /\ q # a
      <4>1. sent'[q] = sent[q] /\ rings'[q] = rings[q]
        BY <2>10, <2>11, <3>3
      <4>2. RingShape(rings[q], Size(q), hc.deq[q], hc.ccs[q], sent[q], got[q])
        BY <1>0 DEF RingsInv
      <4> QED BY <1>1, <4>1, <4>2
    <3> QED BY <3>1, <3>2, <3>3
  <2>13. UsbType'
    BY <1>0, <1>1, <1>1a, <2>0, <2>1, <2>2, <2>3, <2>10, <2>11, NoEventType DEF UsbType, Quiet, OnPort, Commands, Transfers
  <2>14. Phases'
    BY <1>0, <1>1, <2>0 DEF Phases, Quiet, OnPort, Commands, Transfers
  <2>15. Requests'
    <3>1. \A i \in 0 .. kCmdRingSize - 2 : rings'[0].trb[i].n = sent'[0] => rings'[0].trb[i].type = "address_device"
      BY <2>4, <2>8, <2>10, <2>11 DEF OneMore
    <3>2. \A s \in Slots : sent'[s] = sent[s]
      BY <2>3, <2>11
    <3>3. sent'[0] - got'[0] <= 1
      BY <1>1, <2>4, <2>11
    <3>4. \A s \in Slots \ hc.halted : got[s] < sent[s] => FALSE
      BY <1>0, <1>1 DEF Requests, Transfers
    <3>5. ASSUME NEW s \in Slots \ hc.halted, NEW i \in 0 .. kEp0RingSize - 2,
                 rings'[s].trb[i].type = "status", rings'[s].trb[i].n > got[s]
          PROVE  rings'[s].trb[i].n = sent'[s] /\ td' = <<>>
      <4>1. CASE s = a
        <5>1. rings'[s].trb[i] = EmptyTrb
          BY <2>2, <2>3, <2>10, <4>1, SizeType DEF EmptyRing
        <5> QED BY <3>5, <5>1 DEF EmptyTrb
      <4>2. CASE s # a
        <5>1. rings'[s] = rings[s]
          BY <2>3, <2>10, <4>2
        <5> QED BY <1>0, <2>0, <3>2, <3>5, <5>1 DEF Requests
      <4> QED BY <4>1, <4>2
    <3>6. sent'[slot'] = 0 /\ slot' \in hc.slots
      BY <2>0, <2>1, <2>2, <3>2
    <3>7. \A s \in Slots \ hc.slots : sent[s] = 0
      BY <1>0 DEF Requests
    <3> QED BY <1>1, <2>0, <3>1, <3>2, <3>3, <3>4, <3>5, <3>6, <3>7 DEF Requests, Commands, Transfers
  <2>16. EventShape' /\ Pending' = Pending
    BY <1>0, <1>1, EventsFrame
  <2>17. EventsInv'
    <3>1. \A i \in Pending : events.trb[i].type = "port"
      BY <1>0, <1>1, OnlyPortEvents DEF Commands, Transfers
    <3> QED BY <1>1, <2>0, <2>16, <3>1 DEF EventsInv, NoEvent
  <2>18. PortsInv'
    BY <1>0, <1>1, <2>0 DEF PortsInv, Quiet
  <2>19. ResetsInv'
    BY <1>0, <1>1, <2>0, ResetsFrame
  <2> QED BY <2>12, <2>13, <2>14, <2>15, <2>16, <2>17, <2>18, <2>19 DEF UsbInv
<1> QED BY <1>2, <1>3

LEMMA HandleAnswerInv == ASSUME UsbInv, HandleAnswer PROVE UsbInv'
<1>0. UsbType /\ Phases /\ RingsInv /\ Requests /\ EventShape /\ EventsInv /\ PortsInv /\ ResetsInv
  BY DEF UsbInv
<1>1. pc \in {"address", "desc", "config"} /\ event # NoEvent /\ UNCHANGED <<rings, events, hc, portsc, rung, sent, got>>
  BY DEF HandleAnswer, hcVars
<1>1a. port \in Ports /\ slot \in Slots /\ slot \in Rings
  BY <1>0, <1>1 DEF UsbType, OnPort, Commands, Transfers
<1>2. CASE NextPort /\ configured \subseteq configured' /\ faulted \subseteq faulted' /\ (port \in faulted' \/ port \in configured')
  BY <1>1, <1>1a, <1>2, NextPortStep DEF OnPort, Commands, Transfers
<1>3. ASSUME Answer.ok, pc # "config" PROVE UsbInv'
  <2>1. UNCHANGED <<faulted, configured, port, slot>> /\ event' = NoEvent
        /\ \/ pc = "address" /\ pc' = "desc" /\ td' = <<"setup", "data", "status">>
           \/ pc = "desc" /\ pc' = "config" /\ td' = <<"setup", "status">>
    BY <1>1, <1>3 DEF HandleAnswer, Request
  <2>2. got[slot] = sent[slot] /\ sent[slot] \in Nat
    <3>1. CASE pc = "address"
      BY <1>0, <1>1a, <3>1 DEF Requests, RingsInv, RingShape
    <3>2. CASE pc = "desc"
      BY <1>0, <1>1, <1>1a, <1>3, <3>2 DEF EventsInv, Answers, Answer, Commands, Transfers, UsbType
    <3> QED BY <1>1, <1>3, <3>1, <3>2
  <2>3. Len(td') = (IF pc' = "desc" THEN 3 ELSE 2) /\ td' \in Tds /\ pc' \in Transfers
    BY <2>1 DEF Tds, Transfers
  <2>4. UsbType'
    BY <1>0, <1>1, <1>1a, <2>1, <2>3, NoEventType DEF UsbType, Quiet, OnPort, Commands, Transfers
  <2>5. Phases'
    BY <1>0, <1>1, <2>1 DEF Phases, Quiet, OnPort, Commands, Transfers
  <2>6. RingsInv' /\ EventShape' /\ Pending' = Pending
    BY <1>0, <1>1, RingsFrame, EventsFrame
  <2>7. Requests'
    <3>1. \A s \in Slots \ hc.halted : ~(got[s] < sent[s])
      BY <1>0, <1>1, <2>2 DEF Requests
    <3>2. ASSUME NEW s \in Slots \ hc.halted, NEW i \in 0 .. kEp0RingSize - 2 PROVE ~(rings[s].trb[i].n > got[s])
      <4>1. RingShape(rings[s], Size(s), hc.deq[s], hc.ccs[s], sent[s], got[s]) /\ Size(s) = kEp0RingSize /\ s \in Rings
        BY <1>0, SizeType DEF RingsInv, Slots, Rings
      <4>2. rings[s].trb[i].n = Number(i, rings[s].enqueue, Size(s), sent[s]) /\ got[s] = sent[s]
            /\ rings[s].enqueue \in 0 .. Size(s) - 2 /\ sent[s] \in Nat /\ rings[s].enqueue <= sent[s]
        BY <4>1, <3>1 DEF RingShape
      <4>3. Number(i, rings[s].enqueue, Size(s), sent[s]) <= sent[s]
        BY <4>1, <4>2, SizeType, NumberStep
      <4>4. Number(i, rings[s].enqueue, Size(s), sent[s]) \in Int
        BY <4>1, <4>2, SizeType DEF Number
      <4> QED BY <4>2, <4>3, <4>4
    <3>3. got[0] = sent[0]
      BY <1>0, <1>1 DEF EventsInv, Answered, Requests, Commands, Transfers
    <3>4. Len(td') <= Stages' /\ sent'[slot'] + Len(td') - Stages' <= got'[slot']
      BY <1>1, <2>1, <2>2, <2>3 DEF Stages
    <3> QED BY <1>0, <1>1, <2>1, <2>3, <3>1, <3>2, <3>3, <3>4 DEF Requests, Commands, Transfers
  <2>8. EventsInv'
    <3>1. \A i \in Pending : events.trb[i].type = "port"
      BY <1>0, <1>1, OnlyPortEvents
    <3> QED BY <1>1, <2>1, <2>6, <3>1 DEF EventsInv, NoEvent
  <2>9. PortsInv'
    BY <1>0, <1>1, <2>1 DEF PortsInv, Quiet
  <2>10. ResetsInv'
    BY <1>0, <1>1, <2>1, ResetsFrame
  <2> QED BY <2>4, <2>5, <2>6, <2>7, <2>8, <2>9, <2>10 DEF UsbInv
<1>4. CASE Answer.ok /\ pc = "config"
  BY <1>2, <1>4 DEF HandleAnswer
<1>5. CASE ~Answer.ok
  BY <1>2, <1>5 DEF HandleAnswer
<1> QED BY <1>3, <1>4, <1>5

LEMMA TdStep ==
  ASSUME NEW t \in Tds, t # <<>>
  PROVE  /\ Head(t) \in TrbTypes /\ Tail(t) \in Tds /\ Len(t) \in 1 .. 3 /\ Len(Tail(t)) = Len(t) - 1
         /\ Head(t) = "status" => Tail(t) = <<>>
<1>1. CASE t = <<"status">>
  BY <1>1 DEF Tds, TrbTypes
<1>2. CASE t = <<"data", "status">>
  <2>1. Tail(t) = <<"status">> /\ Head(t) = "data" /\ Len(t) = 2
    BY <1>2
  <2> QED BY <2>1 DEF Tds, TrbTypes
<1>3. CASE t = <<"setup", "status">>
  <2>1. Tail(t) = <<"status">> /\ Head(t) = "setup" /\ Len(t) = 2
    BY <1>3
  <2> QED BY <2>1 DEF Tds, TrbTypes
<1>4. CASE t = <<"setup", "data", "status">>
  <2>1. Tail(t) = <<"data", "status">> /\ Head(t) = "setup" /\ Len(t) = 3
    BY <1>4
  <2> QED BY <2>1 DEF Tds, TrbTypes
<1> QED BY <1>1, <1>2, <1>3, <1>4 DEF Tds

LEMMA PushTransferInv == ASSUME UsbInv, PushTransfer PROVE UsbInv'
<1>0. UsbType /\ Phases /\ RingsInv /\ Requests /\ EventShape /\ EventsInv /\ PortsInv /\ ResetsInv
  BY DEF UsbInv
<1>1. /\ td # <<>> /\ rings' = [rings EXCEPT ![slot] = Push(rings[slot], slot, Head(td))]
      /\ sent' = [sent EXCEPT ![slot] = sent[slot] + 1] /\ td' = Tail(td)
      /\ UNCHANGED <<pc, port, slot, events, event, hc, portsc, got, faulted, configured>>
  BY DEF PushTransfer
<1>2. pc \in Transfers /\ slot \in Slots /\ slot \in Rings
  BY <1>0, <1>1 DEF Phases, UsbType, Transfers
<1>3. Head(td) \in TrbTypes /\ td' \in Tds /\ Len(td) \in 1 .. 3 /\ Len(td') = Len(td) - 1 /\ (Head(td) = "status" => td' = <<>>)
  <2>1. td \in Tds
    BY <1>0 DEF UsbType
  <2> QED BY <1>1, <2>1, TdStep
<1>4. sent[slot] \in Nat /\ got[slot] \in Nat /\ Len(td) <= Stages /\ sent[slot] + Len(td) - Stages <= got[slot] /\ Stages \in 2 .. 3
      /\ Stages' = Stages
  BY <1>0, <1>1, <1>2 DEF UsbType, Requests, Stages
<1>5. sent[slot] - got[slot] <= Size(slot) - 3 /\ Size(slot) = kEp0RingSize
  BY <1>2, <1>3, <1>4, SizeType
<1>6. RingsInv' /\ DOMAIN rings' = Rings /\ sent' \in [Rings -> Nat] /\ sent'[slot] = sent[slot] + 1
  BY <1>0, <1>1, <1>2, <1>3, <1>5, PushOn
<1>7. \A q \in Rings \ {slot} : rings'[q] = rings[q] /\ sent'[q] = sent[q]
  BY <1>0, <1>1, <1>2, <1>3, <1>5, PushOn
<1>8. OneMore(rings'[slot], rings[slot], Size(slot), Head(td), sent[slot])
  BY <1>0, <1>1, <1>2, <1>3, <1>5, PushOn
<1>9. UsbType'
  <2>1. rung' \in SUBSET Rings
    BY <1>0, <1>2 DEF PushTransfer, UsbType
  <2> QED BY <1>0, <1>1, <1>3, <1>6, <2>1 DEF UsbType
<1>10. Phases'
  BY <1>0, <1>1, <1>2 DEF Phases, Quiet, OnPort, Commands, Transfers
<1>11. Requests'
  <2>0. \A s \in Slots : s \in Rings /\ s # 0
    BY XhciAssumption DEF Slots, Rings
  <2>0a. 0 \in Rings \ {slot}
    BY <1>2, <2>0, XhciAssumption DEF Rings
  <2>1. got[0] = sent[0] /\ sent'[0] = sent[0]
    BY <1>0, <1>2, <1>7, <2>0a DEF Requests, Commands, Transfers
  <2>2. ASSUME NEW s \in Slots \ hc.halted, got'[s] < sent'[s] PROVE s = slot
    BY <1>0, <1>1, <1>7, <2>0, <2>2 DEF Requests
  <2>3. ASSUME NEW s \in Slots \ hc.halted, NEW i \in 0 .. kEp0RingSize - 2,
               rings'[s].trb[i].type = "status", rings'[s].trb[i].n > got'[s]
        PROVE  rings'[s].trb[i].n = sent'[s] /\ td' = <<>>
    <3>1. CASE s = slot
      <4>1. CASE rings'[slot].trb[i] = rings[slot].trb[i]
        BY <1>0, <1>1, <2>3, <3>1, <4>1 DEF Requests
      <4>2. CASE rings'[slot].trb[i].type = Head(td) /\ rings'[slot].trb[i].n = sent[slot] + 1
        BY <1>3, <1>6, <2>3, <3>1, <4>2
      <4> QED BY <1>5, <1>8, <4>1, <4>2 DEF OneMore
    <3>2. CASE s # slot
      <4>1. rings'[s] = rings[s]
        BY <1>7, <2>0, <3>2
      <4> QED BY <1>0, <1>1, <2>3, <4>1 DEF Requests
    <3> QED BY <3>1, <3>2
  <2>4. ASSUME NEW s \in Slots \ hc.slots PROVE sent'[s] = 0
    <3>1. sent[s] = 0
      BY <1>0 DEF Requests
    <3>2. s # slot
      BY <1>0, <1>2 DEF Requests
    <3> QED BY <1>7, <2>0, <3>1, <3>2
  <2>5. Len(td') <= Stages' /\ sent'[slot'] + Len(td') - Stages' <= got'[slot']
    BY <1>1, <1>3, <1>4, <1>6
  <2> QED BY <1>0, <1>1, <1>2, <2>1, <2>2, <2>3, <2>4, <2>5 DEF Requests, Commands, Transfers
<1>12. EventShape' /\ Pending' = Pending
  BY <1>0, <1>1, EventsFrame
<1>13. EventsInv'
  <2>1. event = NoEvent
    BY <1>0, <1>1 DEF EventsInv
  <2>2. ASSUME NEW i \in Pending, events.trb[i].type # "port" PROVE Answers(events.trb[i])' /\ Answered'
    <3>1. Answers(events.trb[i]) /\ Answered
      BY <1>0, <2>2 DEF EventsInv
    <3>2. events.trb[i].type = "transfer" /\ events.trb[i].ring = slot /\ sent[slot] + Len(td) - Stages < events.trb[i].n
          /\ events.trb[i].n <= sent[slot] /\ ~events.trb[i].ok
      BY <1>1, <1>2, <3>1 DEF Answers, Commands, Transfers
    <3>3. slot \in hc.halted
      BY <1>1, <1>2, <3>1 DEF Answered, Commands, Transfers
    <3>4. events.trb[i].n \in Nat
      BY <1>0 DEF UsbType, Pending, EventTrbs
    <3>5. sent'[slot] + Len(td') - Stages < events.trb[i].n /\ events.trb[i].n <= sent'[slot]
      BY <1>3, <1>4, <1>6, <3>2, <3>4, SMTT(30)
    <3> QED BY <1>1, <1>2, <1>4, <3>2, <3>3, <3>5 DEF Answers, Answered
  <2> QED BY <1>0, <1>1, <1>12, <2>1, <2>2 DEF EventsInv, NoEvent
<1>14. PortsInv'
  BY <1>0, <1>1 DEF PortsInv
<1>15. ResetsInv'
  BY <1>0, <1>1, ResetsStay
<1> QED BY <1>6, <1>9, <1>10, <1>11, <1>12, <1>13, <1>14, <1>15 DEF UsbInv

LEMMA WaitEventInv == ASSUME UsbInv, WaitEvent PROVE UsbInv'
<1>0. UsbType /\ Phases /\ RingsInv /\ Requests /\ EventShape /\ EventsInv /\ PortsInv /\ ResetsInv
  BY DEF UsbInv
<1>1. /\ Waiting /\ Arrived /\ events' = Dequeue(events) /\ hc' = [hc EXCEPT !.erdp = events'.dequeue]
      /\ event' = IF events.trb[events.dequeue].type = "port" THEN NoEvent ELSE events.dequeue
      /\ UNCHANGED <<pc, port, slot, td, rings, portsc, rung, sent, got, faulted, configured>>
  BY DEF WaitEvent, historyVars
<1>2. pc \in Commands \cup Transfers /\ td = <<>> /\ event = NoEvent
  BY <1>1 DEF Waiting, Commands, Transfers
<1>3. hc'.st = hc.st /\ hc'.wired = hc.wired /\ hc'.deq = hc.deq /\ hc'.ccs = hc.ccs /\ hc'.enq = hc.enq /\ hc'.pcs = hc.pcs
      /\ hc'.erdp = events'.dequeue /\ hc'.slots = hc.slots /\ hc'.halted = hc.halted /\ hc'.plugged = hc.plugged
  BY <1>0, <1>1 DEF UsbType
<1>4. /\ EventShape'
      /\ events' \in [trb : [EventIndex -> EventTrbs], dequeue : EventIndex, cycle : Bits]
      /\ events'.trb = events.trb
      /\ Pending' = Pending \ {events.dequeue} /\ events.dequeue \in Pending
      /\ events.dequeue = (IF events'.dequeue = 0 THEN kEventRingSize ELSE events'.dequeue) - 1
  BY <1>0, <1>1, <1>3, TakeEvent
<1>5. UsbType'
  <2>1. events'.dequeue \in EventIndex
    BY <1>4
  <2>2. event' \in 0 .. kEventRingSize
    BY <1>0, <1>1, NoEventType, EventRingSize DEF UsbType, EventIndex
  <2> QED BY <1>0, <1>1, <1>4, <2>1, <2>2 DEF UsbType
<1>6. Phases'
  BY <1>0, <1>1, <1>2, <1>3 DEF Phases, Quiet, OnPort, Commands, Transfers
<1>7. RingsInv'
  BY <1>0, <1>1, <1>3, RingsFrame
<1>8. Requests'
  BY <1>0, <1>1, <1>3 DEF Requests, Stages
<1>9. EventsInv'
  <2>1. \A e : Answers(e) => Answers(e)'
    BY <1>1, <1>3 DEF Answers, Stages
  <2>2. Answered => Answered'
    BY <1>1, <1>3 DEF Answered
  <2>3. CASE events.trb[events.dequeue].type = "port"
    BY <1>0, <1>1, <1>2, <1>4, <2>1, <2>2, <2>3 DEF EventsInv, NoEvent
  <2>4. CASE events.trb[events.dequeue].type # "port"
    <3>1. Answers(events.trb[events.dequeue]) /\ Answered
      BY <1>0, <1>4, <2>4 DEF EventsInv
    <3>2. \A i \in Pending' : events'.trb[i].type = "port"
      BY <1>0, <1>4, <2>4 DEF EventsInv
    <3>3. event' = events.dequeue /\ td' = <<>>
      BY <1>1, <1>2, <2>4
    <3> QED BY <1>4, <2>1, <2>2, <3>1, <3>2, <3>3 DEF EventsInv
  <2> QED BY <2>3, <2>4
<1>10. PortsInv'
  BY <1>0, <1>1, <1>3 DEF PortsInv
<1>11. ResetsInv'
  BY <1>0, <1>1, ResetsStay
<1> QED BY <1>4, <1>5, <1>6, <1>7, <1>8, <1>9, <1>10, <1>11 DEF UsbInv

-----------------------------------------------------------------------------
(* Steps of the controller *)

LEMMA HcStatusInv == ASSUME UsbInv, HcStatus PROVE UsbInv'
<1>0. UsbType /\ Phases /\ PortsInv /\ ResetsInv
  BY DEF UsbInv
<1>1. hc.st \in {"halting", "resetting", "notready", "starting"} /\ UNCHANGED <<pc, port, slot, td, rings, events, event, rung, sent, got, faulted, configured>>
  BY DEF HcStatus, HcStep, driverVars, historyVars
<1>2. CASE hc.st = "notready"
  <2>1. PICK P \in SUBSET Ports : hc' = [hc EXCEPT !.st = HcStep[hc.st], !.plugged = P]
                                  /\ portsc' = [p \in Ports |-> [NoPort EXCEPT !.ccs = p \in P \cap hc.wired]]
    BY <1>2 DEF HcStatus
  <2>2. hc' = [hc EXCEPT !.st = "ready", !.plugged = P]
    BY <1>2, <2>1 DEF HcStep
  <2>3. hc'.st = "ready" /\ hc'.wired = hc.wired /\ hc'.deq = hc.deq /\ hc'.ccs = hc.ccs /\ hc'.enq = hc.enq /\ hc'.pcs = hc.pcs
        /\ hc'.erdp = hc.erdp /\ hc'.slots = hc.slots /\ hc'.halted = hc.halted /\ hc'.plugged = P
    BY <1>0, <2>2 DEF UsbType
  <2>4. pc = "reset" /\ hc.wired = Ports /\ port = 1
    BY <1>0, <1>2 DEF Phases, PortsInv, UsbType, Quiet, OnPort, Commands, Transfers
  <2>5. portsc' \in [Ports -> PortRegisters] /\ (\A p \in P : portsc'[p].ccs) /\ \A p \in Ports : ~portsc'[p].pr /\ ~portsc'[p].prc
    <3>1. \A p \in Ports : portsc'[p] = [NoPort EXCEPT !.ccs = p \in P \cap hc.wired]
      BY <2>1
    <3>2. ASSUME NEW p \in Ports, p \in P PROVE portsc'[p] = [ccs |-> TRUE, csc |-> FALSE, ped |-> FALSE, pr |-> FALSE, prc |-> FALSE]
      <4>1. (p \in P \cap hc.wired) = TRUE
        BY <2>4, <3>2
      <4>2. portsc'[p] = [NoPort EXCEPT !.ccs = TRUE]
        BY <3>1, <4>1
      <4> QED BY <4>2 DEF NoPort
    <3>3. ASSUME NEW p \in Ports, p \notin P PROVE portsc'[p] = NoPort
      <4>1. (p \in P \cap hc.wired) = FALSE
        BY <3>3
      <4>2. portsc'[p] = [NoPort EXCEPT !.ccs = FALSE]
        BY <3>1, <4>1
      <4> QED BY <4>2 DEF NoPort
    <3>4. ASSUME NEW p \in Ports PROVE portsc'[p] \in PortRegisters
      <4>1. NoPort \in PortRegisters
        BY DEF PortRegisters, NoPort
      <4>2. [ccs |-> TRUE, csc |-> FALSE, ped |-> FALSE, pr |-> FALSE, prc |-> FALSE] \in PortRegisters
        BY DEF PortRegisters
      <4> QED BY <3>2, <3>3, <4>1, <4>2, Zenon
    <3>5. DOMAIN portsc' = Ports
      BY <2>1
    <3>6. portsc' \in [Ports -> PortRegisters]
      <4> DEFINE F(p) == [NoPort EXCEPT !.ccs = p \in P \cap hc.wired]
      <4>1. portsc' = [p \in Ports |-> F(p)]
        BY <2>1
      <4> HIDE DEF F
      <4> QED BY <3>4, <4>1
    <3>7. ASSUME NEW p \in Ports PROVE ~portsc'[p].pr /\ ~portsc'[p].prc
      BY <3>2, <3>3 DEF NoPort
    <3> QED BY <3>2, <3>6, <3>7
  <2>6. UsbType'
    BY <1>0, <1>1, <2>2, <2>5 DEF UsbType
  <2>7. Phases'
    BY <1>0, <1>1, <2>3, <2>4, <2>5 DEF Phases, Quiet, OnPort, Commands, Transfers
  <2>8. PortsInv'
    <3>1. \A p \in P : ~(p < port)
      BY <2>4 DEF Ports
    <3> QED BY <1>0, <1>1, <2>3, <2>4, <2>5, <3>1 DEF PortsInv
  <2>9. ResetsInv'
    BY <1>1, <2>4, <2>5 DEF ResetsInv
  <2> QED BY <1>1, <2>3, <2>6, <2>7, <2>8, <2>9, CalmStep
<1>3. CASE hc.st # "notready"
  <2>1. hc' = [hc EXCEPT !.st = HcStep[hc.st]] /\ UNCHANGED portsc
    BY <1>3 DEF HcStatus
  <2>2. PICK x : x = HcStep[hc.st]
    OBVIOUS
  <2>3. (hc.st = "halting" => x = "halted") /\ (hc.st = "resetting" => x = "notready") /\ (hc.st = "starting" => x = "running")
    BY <2>2 DEF HcStep
  <2>4. hc' = [hc EXCEPT !.st = x]
    BY <2>1, <2>2
  <2>5. hc'.st = x /\ hc'.wired = hc.wired /\ hc'.deq = hc.deq /\ hc'.ccs = hc.ccs /\ hc'.enq = hc.enq /\ hc'.pcs = hc.pcs
        /\ hc'.erdp = hc.erdp /\ hc'.slots = hc.slots /\ hc'.halted = hc.halted /\ hc'.plugged = hc.plugged
    BY <1>0, <2>4 DEF UsbType
  <2>6. x \in {"halted", "notready", "running"}
    BY <1>1, <1>3, <2>3
  <2>7. UsbType'
    BY <1>0, <1>1, <2>1, <2>4, <2>6 DEF UsbType
  <2>8. Phases'
    BY <1>0, <1>1, <1>3, <2>1, <2>3, <2>5 DEF Phases, Quiet, OnPort, Commands, Transfers
  <2>9. PortsInv'
    BY <1>0, <1>1, <1>3, <2>1, <2>3, <2>5 DEF PortsInv
  <2>10. ResetsInv'
    BY <1>0, <1>1, <2>1, ResetsStay
  <2> QED BY <1>1, <2>5, <2>7, <2>8, <2>9, <2>10, CalmStep
<1> QED BY <1>2, <1>3

LEMMA HcIdleInv == ASSUME UsbInv, NEW r \in Rings, HcIdle(r) PROVE UsbInv'
<1>0. UsbType /\ Phases /\ PortsInv /\ ResetsInv
  BY DEF UsbInv
<1>1. UNCHANGED <<pc, port, slot, td, rings, events, event, hc, portsc, sent, got, faulted, configured>> /\ rung' = rung \ {r}
  BY DEF HcIdle, driverVars, historyVars
<1>2. UsbType'
  BY <1>0, <1>1 DEF UsbType
<1>3. Phases'
  BY <1>0, <1>1 DEF Phases
<1>4. PortsInv'
  BY <1>0, <1>1 DEF PortsInv
<1>5. ResetsInv'
  BY <1>0, <1>1, ResetsStay
<1> QED BY <1>1, <1>2, <1>3, <1>4, <1>5, CalmStep

\* An event of a port, or none, while nothing else happens.
LEMMA PortEventStep ==
  ASSUME UsbInv, NEW p \in Ports, pc \notin Quiet \cup {"halt", "reset"}, HcRoom,
         \/ UNCHANGED <<events, hc>>
         \/ Post("port", 0, p, TRUE, 0) /\ hc' = Posted(hc),
         UNCHANGED <<pc, port, slot, td, rings, event, rung, sent, got, configured>>,
         portsc' \in [Ports -> PortRegisters], faulted \subseteq faulted',
         \A q \in hc.plugged \ faulted' : portsc[q].ccs => portsc'[q].ccs,
         ResetsInv'
  PROVE  UsbInv'
<1>0. UsbType /\ Phases /\ RingsInv /\ Requests /\ EventShape /\ EventsInv /\ PortsInv
  BY DEF UsbInv
<1>1. CASE UNCHANGED <<events, hc>>
  <2>1. UsbType'
    BY <1>0, <1>1 DEF UsbType
  <2>2. Phases'
    BY <1>0, <1>1 DEF Phases
  <2>3. PortsInv'
    BY <1>0, <1>1 DEF PortsInv
  <2> QED BY <1>1, <2>1, <2>2, <2>3, CalmStep
<1>2. CASE Post("port", 0, p, TRUE, 0) /\ hc' = Posted(hc)
  <2>1. hc'.st = hc.st /\ hc'.wired = hc.wired /\ hc'.deq = hc.deq /\ hc'.ccs = hc.ccs
        /\ hc'.enq = Posted(hc).enq /\ hc'.pcs = Posted(hc).pcs
        /\ hc'.erdp = hc.erdp /\ hc'.slots = hc.slots /\ hc'.halted = hc.halted /\ hc'.plugged = hc.plugged
    BY <1>0, <1>2 DEF UsbType, Posted
  <2>2. [cycle |-> hc.pcs, type |-> "port", ring |-> 0, n |-> p, ok |-> TRUE, slot |-> 0] \in EventTrbs
    BY <1>0, XhciAssumption DEF UsbType, EventTrbs, Rings, Ports
  <2>3. /\ EventShape'
        /\ events' \in [trb : [EventIndex -> EventTrbs], dequeue : EventIndex, cycle : Bits]
        /\ hc'.enq \in EventIndex /\ hc'.pcs \in Bits
        /\ Pending' = Pending \cup {hc.enq} /\ hc.enq \notin Pending
        /\ hc.enq # (IF events.dequeue = 0 THEN kEventRingSize ELSE events.dequeue) - 1
        /\ events'.dequeue = events.dequeue
        /\ (\A i \in EventIndex \ {hc.enq} : events'.trb[i] = events.trb[i])
        /\ events'.trb[hc.enq].type = "port"
    BY <1>0, <1>2, <2>1, <2>2, PostShape
  <2>4. UsbType'
    <3>1. hc' = [hc EXCEPT !.enq = hc'.enq, !.pcs = hc'.pcs]
      BY <1>0, <1>2, <2>1 DEF UsbType, Posted
    <3> QED BY <1>0, <2>3, <3>1 DEF UsbType
  <2>5. Phases'
    BY <1>0, <2>1 DEF Phases, UsbType, Quiet
  <2>6. RingsInv'
    BY <1>0, <2>1, RingsFrame
  <2>7. Requests'
    BY <1>0, <2>1 DEF Requests, Stages
  <2>8. EventsInv'
    <3>1. \A e : Answers(e) => Answers(e)'
      BY <2>1 DEF Answers, Stages
    <3>2. Answered => Answered'
      BY <2>1 DEF Answered
    <3>3. \A i \in Pending : i # hc.enq /\ events'.trb[i] = events.trb[i]
      BY <2>3 DEF Pending
    <3>4. event # NoEvent => event \in EventIndex \ {hc.enq}
      BY <1>0, <2>3, EventRingSize DEF EventsInv, UsbType, EventIndex, NoEvent
    <3> QED BY <1>0, <2>3, <3>1, <3>2, <3>3, <3>4 DEF EventsInv, NoEvent
  <2>9. PortsInv'
    BY <1>0, <2>1 DEF PortsInv
  <2> QED BY <2>3, <2>4, <2>5, <2>6, <2>7, <2>8, <2>9 DEF UsbInv
<1> QED BY <1>1, <1>2

LEMMA HcPortResetInv == ASSUME UsbInv, NEW p \in Ports, HcPortReset(p) PROVE UsbInv'
<1>0. UsbType /\ Phases /\ ResetsInv
  BY DEF UsbInv
<1>1. PICK e \in BOOLEAN : /\ portsc' = [portsc EXCEPT ![p].pr = FALSE, ![p].prc = TRUE, ![p].ped = e]
                           /\ faulted' = IF e THEN faulted ELSE faulted \cup {p}
  BY DEF HcPortReset
<1>2. PICK y : y = [portsc[p] EXCEPT !.pr = FALSE, !.prc = TRUE, !.ped = e]
  OBVIOUS
<1>3. y \in PortRegisters /\ y.ccs = portsc[p].ccs /\ ~y.pr /\ y.prc /\ y.ped = e
  <2>1. portsc[p] \in PortRegisters
    BY <1>0 DEF UsbType
  <2> QED BY <1>2, <2>1 DEF PortRegisters
<1>4. portsc' = [portsc EXCEPT ![p] = y]
  BY <1>0, <1>1, <1>2 DEF UsbType
<1>5. /\ portsc' \in [Ports -> PortRegisters] /\ portsc'[p] = y
      /\ \A q \in Ports : portsc'[q].ccs = portsc[q].ccs
      /\ \A q \in Ports \ {p} : portsc'[q] = portsc[q]
  BY <1>0, <1>3, <1>4 DEF UsbType
<1>6. \A q \in hc.plugged \ faulted' : portsc[q].ccs => portsc'[q].ccs
  BY <1>0, <1>5 DEF UsbType
<1>7. HcRoom /\ pc \notin Quiet \cup {"halt", "reset"} /\ portsc[p].pr
  BY <1>0 DEF Phases, HcPortReset
<1>8. /\ \/ UNCHANGED <<events, hc>>
         \/ Post("port", 0, p, TRUE, 0) /\ hc' = Posted(hc)
      /\ UNCHANGED <<pc, port, slot, td, rings, event, rung, sent, got, configured>>
  BY DEF HcPortReset
<1>9. faulted \subseteq faulted' /\ (p \notin faulted' => e)
  BY <1>1
<1>10. ResetsInv'
  <2>1. pc = "prc" /\ p = port
    BY <1>0, <1>7 DEF ResetsInv
  <2>2. \A q \in Ports \ {p} : ~portsc'[q].pr /\ ~portsc'[q].prc
    BY <1>0, <1>5, <2>1 DEF ResetsInv
  <2> QED BY <1>3, <1>5, <1>8, <1>9, <2>1, <2>2 DEF ResetsInv
<1> QED BY <1>5, <1>6, <1>7, <1>8, <1>9, <1>10, PortEventStep

LEMMA HcAnnounceInv == ASSUME UsbInv, NEW p \in Ports, HcAnnounce(p) PROVE UsbInv'
<1>0. UsbType /\ Phases /\ ResetsInv
  BY DEF UsbInv
<1>1. PICK y : y = [portsc[p] EXCEPT !.csc = TRUE]
  OBVIOUS
<1>2. portsc' = [portsc EXCEPT ![p] = y]
  BY <1>0, <1>1 DEF UsbType, HcAnnounce
<1>3. /\ y \in PortRegisters /\ y.ccs = portsc[p].ccs
      /\ y.pr = portsc[p].pr /\ y.prc = portsc[p].prc /\ y.ped = portsc[p].ped
  <2>1. portsc[p] \in PortRegisters
    BY <1>0 DEF UsbType
  <2> QED BY <1>1, <2>1 DEF PortRegisters
<1>4. /\ portsc' \in [Ports -> PortRegisters]
      /\ \A q \in Ports : /\ portsc'[q].ccs = portsc[q].ccs /\ portsc'[q].pr = portsc[q].pr
                          /\ portsc'[q].prc = portsc[q].prc /\ portsc'[q].ped = portsc[q].ped
  BY <1>0, <1>2, <1>3 DEF UsbType
<1>5. \A q \in hc.plugged \ faulted' : portsc[q].ccs => portsc'[q].ccs
  BY <1>0, <1>4 DEF UsbType
<1>6. HcRoom /\ pc \notin Quiet \cup {"halt", "reset"}
  BY <1>0 DEF Phases, HcAnnounce
<1>7. /\ Post("port", 0, p, TRUE, 0) /\ hc' = Posted(hc)
      /\ UNCHANGED <<pc, port, slot, td, rings, event, rung, sent, got, faulted, configured>>
  BY DEF HcAnnounce, historyVars
<1>8. pc = "enabled" => port \in Ports
  BY <1>0 DEF UsbType, OnPort
<1>9. ResetsInv'
  BY <1>0, <1>4, <1>7, <1>8 DEF ResetsInv
<1> QED BY <1>4, <1>5, <1>6, <1>7, <1>9, PortEventStep

LEMMA HcPlugInv == ASSUME UsbInv, NEW p \in Ports, HcPlug(p) PROVE UsbInv'
<1>0. UsbType /\ Phases /\ ResetsInv
  BY DEF UsbInv
<1>0a. portsc[p] \in PortRegisters
  BY <1>0 DEF UsbType
<1>0b. portsc[p].ccs \in BOOLEAN /\ portsc[p].pr \in BOOLEAN /\ portsc[p].prc \in BOOLEAN
  BY <1>0a DEF PortRegisters
<1>1. PICK prc \in {portsc[p].prc, portsc[p].prc \/ portsc[p].pr} :
        portsc' = [portsc EXCEPT ![p] = [ccs |-> ~portsc[p].ccs, csc |-> TRUE, ped |-> FALSE, pr |-> FALSE, prc |-> prc]]
  BY DEF HcPlug
<1>1a. prc \in BOOLEAN /\ (prc => portsc[p].prc \/ portsc[p].pr)
  BY <1>0b, <1>1, Zenon
<1>2. PICK y : y = [ccs |-> ~portsc[p].ccs, csc |-> TRUE, ped |-> FALSE, pr |-> FALSE, prc |-> prc]
  OBVIOUS
<1>3. y \in PortRegisters /\ ~y.pr /\ (y.prc => portsc[p].prc \/ portsc[p].pr)
  <2>1. PICK c \in BOOLEAN : c = ~portsc[p].ccs
    BY <1>0b
  <2>2. y = [ccs |-> c, csc |-> TRUE, ped |-> FALSE, pr |-> FALSE, prc |-> prc]
    BY <1>2, <2>1
  <2>3. y \in PortRegisters
    BY <1>1a, <2>1, <2>2 DEF PortRegisters
  <2> QED BY <1>1a, <2>2, <2>3
<1>4. portsc' = [portsc EXCEPT ![p] = y]
  BY <1>1, <1>2
<1>5. portsc' \in [Ports -> PortRegisters] /\ portsc'[p] = y /\ \A q \in Ports \ {p} : portsc'[q] = portsc[q]
  BY <1>0, <1>3, <1>4 DEF UsbType
<1>6. HcRoom /\ pc \notin Quiet \cup {"halt", "reset"}
  BY <1>0 DEF Phases, HcPlug
<1>7. /\ \/ UNCHANGED <<events, hc>>
         \/ Post("port", 0, p, TRUE, 0) /\ hc' = Posted(hc)
      /\ UNCHANGED <<pc, port, slot, td, rings, event, rung, sent, got, configured>> /\ faulted' = faulted \cup {p}
  BY DEF HcPlug
<1>8. \A q \in hc.plugged \ faulted' : portsc[q].ccs => portsc'[q].ccs
  BY <1>0, <1>5, <1>7 DEF UsbType
<1>9. ResetsInv'
  <2>1. pc = "enabled" => port \in Ports
    BY <1>0 DEF UsbType, OnPort
  <2>2. ~portsc'[p].pr /\ (portsc'[p].prc => pc = "prc" /\ p = port) /\ p \in faulted'
    BY <1>0, <1>3, <1>5, <1>7 DEF ResetsInv
  <2> QED BY <1>0, <1>5, <1>7, <2>1, <2>2 DEF ResetsInv
<1> QED BY <1>5, <1>6, <1>7, <1>8, <1>9, PortEventStep

\* The controller takes an entry of ring r and posts an event about it.
LEMMA PostedFields ==
  ASSUME UsbType, NEW r \in Rings, Look(r) \in Nat, LookCycle(r) \in Bits
  PROVE  /\ Next1(hc, r) = [hc EXCEPT !.deq = [hc.deq EXCEPT ![r] = Look(r) + 1], !.ccs = [hc.ccs EXCEPT ![r] = LookCycle(r)]]
         /\ Posted(Next1(hc, r)).enq = Posted(hc).enq /\ Posted(Next1(hc, r)).pcs = Posted(hc).pcs
         /\ Posted(Next1(hc, r)) = [Next1(hc, r) EXCEPT !.enq = Posted(hc).enq, !.pcs = Posted(hc).pcs]
         /\ [hc.deq EXCEPT ![r] = Look(r) + 1] \in [Rings -> Nat]
         /\ [hc.ccs EXCEPT ![r] = LookCycle(r)] \in [Rings -> Bits]
  BY DEF UsbType, Next1, Posted

\* The entry of ring r is taken; what else of the controller the step changes
\* is its place on the event ring and the sets of slots.
Taken(r) ==
  /\ hc' \in [st : {hc.st}, deq : [Rings -> Nat], ccs : [Rings -> Bits], enq : Nat, pcs : Int, erdp : {hc.erdp},
              slots : SUBSET Slots, halted : SUBSET Slots, wired : {hc.wired}, plugged : {hc.plugged}]
  /\ hc'.deq[r] = Look(r) + 1 /\ hc'.ccs[r] = LookCycle(r)
  /\ \A q \in Rings \ {r} : hc'.deq[q] = hc.deq[q] /\ hc'.ccs[q] = hc.ccs[q]
  /\ hc.slots \subseteq hc'.slots
  /\ got' = [got EXCEPT ![r] = got[r] + 1]
  /\ UNCHANGED <<pc, port, slot, td, rings, event, portsc, rung, sent, faulted, configured>>

LEMMA TakenRings ==
  ASSUME UsbType, RingsInv, NEW r \in Rings, Ready(r), Taken(r)
  PROVE  RingsInv' /\ got' \in [Rings -> Nat] /\ got'[r] = got[r] + 1 /\ \A q \in Rings \ {r} : got'[q] = got[q]
<1>1. RingShape(rings[r], Size(r), Look(r) + 1, LookCycle(r), sent[r], got[r] + 1)
  BY TakeShape DEF RingsInv
<1>2. got' \in [Rings -> Nat] /\ got'[r] = got[r] + 1 /\ \A q \in Rings \ {r} : got'[q] = got[q]
  BY DEF UsbType, Taken
<1>3. RingsInv'
  <2> SUFFICES ASSUME NEW q \in Rings PROVE RingShape(rings'[q], Size(q), hc'.deq[q], hc'.ccs[q], sent'[q], got'[q])
    BY DEF RingsInv
  <2>1. CASE q = r
    BY <1>1, <1>2, <2>1 DEF Taken
  <2>2. CASE q # r
    BY <1>2, <2>2 DEF RingsInv, Taken
  <2> QED BY <2>1, <2>2
<1> QED BY <1>2, <1>3

LEMMA TakenFrame ==
  ASSUME UsbInv, NEW r \in Rings, hc.st = "running", Taken(r)
  PROVE  Phases' /\ PortsInv' /\ ResetsInv'
<1>1. hc'.st = hc.st /\ hc'.wired = hc.wired /\ hc'.plugged = hc.plugged
  BY DEF Taken
<1>2. Phases /\ PortsInv /\ ResetsInv
  BY DEF UsbInv
<1>3. pc \notin Quiet \cup {"halt", "reset"}
  BY <1>2 DEF Phases
<1>4. ResetsInv'
  BY <1>2, ResetsStay DEF Taken
<1> QED BY <1>1, <1>2, <1>3, <1>4 DEF Taken, Phases, PortsInv

\* The controller's answer to the current request goes onto the event ring.
LEMMA AnswerStep ==
  ASSUME UsbType, EventShape, EventsInv, HcRoom, event = NoEvent, UNCHANGED event,
         \A i \in Pending : events.trb[i].type = "port",
         NEW type, NEW r, NEW n, NEW ok, NEW s, Post(type, r, n, ok, s),
         hc'.enq = Posted(hc).enq, hc'.pcs = Posted(hc).pcs, hc'.erdp = hc.erdp,
         [cycle |-> hc.pcs, type |-> type, ring |-> r, n |-> n, ok |-> ok, slot |-> s] \in EventTrbs,
         Answered', \A e : e.type = type /\ e.ring = r /\ e.n = n /\ e.ok = ok /\ e.slot = s => Answers(e)'
  PROVE  /\ EventShape' /\ EventsInv'
         /\ events' \in [trb : [EventIndex -> EventTrbs], dequeue : EventIndex, cycle : Bits]
         /\ hc'.enq \in EventIndex /\ hc'.pcs \in Bits
<1>1. /\ EventShape'
      /\ events' \in [trb : [EventIndex -> EventTrbs], dequeue : EventIndex, cycle : Bits]
      /\ hc'.enq \in EventIndex /\ hc'.pcs \in Bits
      /\ Pending' = Pending \cup {hc.enq} /\ hc.enq \notin Pending
      /\ (\A i \in EventIndex \ {hc.enq} : events'.trb[i] = events.trb[i])
      /\ events'.trb[hc.enq].type = type /\ events'.trb[hc.enq].ring = r /\ events'.trb[hc.enq].n = n
      /\ events'.trb[hc.enq].ok = ok /\ events'.trb[hc.enq].slot = s
  BY PostShape
<1>2. \A i \in Pending : i # hc.enq /\ events'.trb[i].type = "port"
  BY <1>1 DEF Pending
<1>3. \A i : i = hc.enq => Answers(events.trb[i])'
  BY <1>1
<1>4. event' = NoEvent
  OBVIOUS
<1> QED BY <1>1, <1>2, <1>3, <1>4 DEF EventsInv, NoEvent

\* A command is outstanding only while ScanPorts waits for its answer.
LEMMA CommandOutstanding ==
  ASSUME UsbInv, Ready(0)
  PROVE  /\ 0 \in Rings /\ pc \in Commands /\ got[0] + 1 = sent[0] /\ got[0] \in Nat /\ sent[0] \in Nat
         /\ Look(0) \in 0 .. kCmdRingSize - 2 /\ rings[0].trb[Look(0)].n = sent[0]
         /\ rings[0].trb[Look(0)].type = (IF pc = "slot" THEN "enable_slot" ELSE "address_device")
         /\ event = NoEvent /\ (\A i \in Pending : events.trb[i].type = "port")
<1>0. UsbType /\ RingsInv /\ Requests /\ EventsInv
  BY DEF UsbInv
<1>1. 0 \in Rings /\ got[0] \in Nat /\ sent[0] \in Nat /\ Size(0) = kCmdRingSize
  BY <1>0, XhciAssumption DEF UsbType, Rings, Size
<1>2. got[0] < sent[0] /\ Look(0) \in 0 .. Size(0) - 2 /\ rings[0].trb[Look(0)].n = got[0] + 1
  BY <1>0, <1>1, TakeShape DEF RingsInv
<1>3. pc \in Commands /\ sent[0] - got[0] <= 1
  BY <1>0, <1>1, <1>2 DEF Requests
<1>4. got[0] + 1 = sent[0] /\ rings[0].trb[Look(0)].n = sent[0]
  BY <1>1, <1>2, <1>3
<1>5. rings[0].trb[Look(0)].type = (IF pc = "slot" THEN "enable_slot" ELSE "address_device")
  BY <1>0, <1>1, <1>2, <1>3, <1>4 DEF Requests
<1>6. ~Answered
  BY <1>1, <1>2, <1>3 DEF Answered, Commands, Transfers
<1>7. event = NoEvent /\ \A i \in Pending : events.trb[i].type = "port"
  BY <1>0, <1>6 DEF EventsInv
<1> QED BY <1>1, <1>2, <1>3, <1>4, <1>5, <1>7

\* The controller takes a command and answers it.
LEMMA CommandStep ==
  ASSUME UsbInv, hc.st = "running", Ready(0), HcRoom, Taken(0),
         hc'.enq = Posted(hc).enq, hc'.pcs = Posted(hc).pcs, hc'.halted = hc.halted,
         NEW ok \in BOOLEAN, NEW s \in Rings, Post("command", 0, rings[0].trb[Look(0)].n, ok, s),
         pc = "slot" /\ ok => s \in hc'.slots /\ sent[s] = 0
  PROVE  UsbInv'
<1>0. UsbType /\ Phases /\ RingsInv /\ Requests /\ EventShape /\ EventsInv /\ PortsInv
  BY DEF UsbInv
<1>1. /\ 0 \in Rings /\ pc \in Commands /\ got[0] + 1 = sent[0] /\ got[0] \in Nat /\ sent[0] \in Nat
      /\ rings[0].trb[Look(0)].n = sent[0]
      /\ event = NoEvent /\ (\A i \in Pending : events.trb[i].type = "port")
  BY CommandOutstanding
<1>2. UNCHANGED <<pc, port, slot, td, rings, event, portsc, rung, sent, faulted, configured>> /\ hc.slots \subseteq hc'.slots
      /\ hc'.erdp = hc.erdp
  BY DEF Taken
<1>3. RingsInv' /\ got' \in [Rings -> Nat] /\ got'[0] = got[0] + 1 /\ \A q \in Rings \ {0} : got'[q] = got[q]
  BY <1>0, <1>1, TakenRings
<1>4. Phases' /\ PortsInv' /\ ResetsInv'
  BY <1>1, TakenFrame
<1>5. Requests'
  <2>1. \A q \in Slots : got'[q] = got[q]
    BY <1>3 DEF Slots, Rings
  <2>2. got'[0] = sent'[0] /\ sent'[0] - got'[0] <= 1
    BY <1>1, <1>2, <1>3
  <2>3. pc \notin Transfers
    BY <1>1 DEF Commands, Transfers
  <2>4. pc \in Commands => \A i \in 0 .. kCmdRingSize - 2 : rings[0].trb[i].n = sent[0]
              => rings[0].trb[i].type = IF pc = "slot" THEN "enable_slot" ELSE "address_device"
    BY <1>0 DEF Requests
  <2>5. \A q \in Slots \ hc.halted : got[q] < sent[q] => q = slot /\ pc \in Transfers
    BY <1>0 DEF Requests
  <2>6. \A q \in Slots \ hc.halted : \A i \in 0 .. kEp0RingSize - 2 :
          rings[q].trb[i].type = "status" /\ rings[q].trb[i].n > got[q] => rings[q].trb[i].n = sent[q] /\ td = <<>>
    BY <1>0 DEF Requests
  <2>7. (\A q \in Slots \ hc.slots : sent[q] = 0) /\ (pc \in {"address"} \cup Transfers => slot \in hc.slots)
        /\ (pc = "address" => sent[slot] = 0)
    BY <1>0 DEF Requests
  <2> QED BY <1>2, <2>1, <2>2, <2>3, <2>4, <2>5, <2>6, <2>7 DEF Requests
<1>6. Answered'
  BY <1>1, <1>2, <1>3 DEF Answered
<1>7. [cycle |-> hc.pcs, type |-> "command", ring |-> 0, n |-> sent[0], ok |-> ok, slot |-> s] \in EventTrbs
  BY <1>0, <1>1 DEF UsbType, EventTrbs
<1>8. ASSUME NEW e, e.type = "command" /\ e.ring = 0 /\ e.n = sent[0] /\ e.ok = ok /\ e.slot = s PROVE Answers(e)'
  BY <1>1, <1>2, <1>8 DEF Answers
<1>9. /\ EventShape' /\ EventsInv'
      /\ events' \in [trb : [EventIndex -> EventTrbs], dequeue : EventIndex, cycle : Bits]
      /\ hc'.enq \in EventIndex /\ hc'.pcs \in Bits
  BY <1>0, <1>1, <1>2, <1>6, <1>7, <1>8, AnswerStep
<1>10. UsbType'
  BY <1>0, <1>2, <1>3, <1>9 DEF UsbType, Taken
<1> QED BY <1>3, <1>4, <1>5, <1>9, <1>10 DEF UsbInv

LEMMA HcCommandInv == ASSUME UsbInv, HcCommand PROVE UsbInv'
<1> DEFINE trb == rings[0].trb[Look(0)]
           h == Posted(Next1(hc, 0))
           least == CHOOSE x \in Slots \ hc.slots : \A y \in Slots \ hc.slots : x <= y
<1>0. UsbType /\ RingsInv /\ Requests
  BY DEF UsbInv
<1>1. hc.st = "running" /\ Ready(0) /\ HcRoom /\ got' = [got EXCEPT ![0] = got[0] + 1]
      /\ UNCHANGED <<pc, port, slot, td, rings, event, portsc, rung, sent, faulted, configured>>
  BY DEF HcCommand
<1>2. 0 \in Rings /\ pc \in Commands /\ Look(0) \in Nat /\ trb.type = (IF pc = "slot" THEN "enable_slot" ELSE "address_device")
  BY <1>1, CommandOutstanding
<1>3. LookCycle(0) \in Bits
  BY <1>0, <1>2 DEF UsbType, LookCycle, Flip, Bits
<1>4. /\ h \in [st : {hc.st}, deq : [Rings -> Nat], ccs : [Rings -> Bits], enq : Nat, pcs : Int, erdp : {hc.erdp},
                slots : {hc.slots}, halted : {hc.halted}, wired : {hc.wired}, plugged : {hc.plugged}]
      /\ h.enq = Posted(hc).enq /\ h.pcs = Posted(hc).pcs
      /\ h.deq = [hc.deq EXCEPT ![0] = Look(0) + 1] /\ h.ccs = [hc.ccs EXCEPT ![0] = LookCycle(0)]
  <2>1. Posted(hc).enq \in Nat /\ Posted(hc).pcs \in Int
    <3>1. hc.enq \in 0 .. kEventRingSize - 1 /\ hc.pcs \in {0, 1} /\ kEventRingSize \in Nat /\ kEventRingSize > 1
      BY <1>0, EventRingSize DEF UsbType, EventIndex, Bits
    <3>2. Posted(hc).enq = (hc.enq + 1) % kEventRingSize
          /\ Posted(hc).pcs = (IF hc.enq + 1 = kEventRingSize THEN 1 - hc.pcs ELSE hc.pcs)
      BY <1>0 DEF Posted, UsbType, Flip
    <3>3. (hc.enq + 1) % kEventRingSize \in Nat
      BY <3>1
    <3>4. 1 - hc.pcs \in Int /\ hc.pcs \in Int
      BY <3>1
    <3> QED BY <3>2, <3>3, <3>4
  <2>2. /\ Next1(hc, 0) = [hc EXCEPT !.deq = [hc.deq EXCEPT ![0] = Look(0) + 1], !.ccs = [hc.ccs EXCEPT ![0] = LookCycle(0)]]
        /\ h.enq = Posted(hc).enq /\ h.pcs = Posted(hc).pcs
        /\ h = [Next1(hc, 0) EXCEPT !.enq = Posted(hc).enq, !.pcs = Posted(hc).pcs]
        /\ [hc.deq EXCEPT ![0] = Look(0) + 1] \in [Rings -> Nat]
        /\ [hc.ccs EXCEPT ![0] = LookCycle(0)] \in [Rings -> Bits]
    BY <1>0, <1>2, <1>3, PostedFields
  <2> HIDE DEF h
  <2> QED BY <1>0, <2>1, <2>2 DEF UsbType
<1>5. \/ /\ trb.type = "enable_slot" /\ hc.slots # Slots
         /\ Post("command", 0, trb.n, TRUE, least) /\ hc' = [h EXCEPT !.slots = @ \cup {least}]
      \/ /\ trb.type = "address_device"
         /\ Post("command", 0, trb.n, TRUE, slot) /\ hc' = [h EXCEPT !.deq[slot] = 0, !.ccs[slot] = 1]
      \/ Post("command", 0, trb.n, FALSE, 0) /\ hc' = h
  BY DEF HcCommand
<1>6. CASE trb.type = "enable_slot" /\ hc.slots # Slots
           /\ Post("command", 0, trb.n, TRUE, least) /\ hc' = [h EXCEPT !.slots = @ \cup {least}]
  <2>1. least \in Slots \ hc.slots
    <3>1. hc.slots \subseteq Slots
      BY <1>0 DEF UsbType
    <3>2. Slots \ hc.slots # {}
      BY <1>6, <3>1
    <3>3. Slots \ hc.slots \in SUBSET Nat
      BY DEF Slots
    <3>4. \E x \in Slots \ hc.slots : \A y \in Slots \ hc.slots : x <= y
      BY <3>2, <3>3, LeastExists
    <3> QED BY <3>4
  <2>2. least \in Rings /\ sent[least] = 0 /\ least \in Slots
    BY <1>0, <2>1 DEF Requests, Slots, Rings
  <2> HIDE DEF least, h
  <2>3. hc' \in [st : {hc.st}, deq : [Rings -> Nat], ccs : [Rings -> Bits], enq : Nat, pcs : Int, erdp : {hc.erdp},
                 slots : {hc.slots \cup {least}}, halted : {hc.halted}, wired : {hc.wired}, plugged : {hc.plugged}]
        /\ hc'.enq = h.enq /\ hc'.pcs = h.pcs /\ hc'.deq = h.deq /\ hc'.ccs = h.ccs
    BY <1>4, <1>6
  <2>4. Taken(0)
    BY <1>0, <1>1, <1>2, <1>4, <2>2, <2>3 DEF Taken, UsbType
  <2>5. least \in hc'.slots /\ hc'.halted = hc.halted
    BY <2>3
  <2> QED BY <1>1, <1>4, <1>6, <2>2, <2>3, <2>4, <2>5, CommandStep
<1>7. CASE trb.type = "address_device" /\ Post("command", 0, trb.n, TRUE, slot) /\ hc' = [h EXCEPT !.deq[slot] = 0, !.ccs[slot] = 1]
  <2>1. pc = "address" /\ pc # "slot"
    BY <1>2, <1>7 DEF Commands
  <2>2. slot \in Slots /\ slot \in Rings \ {0} /\ sent[slot] = 0
    BY <1>0, <2>1 DEF UsbType, Requests, Slots, Rings
  <2>3. hc.deq[slot] = 0 /\ hc.ccs[slot] = 1
    BY <1>0, <2>2 DEF RingsInv, RingShape
  <2> HIDE DEF h
  <2>4. hc' = [h EXCEPT !.deq = [h.deq EXCEPT ![slot] = 0], !.ccs = [h.ccs EXCEPT ![slot] = 1]]
    BY <1>4, <1>7
  <2>5. [h.deq EXCEPT ![slot] = 0] \in [Rings -> Nat] /\ [h.ccs EXCEPT ![slot] = 1] \in [Rings -> Bits]
    BY <1>4 DEF Bits
  <2>6. hc' \in [st : {hc.st}, deq : [Rings -> Nat], ccs : [Rings -> Bits], enq : Nat, pcs : Int, erdp : {hc.erdp},
                 slots : {hc.slots}, halted : {hc.halted}, wired : {hc.wired}, plugged : {hc.plugged}]
        /\ hc'.enq = h.enq /\ hc'.pcs = h.pcs
        /\ hc'.deq = [h.deq EXCEPT ![slot] = 0] /\ hc'.ccs = [h.ccs EXCEPT ![slot] = 1]
    BY <1>4, <2>4, <2>5
  <2>7. \A q \in Rings : hc'.deq[q] = (IF q = 0 THEN Look(0) + 1 ELSE hc.deq[q]) /\ hc'.ccs[q] = (IF q = 0 THEN LookCycle(0) ELSE hc.ccs[q])
    BY <1>0, <1>2, <1>4, <2>2, <2>3, <2>6 DEF UsbType
  <2>8. Taken(0)
    BY <1>0, <1>1, <1>2, <2>6, <2>7 DEF Taken, UsbType
  <2>9. hc'.halted = hc.halted /\ hc'.enq = Posted(hc).enq /\ hc'.pcs = Posted(hc).pcs
    BY <1>4, <2>6
  <2> QED BY <1>1, <1>7, <2>1, <2>2, <2>8, <2>9, CommandStep
<1>8. CASE Post("command", 0, trb.n, FALSE, 0) /\ hc' = h
  <2> HIDE DEF h
  <2>1. Taken(0)
    BY <1>0, <1>1, <1>2, <1>4, <1>8 DEF Taken, UsbType
  <2>2. hc'.halted = hc.halted /\ hc'.enq = Posted(hc).enq /\ hc'.pcs = Posted(hc).pcs
    BY <1>4, <1>8
  <2> QED BY <1>1, <1>2, <1>8, <2>1, <2>2, CommandStep
<1> QED BY <1>5, <1>6, <1>7, <1>8

\* A stage is outstanding only while ControlTransfer of that slot is on its way.
LEMMA TransferOutstanding ==
  ASSUME UsbInv, NEW s \in Slots, s \notin hc.halted, Ready(s)
  PROVE  /\ s \in Rings \ {0} /\ s = slot /\ pc \in Transfers /\ got[s] \in Nat /\ sent[s] \in Nat /\ got[s] < sent[s]
         /\ Look(s) \in 0 .. kEp0RingSize - 2 /\ rings[s].trb[Look(s)].n = got[s] + 1
         /\ (rings[s].trb[Look(s)].type = "status" => got[s] + 1 = sent[s] /\ td = <<>>)
         /\ event = NoEvent /\ (\A i \in Pending : events.trb[i].type = "port")
<1>0. UsbType /\ RingsInv /\ Requests /\ EventsInv
  BY DEF UsbInv
<1>1. s \in Rings \ {0} /\ got[s] \in Nat /\ sent[s] \in Nat /\ Size(s) = kEp0RingSize
  BY <1>0 DEF UsbType, Rings, Slots, Size
<1>2. got[s] < sent[s] /\ Look(s) \in 0 .. Size(s) - 2 /\ rings[s].trb[Look(s)].n = got[s] + 1
  BY <1>0, <1>1, TakeShape DEF RingsInv
<1>3. s = slot /\ pc \in Transfers
  BY <1>0, <1>2 DEF Requests
<1>4. rings[s].trb[Look(s)].type = "status" => got[s] + 1 = sent[s] /\ td = <<>>
  <2>1. rings[s].trb[Look(s)].n > got[s]
    BY <1>1, <1>2
  <2> QED BY <1>0, <1>1, <1>2, <2>1 DEF Requests
<1>5. ~Answered
  BY <1>1, <1>2, <1>3 DEF Answered, Commands, Transfers
<1>6. event = NoEvent /\ \A i \in Pending : events.trb[i].type = "port"
  BY <1>0, <1>5 DEF EventsInv
<1> QED BY <1>1, <1>2, <1>3, <1>4, <1>6

\* A stage is taken: what that means for the requests.
LEMMA TransferTaken ==
  ASSUME UsbInv, NEW s \in Slots, s \notin hc.halted, Ready(s), hc.st = "running", Taken(s),
         hc'.slots = hc.slots, hc.halted \subseteq hc'.halted
  PROVE  /\ RingsInv' /\ Phases' /\ PortsInv' /\ ResetsInv' /\ Requests' /\ got' \in [Rings -> Nat] /\ got'[s] = got[s] + 1
         /\ UNCHANGED <<pc, port, slot, td, rings, event, portsc, rung, sent, faulted, configured>>
<1>0. UsbType /\ RingsInv /\ Requests
  BY DEF UsbInv
<1>1. s \in Rings \ {0} /\ s = slot /\ pc \in Transfers /\ got[s] \in Nat /\ sent[s] \in Nat
  BY TransferOutstanding
<1>2. UNCHANGED <<pc, port, slot, td, rings, event, portsc, rung, sent, faulted, configured>>
  BY DEF Taken
<1>3. RingsInv' /\ got' \in [Rings -> Nat] /\ got'[s] = got[s] + 1 /\ \A q \in Rings \ {s} : got'[q] = got[q]
  BY <1>0, <1>1, TakenRings
<1>4. Phases' /\ PortsInv' /\ ResetsInv'
  BY <1>1, TakenFrame
<1>5. Requests'
  <2>1. (\A q \in Slots \ {s} : got'[q] = got[q]) /\ got'[0] = got[0]
    BY <1>1, <1>3, XhciAssumption DEF Slots, Rings
  <2>2. pc \notin Commands /\ pc # "address" /\ got[0] = sent[0]
    BY <1>0, <1>1 DEF Commands, Transfers, Requests
  <2>3. \A q \in Slots \ hc'.halted : got'[q] < sent[q] => q = slot /\ pc \in Transfers
    BY <1>0, <1>1, <2>1 DEF Requests
  <2>4. \A q \in Slots \ hc'.halted : \A i \in 0 .. kEp0RingSize - 2 :
          rings[q].trb[i].type = "status" /\ rings[q].trb[i].n > got'[q] => rings[q].trb[i].n = sent[q] /\ td = <<>>
    <3> SUFFICES ASSUME NEW q \in Slots \ hc'.halted, NEW i \in 0 .. kEp0RingSize - 2,
                        rings[q].trb[i].type = "status", rings[q].trb[i].n > got'[q]
                 PROVE  rings[q].trb[i].n = sent[q] /\ td = <<>>
      OBVIOUS
    <3>1. CASE q # s
      BY <1>0, <2>1, <3>1 DEF Requests
    <3>2. CASE q = s
      <4>1. rings[s].trb[i].n \in Nat
        <5>1. RingShape(rings[s], Size(s), hc.deq[s], hc.ccs[s], sent[s], got[s])
          BY <1>0, <1>1 DEF RingsInv
        <5>2. Size(s) = kEp0RingSize /\ Size(s) \in Nat /\ Size(s) >= 5
          BY <1>1, SizeType
        <5>3. rings[s].trb \in [0 .. Size(s) - 1 -> Trbs]
          BY <5>1 DEF RingShape
        <5>4. i \in 0 .. Size(s) - 1
          BY <5>2
        <5>5. rings[s].trb[i] \in Trbs
          BY <5>3, <5>4
        <5> QED BY <5>5 DEF Trbs
      <4>2. rings[s].trb[i].n > got[s]
        BY <1>1, <1>3, <3>2, <4>1
      <4> QED BY <1>0, <3>2, <4>2 DEF Requests
    <3> QED BY <3>1, <3>2
  <2>5. (\A q \in Slots \ hc.slots : sent[q] = 0) /\ slot \in hc.slots
    BY <1>0, <1>1 DEF Requests
  <2>6. Len(td) <= Stages /\ sent[slot] + Len(td) - Stages <= got'[slot]
    <3>1. Len(td) <= Stages /\ sent[slot] + Len(td) - Stages <= got[slot]
      BY <1>0, <1>1 DEF Requests
    <3>2. Len(td) \in Nat /\ Stages \in Nat
      BY <1>0 DEF UsbType, Tds, Stages
    <3> QED BY <1>1, <1>3, <3>1, <3>2
  <2>7. Stages' = Stages
    BY <1>2 DEF Stages
  <2> QED BY <1>1, <1>2, <2>1, <2>2, <2>3, <2>4, <2>5, <2>6, <2>7 DEF Requests
<1> QED BY <1>2, <1>3, <1>4, <1>5

\* ... and it is answered: it was the last one, or there was an error.
LEMMA TransferStep ==
  ASSUME UsbInv, NEW s \in Slots, s \notin hc.halted, Ready(s), HcRoom, hc.st = "running", Taken(s),
         hc'.slots = hc.slots, hc.halted \subseteq hc'.halted,
         hc'.enq = Posted(hc).enq, hc'.pcs = Posted(hc).pcs,
         NEW ok \in BOOLEAN, Post("transfer", s, rings[s].trb[Look(s)].n, ok, s),
         IF ok THEN rings[s].trb[Look(s)].type = "status" ELSE s \in hc'.halted
  PROVE  UsbInv'
<1>0. UsbType /\ Requests /\ EventShape /\ EventsInv
  BY DEF UsbInv
<1>1. /\ s \in Rings \ {0} /\ s = slot /\ pc \in Transfers /\ got[s] \in Nat /\ sent[s] \in Nat /\ got[s] < sent[s]
      /\ rings[s].trb[Look(s)].n = got[s] + 1
      /\ (rings[s].trb[Look(s)].type = "status" => got[s] + 1 = sent[s] /\ td = <<>>)
      /\ event = NoEvent /\ (\A i \in Pending : events.trb[i].type = "port")
  BY TransferOutstanding
<1>2. /\ RingsInv' /\ Phases' /\ PortsInv' /\ ResetsInv' /\ Requests' /\ got' \in [Rings -> Nat] /\ got'[s] = got[s] + 1
      /\ UNCHANGED <<pc, port, slot, td, rings, event, portsc, rung, sent, faulted, configured>>
  BY TransferTaken
<1>3. hc'.erdp = hc.erdp
  BY DEF Taken
<1>4. Answered'
  BY <1>1, <1>2 DEF Answered
<1>5. [cycle |-> hc.pcs, type |-> "transfer", ring |-> s, n |-> got[s] + 1, ok |-> ok, slot |-> s] \in EventTrbs
  <2>1. hc.pcs \in Bits /\ got[s] + 1 \in Nat /\ s \in Rings
    BY <1>0, <1>1 DEF UsbType
  <2> QED BY <2>1 DEF EventTrbs
<1>6. sent[slot] + Len(td) - Stages < got[s] + 1 /\ got[s] + 1 <= sent[slot]
  <2>1. sent[slot] + Len(td) - Stages <= got[slot]
    BY <1>0, <1>1 DEF Requests
  <2>2. Len(td) \in Nat /\ Stages \in Nat
    BY <1>0 DEF UsbType, Tds, Stages
  <2> QED BY <1>1, <2>1, <2>2
<1>7. ASSUME NEW e, e.type = "transfer" /\ e.ring = s /\ e.n = got[s] + 1 /\ e.ok = ok /\ e.slot = s PROVE Answers(e)'
  <2>1. Stages' = Stages
    BY <1>2 DEF Stages
  <2>2. e.ok => got'[slot] = sent[slot] /\ td = <<>>
    BY <1>1, <1>2, <1>7
  <2> QED BY <1>1, <1>2, <1>6, <1>7, <2>1, <2>2 DEF Answers
<1>8. /\ EventShape' /\ EventsInv'
      /\ events' \in [trb : [EventIndex -> EventTrbs], dequeue : EventIndex, cycle : Bits]
      /\ hc'.enq \in EventIndex /\ hc'.pcs \in Bits
  BY <1>0, <1>1, <1>2, <1>3, <1>4, <1>5, <1>7, AnswerStep
<1>9. UsbType'
  BY <1>0, <1>2, <1>8 DEF UsbType, Taken
<1> QED BY <1>2, <1>8, <1>9 DEF UsbInv

LEMMA HcTransferInv == ASSUME UsbInv, NEW s \in Slots, HcTransfer(s) PROVE UsbInv'
<1> DEFINE trb == rings[s].trb[Look(s)]
           n1 == Next1(hc, s)
           h == Posted(n1)
<1>0. UsbType /\ EventShape
  BY DEF UsbInv
<1>1. hc.st = "running" /\ s \notin hc.halted /\ Ready(s) /\ HcRoom /\ got' = [got EXCEPT ![s] = got[s] + 1]
      /\ UNCHANGED <<pc, port, slot, td, rings, event, portsc, rung, sent, faulted, configured>>
  BY DEF HcTransfer
<1>2. s \in Rings /\ Look(s) \in Nat
      /\ event = NoEvent /\ (\A i \in Pending : events.trb[i].type = "port")
  BY <1>1, TransferOutstanding
<1>3. LookCycle(s) \in Bits
  BY <1>0, <1>2 DEF UsbType, LookCycle, Flip, Bits
<1>4. /\ h \in [st : {hc.st}, deq : [Rings -> Nat], ccs : [Rings -> Bits], enq : Nat, pcs : Int, erdp : {hc.erdp},
                slots : {hc.slots}, halted : {hc.halted}, wired : {hc.wired}, plugged : {hc.plugged}]
      /\ h.enq = Posted(hc).enq /\ h.pcs = Posted(hc).pcs
      /\ h.deq = [hc.deq EXCEPT ![s] = Look(s) + 1] /\ h.ccs = [hc.ccs EXCEPT ![s] = LookCycle(s)]
      /\ n1 \in [st : {hc.st}, deq : [Rings -> Nat], ccs : [Rings -> Bits], enq : {hc.enq}, pcs : {hc.pcs}, erdp : {hc.erdp},
                 slots : {hc.slots}, halted : {hc.halted}, wired : {hc.wired}, plugged : {hc.plugged}]
      /\ n1.deq = h.deq /\ n1.ccs = h.ccs
  <2>1. Posted(hc).enq \in Nat /\ Posted(hc).pcs \in Int
    <3>1. hc.enq \in 0 .. kEventRingSize - 1 /\ hc.pcs \in {0, 1} /\ kEventRingSize \in Nat /\ kEventRingSize > 1
      BY <1>0, EventRingSize DEF UsbType, EventIndex, Bits
    <3>2. Posted(hc).enq = (hc.enq + 1) % kEventRingSize
          /\ Posted(hc).pcs = (IF hc.enq + 1 = kEventRingSize THEN 1 - hc.pcs ELSE hc.pcs)
      BY <1>0 DEF Posted, UsbType, Flip
    <3>3. (hc.enq + 1) % kEventRingSize \in Nat
      BY <3>1
    <3>4. 1 - hc.pcs \in Int /\ hc.pcs \in Int
      BY <3>1
    <3> QED BY <3>2, <3>3, <3>4
  <2>2. /\ n1 = [hc EXCEPT !.deq = [hc.deq EXCEPT ![s] = Look(s) + 1], !.ccs = [hc.ccs EXCEPT ![s] = LookCycle(s)]]
        /\ h.enq = Posted(hc).enq /\ h.pcs = Posted(hc).pcs
        /\ h = [n1 EXCEPT !.enq = Posted(hc).enq, !.pcs = Posted(hc).pcs]
        /\ [hc.deq EXCEPT ![s] = Look(s) + 1] \in [Rings -> Nat]
        /\ [hc.ccs EXCEPT ![s] = LookCycle(s)] \in [Rings -> Bits]
    BY <1>0, <1>2, <1>3, PostedFields
  <2> HIDE DEF h, n1
  <2> QED BY <1>0, <2>1, <2>2 DEF UsbType
<1>5. \/ trb.type = "status" /\ Post("transfer", s, trb.n, TRUE, s) /\ hc' = h
      \/ hc' = n1 /\ UNCHANGED events
      \/ Post("transfer", s, trb.n, FALSE, s) /\ hc' = [h EXCEPT !.halted = @ \cup {s}]
  BY DEF HcTransfer
<1>6. CASE trb.type = "status" /\ Post("transfer", s, trb.n, TRUE, s) /\ hc' = h
  <2> HIDE DEF h, n1
  <2>1. Taken(s)
    BY <1>0, <1>1, <1>2, <1>4, <1>6 DEF Taken, UsbType
  <2>2. hc'.slots = hc.slots /\ hc'.halted = hc.halted /\ hc'.enq = Posted(hc).enq /\ hc'.pcs = Posted(hc).pcs
    BY <1>4, <1>6
  <2> QED BY <1>1, <1>6, <2>1, <2>2, TransferStep
<1>7. CASE hc' = n1 /\ UNCHANGED events
  <2> HIDE DEF h, n1
  <2>1. hc.enq \in Nat /\ hc.pcs \in Int
    BY <1>0 DEF UsbType, EventIndex, Bits
  <2>2. Taken(s)
    BY <1>0, <1>1, <1>2, <1>4, <1>7, <2>1 DEF Taken, UsbType
  <2>3. hc'.slots = hc.slots /\ hc'.halted = hc.halted /\ hc'.enq = hc.enq /\ hc'.pcs = hc.pcs /\ hc'.erdp = hc.erdp
    BY <1>4, <1>7
  <2>4. RingsInv' /\ Phases' /\ PortsInv' /\ ResetsInv' /\ Requests' /\ got' \in [Rings -> Nat]
    BY <1>1, <2>2, <2>3, TransferTaken
  <2>5. EventShape' /\ Pending' = Pending
    BY <1>0, <1>7, <2>3, EventsFrame
  <2>6. EventsInv'
    BY <1>1, <1>2, <1>7, <2>5 DEF EventsInv, NoEvent
  <2>7. UsbType'
    BY <1>0, <1>1, <1>4, <1>7, <2>4 DEF UsbType
  <2> QED BY <2>4, <2>5, <2>6, <2>7 DEF UsbInv
<1>8. CASE Post("transfer", s, trb.n, FALSE, s) /\ hc' = [h EXCEPT !.halted = @ \cup {s}]
  <2> HIDE DEF h, n1
  <2>1. hc' \in [st : {hc.st}, deq : [Rings -> Nat], ccs : [Rings -> Bits], enq : Nat, pcs : Int, erdp : {hc.erdp},
                 slots : {hc.slots}, halted : {hc.halted \cup {s}}, wired : {hc.wired}, plugged : {hc.plugged}]
        /\ hc'.enq = h.enq /\ hc'.pcs = h.pcs /\ hc'.deq = h.deq /\ hc'.ccs = h.ccs
    BY <1>4, <1>8
  <2>2. Taken(s)
    BY <1>0, <1>1, <1>2, <1>4, <2>1 DEF Taken, UsbType
  <2>3. hc'.slots = hc.slots /\ s \in hc'.halted /\ hc.halted \subseteq hc'.halted /\ hc'.enq = Posted(hc).enq /\ hc'.pcs = Posted(hc).pcs
    BY <1>4, <2>1
  <2> QED BY <1>1, <1>8, <2>2, <2>3, TransferStep
<1> QED BY <1>5, <1>6, <1>7, <1>8

-----------------------------------------------------------------------------
(* The invariant *)

LEMMA DriverInv == ASSUME UsbInv, Driver PROVE UsbInv'
  BY NextDeviceInv, ReadCapabilityRegistersInv, ResetControllerInv, StartControllerInv, StartedInv, ScanPortInv, ResetPortInv,
     ClearPrcInv, EnableSlotInv, AddressDeviceInv, HandleAnswerInv, PushTransferInv, WaitEventInv, RegisteredInv DEF Driver

LEMMA ControllerInv == ASSUME UsbInv, Controller PROVE UsbInv'
  BY HcStatusInv, HcCommandInv, HcTransferInv, HcIdleInv, HcPortResetInv, HcAnnounceInv, HcPlugInv DEF Controller

\* Elsewhere in the boot sequence nothing of the USB part changes.
LEMMA UsbUnchanged == ASSUME UsbInv, UNCHANGED xhciVars PROVE UsbInv'
<1>0. UsbType /\ Phases /\ RingsInv /\ Requests /\ EventShape /\ EventsInv /\ PortsInv /\ ResetsInv
  BY DEF UsbInv
<1>1. UNCHANGED <<pc, port, slot, td, rings, events, event, hc, portsc, rung, sent, got, faulted, configured>>
  BY DEF xhciVars, driverVars, hcVars, historyVars
<1>2. UsbType' /\ Phases' /\ PortsInv'
  BY <1>0, <1>1 DEF UsbType, Phases, PortsInv
<1>3. ResetsInv'
  BY <1>0, <1>1, ResetsStay
<1> QED BY <1>1, <1>2, <1>3, CalmStep

\* A step of the boot loader or of the firmware, before the kernel is entered.
LEMMA LoaderStep ==
  ASSUME FirmwareEvent \/ Loader
  PROVE  UNCHANGED <<pciVars, xhciVars, pm>> /\ LoaderRuns /\ (boot' = "entry" \/ boot' = "halted" \/ LoaderRuns')
<1>1. CASE FirmwareEvent
  BY <1>1 DEF FirmwareEvent, RestUnchanged, LoaderRuns
<1>2. ASSUME NEW from, NEW to, QueryMap(from, to) PROVE UNCHANGED <<pciVars, xhciVars, pm>> /\ boot = from /\ boot' = to
  BY <1>2 DEF QueryMap, RestUnchanged, Goto
<1>3. ASSUME NEW from, NEW to, FetchMap(from, to)
      PROVE  UNCHANGED <<pciVars, xhciVars, pm>> /\ boot = from /\ boot' \in {to, "halted"}
  BY <1>3 DEF FetchMap, RestUnchanged, Goto, Halt
<1>4. CASE OpenFiles \/ ReadFile \/ AllocateKernel \/ CopyLoadSegments \/ FreeKernelBuffer
  BY <1>4 DEF OpenFiles, ReadFile, AllocateKernel, CopyLoadSegments, FreeKernelBuffer, RestUnchanged, Goto, Halt, LoaderRuns
<1>5. CASE AllocateVolume \/ ReadBlocksChunked \/ CloseLog
  BY <1>5 DEF AllocateVolume, ReadBlocksChunked, CloseLog, RestUnchanged, Goto, Halt, LoaderRuns
<1>6. ASSUME NEW from, NEW otherwise, ExitBootServices(from, otherwise)
      PROVE  UNCHANGED <<pciVars, xhciVars, pm>> /\ boot = from /\ boot' \in {"entry", otherwise}
  BY <1>6 DEF ExitBootServices, RestUnchanged, Goto
<1>7. CASE QueryMap("query1", "fetch1") \/ FetchMap("fetch1", "files") \/ QueryMap("query2", "fetch2") \/ FetchMap("fetch2", "exit2")
  BY <1>2, <1>3, <1>7 DEF LoaderRuns
<1>8. CASE ExitBootServices("exit1", "query2") \/ ExitBootServices("exit2", "halted")
  BY <1>6, <1>8 DEF LoaderRuns
<1> QED BY <1>1, <1>4, <1>5, <1>7, <1>8 DEF Loader

\* The step into usb::Initialize.
LEMMA InitializeUsbInv == ASSUME UsbInv, BeforeUsb, InitializeUsb PROVE UsbInv'
<1>0. UsbType /\ Phases /\ PortsInv /\ ResetsInv
  BY DEF UsbInv
<1>1. pc = "idle" /\ pc' = "devices"
      /\ UNCHANGED <<port, slot, td, rings, events, event, hc, portsc, rung, sent, got, faulted, configured>>
  BY DEF InitializeUsb, BeforeUsb, hcVars, historyVars
<1>2. UsbType'
  BY <1>0, <1>1 DEF UsbType, Quiet, OnPort, Commands, Transfers
<1>3. Phases'
  BY <1>0, <1>1 DEF Phases, Quiet, OnPort, Commands, Transfers
<1>4. PortsInv'
  BY <1>0, <1>1 DEF PortsInv, Quiet
<1>5. ResetsInv'
  BY <1>0, <1>1, ResetsFrame
<1> QED BY <1>1, <1>2, <1>3, <1>4, <1>5, CalmStep DEF Commands, Transfers

\* The inductive step.
LEMMA UsbStep == ASSUME UsbInv, BeforeUsb, [Next]_vars PROVE UsbInv' /\ BeforeUsb'
<1>1. CASE FirmwareEvent \/ Loader
  <2>1. UNCHANGED xhciVars /\ pc' = pc /\ boot \notin {"usb", "running"}
    BY <1>1, LoaderStep DEF LoaderRuns, xhciVars, driverVars
  <2> QED BY <2>1, UsbUnchanged DEF BeforeUsb
<1>2. CASE InitializeKernel \/ InitializePCI \/ InitializeACPI \/ WaitMilliseconds
  <2>1. UNCHANGED xhciVars /\ boot \notin {"usb", "running"}
    BY <1>2 DEF InitializeKernel, InitializePCI, InitializeACPI, WaitMilliseconds, RestUnchanged
  <2>2. pc' = pc
    BY <2>1 DEF xhciVars, driverVars
  <2> QED BY <2>1, <2>2, UsbUnchanged DEF BeforeUsb
<1>3. CASE InitializeUsb
  <2>1. boot' = "usb"
    BY <1>3 DEF InitializeUsb, Goto
  <2> QED BY <1>3, <2>1, InitializeUsbInv DEF BeforeUsb
<1>4. CASE EnterEventLoop
  BY <1>4, UsbUnchanged DEF EnterEventLoop, RestUnchanged, Goto, BeforeUsb
<1>5. CASE Usb
  <2>1. boot' = boot /\ boot = "usb"
    BY <1>5 DEF Usb, loaderVars
  <2> QED BY <1>5, <2>1, DriverInv DEF Usb, BeforeUsb
<1>6. CASE Hardware
  <2>1. boot' = boot /\ boot = "usb"
    BY <1>6 DEF Hardware, loaderVars
  <2> QED BY <1>6, <2>1, ControllerInv DEF Hardware, BeforeUsb
<1>7. CASE UNCHANGED vars
  <2>1. boot' = boot /\ pc' = pc /\ UNCHANGED xhciVars
    BY <1>7 DEF vars, loaderVars, xhciVars, driverVars
  <2> QED BY <2>1, UsbUnchanged DEF BeforeUsb
<1> QED BY <1>1, <1>2, <1>3, <1>4, <1>5, <1>6, <1>7 DEF Next, Kernel

LEMMA UsbInit == ASSUME Init PROVE UsbInv /\ BeforeUsb
<1>1. XhciInit /\ pc = "idle"
  BY DEF Init, XhciInit
<1>2. FreshController
  BY <1>1 DEF XhciInit, FreshController
<1> QED BY <1>1, <1>2, FreshInv DEF Quiet, BeforeUsb

\* The invariant of the USB part holds in every reachable state: of the rings
\* of the driver (PushCommand, PushTransfer, WaitEvent), of the requests of
\* ScanPorts, AddressDevice and ControlTransfer, and of the controller.
THEOREM UsbInvariant == Spec => [](UsbInv /\ BeforeUsb)
<1>1. Init => UsbInv /\ BeforeUsb
  BY UsbInit
<1>2. UsbInv /\ BeforeUsb /\ [Next]_vars => UsbInv' /\ BeforeUsb'
  BY UsbStep
<1> QED BY <1>1, <1>2, PTL DEF Spec

\* On rings of any size, and however often they wrap, the controller finds the
\* TRBs that PushCommand and PushTransfer wrote, in their order and once each.
THEOREM RingFaithfulTheorem == Spec => []RingFaithful
<1>1. UsbInv => RingFaithful
  <2> SUFFICES ASSUME RingsInv PROVE RingFaithful
    BY DEF UsbInv
  <2> QED BY TakeShape DEF RingFaithful, RingsInv
<1> QED BY <1>1, UsbInvariant, PTL

\* What a caller of WaitEvent reads is the answer to its own request, for any
\* number of ports and slots and any interleaving with the controller.
THEOREM AnswerMatchesTheorem == Spec => []AnswerMatches
<1>1. UsbInv => AnswerMatches
  <2> SUFFICES ASSUME UsbInv, event # NoEvent
               PROVE  IF pc \in {"slot", "address"} THEN Answer.type = "command" /\ Answer.n = sent[0]
                      ELSE Answer.type = "transfer" /\ Answer.ring = slot /\ Answer.n \in sent[slot] - Stages + 1 .. sent[slot]
    BY DEF AnswerMatches
  <2>1. UsbType /\ EventsInv
    BY DEF UsbInv
  <2>2. event \in EventIndex
    BY <2>1, NoEventType, EventRingSize DEF UsbType, EventIndex, NoEvent
  <2>3. events.trb[event] \in EventTrbs
    BY <2>1, <2>2 DEF UsbType
  <2>4. Answers(events.trb[event]) /\ td = <<>>
    BY <2>1 DEF EventsInv
  <2>5. Answer.n \in Nat /\ sent[slot] \in Nat /\ Stages \in Nat /\ Len(td) = 0
    BY <2>1, <2>3, <2>4 DEF UsbType, EventTrbs, Answer, Stages
  <2> QED BY <2>4, <2>5 DEF Answers, Answer, Commands, Transfers
<1> QED BY <1>1, UsbInvariant, PTL

\* On a controller whose PED bit a written 1 leaves alone (the emulator's), at
\* the end of ScanPorts every port with a device has been configured, but for
\* those with an error or a plug of their own.  On the others ClearPrc disables
\* every port it writes to and nothing is promised.
THEOREM EnumerationCompleteTheorem == ASSUME ~PedIsW1C PROVE Spec => []EnumerationComplete
<1>1. UsbInv => EnumerationComplete
  <2> SUFFICES ASSUME UsbInv, pc = "port", port \notin Ports, NEW p \in hc.plugged \ faulted PROVE p \in configured
    BY DEF EnumerationComplete
  <2>1. UsbType /\ PortsInv
    BY DEF UsbInv
  <2>2. p \in Ports
    BY <2>1 DEF UsbType
  <2>3. p < port
    BY <2>1, <2>2, XhciAssumption DEF UsbType, Ports
  <2> QED BY <2>1, <2>3 DEF PortsInv
<1> QED BY <1>1, UsbInvariant, PTL

-----------------------------------------------------------------------------
(***************************************************************************)
(* The wait on the power management timer                                  *)
(***************************************************************************)
\* As long as the wait is too short, the timer shows the start plus the ticks
\* that have passed; behind the first loop it has wrapped if it has to.
TimerInv ==
  /\ boot \in {"wrap", "wait"} =>
       /\ pm \in [now : 0 .. TimerModulus - 1, start : 0 .. TimerModulus - 1, waited : 0 .. WaitTicks]
       /\ pm.waited < WaitTicks => pm.now = (pm.start + pm.waited) % TimerModulus
  /\ boot = "wait" /\ pm.waited < WaitTicks /\ pm.start + WaitTicks >= TimerModulus
       => pm.start + pm.waited >= TimerModulus
  /\ WaitLongEnough

\* One read of the timer, t ticks after the last.
LEMMA ReadsStep ==
  ASSUME NEW t \in 1 .. MaxJump, Reads(t),
         pm \in [now : 0 .. TimerModulus - 1, start : 0 .. TimerModulus - 1, waited : 0 .. WaitTicks],
         pm.waited < WaitTicks => pm.now = (pm.start + pm.waited) % TimerModulus
  PROVE  /\ pm' \in [now : 0 .. TimerModulus - 1, start : {pm.start}, waited : 0 .. WaitTicks]
         /\ pm.waited <= pm'.waited
         /\ pm'.waited < WaitTicks => pm'.now = (pm.start + pm'.waited) % TimerModulus
<1> DEFINE M == TimerModulus
           W == WaitTicks
<1>0. M \in Nat /\ W \in Nat /\ W < M /\ t \in Nat /\ t >= 1 /\ pm.now \in 0 .. M - 1 /\ pm.start \in 0 .. M - 1 /\ pm.waited \in 0 .. W
  BY BootAssumption
<1>1. pm' = [pm EXCEPT !.now = (pm.now + t) % M, !.waited = IF pm.waited + t > W THEN W ELSE pm.waited + t]
  BY DEF Reads
<1>2. (pm.now + t) % M \in 0 .. M - 1
  BY <1>0
<1>3. (IF pm.waited + t > W THEN W ELSE pm.waited + t) \in 0 .. W
  BY <1>0
<1>4. pm' \in [now : 0 .. TimerModulus - 1, start : {pm.start}, waited : 0 .. WaitTicks]
      /\ pm'.now = (pm.now + t) % M /\ pm'.waited = IF pm.waited + t > W THEN W ELSE pm.waited + t
  BY <1>0, <1>1, <1>2, <1>3
<1>5. pm.waited <= pm'.waited
  BY <1>0, <1>4
<1>6. ASSUME pm'.waited < W PROVE pm'.now = (pm.start + pm'.waited) % M
  <2>1. pm'.waited = pm.waited + t /\ pm.waited < W
    BY <1>0, <1>4, <1>6
  <2>2. pm.now = IF pm.start + pm.waited < M THEN pm.start + pm.waited ELSE (pm.start + pm.waited) - M
    <3>1. M \in Nat \ {0} /\ pm.start + pm.waited \in 0 .. 2 * M - 1
      BY <1>0
    <3> QED BY <2>1, <3>1, ModSmall
  <2>3. (pm.start + pm'.waited) % M = IF pm.start + pm'.waited < M THEN pm.start + pm'.waited ELSE (pm.start + pm'.waited) - M
    <3>1. M \in Nat \ {0} /\ pm.start + pm'.waited \in 0 .. 2 * M - 1
      BY <1>0, <1>4, <1>6
    <3> QED BY <3>1, ModSmall
  <2>4. (pm.now + t) % M = IF pm.now + t < M THEN pm.now + t ELSE (pm.now + t) - M
    <3>1. M \in Nat \ {0} /\ pm.now + t \in 0 .. 2 * M - 1
      BY <1>0, <1>4, <1>6, <2>1
    <3> QED BY <3>1, ModSmall
  <2>5. pm.now + t = IF pm.start + pm.waited < M THEN pm.start + pm'.waited ELSE (pm.start + pm'.waited) - M
    BY <1>0, <2>1, <2>2
  <2> QED BY <1>0, <1>4, <1>6, <2>1, <2>2, <2>3, <2>4, <2>5
<1> QED BY <1>4, <1>5, <1>6

\* Neither loop ends early, whether the timer wraps during the wait or not.
LEMMA WaitStep == ASSUME TimerInv, WaitMilliseconds PROVE TimerInv'
<1> DEFINE M == TimerModulus
           W == WaitTicks
<1>0. M \in Nat /\ W \in Nat /\ W < M
  BY BootAssumption
<1>1. boot \in {"wrap", "wait"}
      /\ pm \in [now : 0 .. M - 1, start : 0 .. M - 1, waited : 0 .. W]
      /\ (pm.waited < W => pm.now = (pm.start + pm.waited) % M)
  BY DEF TimerInv, WaitMilliseconds
<1>2. end = IF pm.start + W < M THEN pm.start + W ELSE (pm.start + W) - M
  <2>1. M \in Nat \ {0} /\ pm.start + W \in 0 .. 2 * M - 1
    BY <1>0, <1>1
  <2> QED BY <2>1, ModSmall DEF end
<1>3. CASE boot = "wrap" /\ end >= pm.start
  <2>1. boot' = "wait" /\ pm' = pm
    BY <1>3 DEF WaitMilliseconds, Goto
  <2>2. pm.start + W < M
    BY <1>0, <1>1, <1>2, <1>3
  <2> QED BY <1>0, <1>1, <2>1, <2>2 DEF TimerInv, WaitLongEnough
<1>4. CASE ~(boot = "wrap" /\ end >= pm.start)
  <2>1. PICK t \in 1 .. MaxJump : Reads(t)
    BY <1>4 DEF WaitMilliseconds
  <2>2. /\ pm' \in [now : 0 .. M - 1, start : {pm.start}, waited : 0 .. W]
        /\ pm.waited <= pm'.waited
        /\ (pm'.waited < W => pm'.now = (pm.start + pm'.waited) % M)
    BY <1>1, <2>1, ReadsStep
  <2>3. pm'.start = pm.start /\ pm'.now \in 0 .. M - 1 /\ pm'.waited \in 0 .. W /\ pm.start \in 0 .. M - 1 /\ pm.waited \in 0 .. W
    BY <1>1, <2>2
  <2>4. pm'.waited < W => pm'.now = IF pm.start + pm'.waited < M THEN pm.start + pm'.waited ELSE (pm.start + pm'.waited) - M
    <3>1. M \in Nat \ {0} /\ pm.start + pm'.waited \in 0 .. 2 * M - 1
      BY <1>0, <2>3
    <3> QED BY <2>2, <3>1, ModSmall
  <2>5. CASE boot = "wrap"
    <3>1. boot' = IF pm'.now >= pm.start THEN "wrap" ELSE "wait"
      BY <1>4, <2>5 DEF WaitMilliseconds, Goto
    <3>2. boot' = "wait" /\ pm'.waited < W => pm.start + pm'.waited >= M
      BY <1>0, <2>3, <2>4, <3>1
    <3> QED BY <2>2, <2>3, <3>1, <3>2 DEF TimerInv, WaitLongEnough
  <2>6. CASE boot = "wait"
    <3>1. boot' = IF pm'.now < end THEN "wait" ELSE "timers"
      BY <1>4, <2>6 DEF WaitMilliseconds, Goto
    <3>2. pm.waited < W /\ pm.start + W >= M => pm.start + pm.waited >= M
      BY <2>6 DEF TimerInv
    <3>3. pm'.waited < W /\ pm.start + W >= M => pm.start + pm'.waited >= M
      BY <1>0, <2>2, <2>3, <3>2
    <3>4. pm'.waited < W => pm'.now < end
      BY <1>0, <1>2, <2>3, <2>4, <3>3
    <3>5. boot' = "timers" => pm'.waited >= W
      BY <1>0, <2>3, <3>1, <3>4
    <3> QED BY <2>2, <2>3, <3>1, <3>3, <3>5 DEF TimerInv, WaitLongEnough
  <2> QED BY <1>1, <2>5, <2>6
<1> QED BY <1>3, <1>4

\* WaitMilliseconds waits at least as long as it is asked to, for every width
\* of the timer, every start and however seldom the loops read the timer.
THEOREM WaitLongEnoughTheorem == Spec => []WaitLongEnough
<1>1. Init => TimerInv
  BY DEF Init, BootInit, TimerInv, WaitLongEnough
<1>2. ASSUME TimerInv, [Next]_vars PROVE TimerInv'
  <2>1. CASE FirmwareEvent \/ Loader
    <3>1. boot' \notin {"wrap", "wait", "timers", "usb", "running"}
      BY <2>1, LoaderStep DEF LoaderRuns
    <3> QED BY <3>1 DEF TimerInv, WaitLongEnough
  <2>2. CASE InitializeKernel \/ InitializePCI
    <3>1. boot' \notin {"wrap", "wait", "timers", "usb", "running"}
      BY <2>2 DEF InitializeKernel, InitializePCI, Goto, Stop
    <3> QED BY <3>1 DEF TimerInv, WaitLongEnough
  <2>3. CASE InitializeACPI
    <3>1. CASE boot' = "stopped"
      BY <3>1 DEF TimerInv, WaitLongEnough
    <3>2. CASE boot' # "stopped"
      <4>1. PICK t \in 0 .. TimerModulus - 1 : pm' = [now |-> t, start |-> t, waited |-> 0] /\ boot' = "wrap"
        BY <2>3, <3>2 DEF InitializeACPI, Stop, Goto
      <4>2. t = (t + 0) % TimerModulus /\ 0 \in 0 .. WaitTicks
        <5>1. TimerModulus \in Nat \ {0} /\ t + 0 \in 0 .. 2 * TimerModulus - 1 /\ t < TimerModulus
          BY BootAssumption
        <5> QED BY <5>1, ModSmall, BootAssumption
      <4> QED BY <4>1, <4>2 DEF TimerInv, WaitLongEnough
    <3> QED BY <3>1, <3>2
  <2>4. CASE WaitMilliseconds
    BY <1>2, <2>4, WaitStep
  <2>5. CASE InitializeUsb
    BY <1>2, <2>5 DEF InitializeUsb, Goto, TimerInv, WaitLongEnough
  <2>6. CASE EnterEventLoop
    BY <1>2, <2>6 DEF EnterEventLoop, Goto, TimerInv, WaitLongEnough
  <2>7. CASE Usb \/ Hardware \/ UNCHANGED vars
    <3>1. boot' = boot /\ pm' = pm
      BY <2>7 DEF Usb, Hardware, vars, loaderVars
    <3> QED BY <1>2, <3>1 DEF TimerInv, WaitLongEnough
  <2> QED BY <1>2, <2>1, <2>2, <2>3, <2>4, <2>5, <2>6, <2>7 DEF Next, Kernel
<1>3. TimerInv => WaitLongEnough
  BY DEF TimerInv
<1> QED BY <1>1, <1>2, <1>3, PTL DEF Spec

-----------------------------------------------------------------------------
(***************************************************************************)
(* The hand-over from the boot loader to the kernel                        *)
(***************************************************************************)
FrameTypes == {"reserved", "bootdata", "conventional", "loader"}

\* The loader's memory is marked as the loader's, what pages and pool gave it
\* never overlaps, and a map with the current key is the current map.
HeldInv ==
  /\ fw \in [Frames -> FrameTypes] /\ key \in Nat /\ pool \in SUBSET Frames
  /\ held \in [map : SUBSET pool, file : SUBSET pool, kernel : SUBSET Frames, volume : SUBSET Frames]
  /\ \A f \in pool : f \notin held.kernel /\ f \notin held.volume /\ fw[f] = "loader"
  /\ \A f \in held.kernel \cup held.volume : fw[f] = "loader"
  /\ memmap \in [key : Int, types : {memmap.types}, room : {memmap.room}]
  /\ memmap.key <= key
  /\ memmap.key = key => memmap.types = fw

\* The program headers before ph are in memory, and the kernel's frames hold them.
Copying == {"copy", "volume", "chunks", "exit1", "query2", "fetch2", "exit2", "entry"}
InMemory(i, m) ==
  \A o \in 0 .. elf[i].memsz - 1 :
    elf[i].vaddr + o \in Bytes => m[elf[i].vaddr + o] = IF o < elf[i].filesz THEN <<i, o>> ELSE "zero"
CopyInv ==
  /\ elf \in Elfs /\ ph \in Nat \ {0}
  /\ boot \notin Copying => ph = 1
  /\ \A i \in Loads : i < ph => InMemory(i, mem)
  /\ boot \in Copying \ {"copy"} => ph > Len(elf)
  /\ boot \in Copying => held.kernel = KernelFrames /\ KernelFrames \subseteq Frames /\ kernel_first_addr % PageSize = 0

\* The image is the beginning of the volume.
ImageInv ==
  /\ image \in Seq(Nat) /\ \A n \in 1 .. Len(image) : image[n] = n - 1
  /\ offset <= volume_bytes
  /\ boot \in {"exit1", "query2", "fetch2", "exit2", "entry"} => offset >= volume_bytes

HandoffInv == LoaderRuns \/ boot = "entry" => HeldInv /\ CopyInv /\ ImageInv /\ (boot = "entry" => memmap.types = fw)

(* The firmware's services *)

LEMMA AllocatePoolStep ==
  ASSUME HeldInv, NEW f \in Frames, AllocatePool(f)
  PROVE  /\ fw' \in [Frames -> FrameTypes] /\ key' \in Nat /\ pool' \in SUBSET Frames /\ pool' = pool \cup {f}
         /\ (\A g \in pool' : g \notin held.kernel /\ g \notin held.volume /\ fw'[g] = "loader")
         /\ (\A g \in held.kernel \cup held.volume : fw'[g] = "loader")
         /\ key <= key' /\ (key' = key => fw' = fw)
<1>1. f \in pool \cup Conventional /\ pool' = pool \cup {f} /\ fw' = [fw EXCEPT ![f] = "loader"]
      /\ key' = IF f \in pool THEN key ELSE key + 1
  BY DEF AllocatePool
<1>2. f \in Conventional => fw[f] = "conventional"
  BY DEF Conventional
<1>3. f \notin held.kernel /\ f \notin held.volume
  BY <1>1, <1>2 DEF HeldInv
<1>4. fw' \in [Frames -> FrameTypes] /\ fw'[f] = "loader" /\ \A g \in Frames : g # f => fw'[g] = fw[g]
  BY <1>1 DEF HeldInv, FrameTypes
<1>5. held.kernel \subseteq Frames /\ held.volume \subseteq Frames /\ pool \subseteq Frames /\ key \in Nat
  BY DEF HeldInv
<1>6. f \in pool => fw' = fw
  BY <1>1, <1>4 DEF HeldInv
<1> QED BY <1>1, <1>3, <1>4, <1>5, <1>6 DEF HeldInv

LEMMA FreePoolStep ==
  ASSUME HeldInv, NEW frames \in SUBSET pool, NEW others \in SUBSET pool, FreePool(frames, others)
  PROVE  /\ fw' \in [Frames -> FrameTypes] /\ key' \in Nat /\ pool' \in SUBSET Frames /\ others \subseteq pool' /\ pool' \subseteq pool
         /\ (\A g \in pool' : g \notin held.kernel /\ g \notin held.volume /\ fw'[g] = "loader")
         /\ (\A g \in held.kernel \cup held.volume : fw'[g] = "loader")
         /\ key <= key' /\ (key' = key => fw' = fw)
<1>0. held.kernel \subseteq Frames /\ held.volume \subseteq Frames /\ pool \subseteq Frames /\ key \in Nat
  BY DEF HeldInv
<1>1. CASE UNCHANGED <<fw, key, pool>>
  BY <1>0, <1>1 DEF HeldInv
<1>2. CASE /\ fw' = [f \in Frames |-> IF f \in frames \ others THEN "conventional" ELSE fw[f]]
           /\ pool' = pool \ (frames \ others) /\ key' = key + 1
  <2>1. \A f \in Frames : fw'[f] = IF f \in frames \ others THEN "conventional" ELSE fw[f]
    BY <1>2
  <2>2. fw' \in [Frames -> FrameTypes]
    BY <1>2 DEF HeldInv, FrameTypes
  <2> QED BY <1>0, <1>2, <2>1, <2>2 DEF HeldInv
<1> QED BY <1>1, <1>2 DEF FreePool

LEMMA AllocatePagesStep ==
  ASSUME HeldInv, NEW frames, AllocatePages(frames), UNCHANGED pool
  PROVE  /\ frames \in SUBSET Frames
         /\ fw' \in [Frames -> FrameTypes] /\ key' \in Nat
         /\ (\A g \in pool : g \notin held.kernel /\ g \notin held.volume /\ g \notin frames /\ fw'[g] = "loader")
         /\ (\A g \in held.kernel \cup held.volume \cup frames : fw'[g] = "loader")
         /\ key' = key + 1
<1>1. frames \subseteq Conventional /\ fw' = [f \in Frames |-> IF f \in frames THEN "loader" ELSE fw[f]] /\ key' = key + 1
  BY DEF AllocatePages
<1>2. \A f \in Conventional : f \in Frames /\ fw[f] = "conventional"
  BY DEF Conventional
<1>3. \A f \in Frames : fw'[f] = IF f \in frames THEN "loader" ELSE fw[f]
  BY <1>1
<1>4. fw' \in [Frames -> FrameTypes]
  BY <1>1 DEF HeldInv, FrameTypes
<1>5. held.kernel \subseteq Frames /\ held.volume \subseteq Frames /\ pool \subseteq Frames /\ key \in Nat
  BY DEF HeldInv
<1>6. \A g \in pool : g \notin frames
  BY <1>1, <1>2 DEF HeldInv
<1> QED BY <1>1, <1>2, <1>3, <1>4, <1>5, <1>6 DEF HeldInv

(* The memory map *)

\* A step that changes neither the memory nor what the loader has.
LEMMA HeldFrame == ASSUME HeldInv, UNCHANGED <<fw, key, pool, held, memmap>> PROVE HeldInv'
  BY DEF HeldInv

LEMMA FirmwareEventHeld == ASSUME HeldInv, FirmwareEvent PROVE HeldInv'
<1>1. PICK f \in Frames : fw[f] \in {"conventional", "bootdata"}
                          /\ fw' = [fw EXCEPT ![f] = IF fw[f] = "bootdata" THEN "conventional" ELSE "bootdata"]
  BY DEF FirmwareEvent
<1>2. key' = key + 1 /\ UNCHANGED <<pool, memmap, held>>
  BY DEF FirmwareEvent
<1>3. fw' \in [Frames -> FrameTypes] /\ \A g \in Frames : g # f => fw'[g] = fw[g]
  BY <1>1 DEF HeldInv, FrameTypes
<1>4. held.kernel \subseteq Frames /\ held.volume \subseteq Frames /\ pool \subseteq Frames /\ key \in Nat /\ memmap.key \in Int
  BY DEF HeldInv
<1>5. f \notin pool /\ f \notin held.kernel /\ f \notin held.volume
  BY <1>1 DEF HeldInv
<1>6. key' \in Nat /\ memmap'.key <= key' /\ memmap'.key # key'
  BY <1>2, <1>4 DEF HeldInv
<1> QED BY <1>2, <1>3, <1>4, <1>5, <1>6 DEF HeldInv

LEMMA QueryMapHeld == ASSUME HeldInv, NEW from, NEW to, QueryMap(from, to) PROVE HeldInv'
<1>1. FreePool(held.map, held.file) /\ memmap' = [memmap EXCEPT !.room = Descriptors(fw') + 2] /\ held' = [held EXCEPT !.map = {}]
  BY DEF QueryMap
<1>2. held.map \in SUBSET pool /\ held.file \in SUBSET pool
  BY DEF HeldInv
<1>3. /\ fw' \in [Frames -> FrameTypes] /\ key' \in Nat /\ pool' \in SUBSET Frames /\ held.file \subseteq pool'
      /\ (\A g \in pool' : g \notin held.kernel /\ g \notin held.volume /\ fw'[g] = "loader")
      /\ (\A g \in held.kernel \cup held.volume : fw'[g] = "loader")
      /\ key <= key' /\ (key' = key => fw' = fw)
  BY <1>1, <1>2, FreePoolStep
<1>4. held' \in [map : SUBSET pool', file : SUBSET pool', kernel : {held.kernel}, volume : {held.volume}]
  BY <1>1, <1>3 DEF HeldInv
<1>5. memmap' \in [key : {memmap.key}, types : {memmap.types}, room : {memmap'.room}]
  BY <1>1 DEF HeldInv
<1>6. memmap.key \in Int /\ key \in Nat /\ held.kernel \in SUBSET Frames /\ held.volume \in SUBSET Frames
  BY DEF HeldInv
<1>7. memmap'.key <= key' /\ (memmap'.key = key' => memmap'.types = fw')
  BY <1>3, <1>5, <1>6 DEF HeldInv
<1> QED BY <1>3, <1>4, <1>5, <1>6, <1>7 DEF HeldInv

LEMMA FetchMapHeld == ASSUME HeldInv, NEW from, NEW to, FetchMap(from, to) PROVE HeldInv'
<1>1. CASE Halt
  BY <1>1, HeldFrame DEF Halt
<1>2. CASE ~Halt
  <2>1. PICK f \in Frames : /\ AllocatePool(f) /\ held' = [held EXCEPT !.map = {f}]
                            /\ \/ memmap' = [memmap EXCEPT !.key = key', !.types = fw']
                               \/ memmap' = memmap
    BY <1>2 DEF FetchMap
  <2>2. /\ fw' \in [Frames -> FrameTypes] /\ key' \in Nat /\ pool' \in SUBSET Frames /\ pool' = pool \cup {f}
        /\ (\A g \in pool' : g \notin held.kernel /\ g \notin held.volume /\ fw'[g] = "loader")
        /\ (\A g \in held.kernel \cup held.volume : fw'[g] = "loader")
        /\ key <= key' /\ (key' = key => fw' = fw)
    BY <2>1, AllocatePoolStep
  <2>3. held' \in [map : SUBSET pool', file : SUBSET pool', kernel : {held.kernel}, volume : {held.volume}]
    <3>1. held \in [map : SUBSET pool, file : SUBSET pool', kernel : {held.kernel}, volume : {held.volume}] /\ {f} \in SUBSET pool'
      BY <2>2 DEF HeldInv
    <3> QED BY <2>1, <3>1
  <2>4. memmap' \in [key : Int, types : {memmap'.types}, room : {memmap'.room}]
    <3>1. memmap \in [key : Int, types : {memmap.types}, room : {memmap.room}] /\ key' \in Int
      BY <2>2 DEF HeldInv
    <3>2. CASE memmap' = memmap
      BY <3>1, <3>2
    <3>3. CASE memmap' = [memmap EXCEPT !.key = key', !.types = fw']
      <4>1. memmap' \in [key : Int, types : {fw'}, room : {memmap.room}]
        BY <3>1, <3>3
      <4> QED BY <4>1
    <3> QED BY <2>1, <3>2, <3>3
  <2>5. memmap.key \in Int /\ key \in Nat /\ held.kernel \in SUBSET Frames /\ held.volume \in SUBSET Frames
    BY DEF HeldInv
  <2>6. memmap'.key <= key' /\ (memmap'.key = key' => memmap'.types = fw')
    <3>1. CASE memmap' = memmap
      BY <2>2, <2>5, <3>1 DEF HeldInv
    <3>2. CASE memmap' = [memmap EXCEPT !.key = key', !.types = fw']
      <4>1. memmap'.key = key' /\ memmap'.types = fw'
        BY <3>2 DEF HeldInv
      <4> QED BY <4>1, <2>2
    <3> QED BY <2>1, <3>1, <3>2
  <2> QED BY <2>2, <2>3, <2>4, <2>5, <2>6 DEF HeldInv
<1> QED BY <1>1, <1>2

LEMMA ReadFileHeld == ASSUME HeldInv, ReadFile PROVE HeldInv'
<1>1. CASE Halt
  BY <1>1, HeldFrame DEF Halt
<1>2. CASE ~Halt
  <2>1. PICK f \in Frames : AllocatePool(f) /\ held' = [held EXCEPT !.file = {f}] /\ memmap' = memmap
    BY <1>2 DEF ReadFile
  <2>2. /\ fw' \in [Frames -> FrameTypes] /\ key' \in Nat /\ pool' \in SUBSET Frames /\ pool' = pool \cup {f}
        /\ (\A g \in pool' : g \notin held.kernel /\ g \notin held.volume /\ fw'[g] = "loader")
        /\ (\A g \in held.kernel \cup held.volume : fw'[g] = "loader")
        /\ key <= key' /\ (key' = key => fw' = fw)
    BY <2>1, AllocatePoolStep
  <2>3. held' \in [map : SUBSET pool', file : SUBSET pool', kernel : {held.kernel}, volume : {held.volume}]
    <3>1. held \in [map : SUBSET pool', file : SUBSET pool, kernel : {held.kernel}, volume : {held.volume}] /\ {f} \in SUBSET pool'
      BY <2>2 DEF HeldInv
    <3> QED BY <2>1, <3>1
  <2>4. memmap.key \in Int /\ key \in Nat /\ held.kernel \in SUBSET Frames /\ held.volume \in SUBSET Frames
    BY DEF HeldInv
  <2>5. memmap'.key <= key' /\ (memmap'.key = key' => memmap'.types = fw')
    BY <2>1, <2>2, <2>4 DEF HeldInv
  <2> QED BY <2>1, <2>2, <2>3, <2>4, <2>5 DEF HeldInv
<1> QED BY <1>1, <1>2

LEMMA FreeKernelBufferHeld == ASSUME HeldInv, FreeKernelBuffer PROVE HeldInv'
<1>1. FreePool(held.file, held.map) /\ memmap' = memmap /\ held' = [held EXCEPT !.file = {}]
  BY DEF FreeKernelBuffer
<1>2. held.map \in SUBSET pool /\ held.file \in SUBSET pool
  BY DEF HeldInv
<1>3. /\ fw' \in [Frames -> FrameTypes] /\ key' \in Nat /\ pool' \in SUBSET Frames /\ held.map \subseteq pool'
      /\ (\A g \in pool' : g \notin held.kernel /\ g \notin held.volume /\ fw'[g] = "loader")
      /\ (\A g \in held.kernel \cup held.volume : fw'[g] = "loader")
      /\ key <= key' /\ (key' = key => fw' = fw)
  BY <1>1, <1>2, FreePoolStep
<1>4. held' \in [map : SUBSET pool', file : SUBSET pool', kernel : {held.kernel}, volume : {held.volume}]
  BY <1>1, <1>3 DEF HeldInv
<1>6. memmap.key \in Int /\ key \in Nat /\ held.kernel \in SUBSET Frames /\ held.volume \in SUBSET Frames
  BY DEF HeldInv
<1>7. memmap'.key <= key' /\ (memmap'.key = key' => memmap'.types = fw')
  BY <1>1, <1>3, <1>6 DEF HeldInv
<1> QED BY <1>1, <1>3, <1>4, <1>6, <1>7 DEF HeldInv

\* AllocateKernel and AllocateVolume
LEMMA PagesHeld ==
  ASSUME HeldInv, NEW frames, AllocatePages(frames), UNCHANGED <<pool, memmap>>,
         \/ held' = [held EXCEPT !.kernel = frames]
         \/ held' = [held EXCEPT !.volume = frames]
  PROVE  HeldInv'
<1>1. /\ frames \in SUBSET Frames
      /\ fw' \in [Frames -> FrameTypes] /\ key' \in Nat
      /\ (\A g \in pool : g \notin held.kernel /\ g \notin held.volume /\ g \notin frames /\ fw'[g] = "loader")
      /\ (\A g \in held.kernel \cup held.volume \cup frames : fw'[g] = "loader")
      /\ key' = key + 1
  BY AllocatePagesStep
<1>2. held' \in [map : SUBSET pool, file : SUBSET pool, kernel : {held.kernel, frames}, volume : {held.volume, frames}]
  BY DEF HeldInv
<1>3. memmap.key \in Int /\ key \in Nat /\ held.kernel \in SUBSET Frames /\ held.volume \in SUBSET Frames /\ memmap.key <= key
  BY DEF HeldInv
<1>4. memmap'.key <= key' /\ (memmap'.key = key' => memmap'.types = fw')
  BY <1>1, <1>3
<1> QED BY <1>1, <1>2, <1>3, <1>4 DEF HeldInv

LEMMA LoaderHeld ==
  ASSUME HeldInv, FirmwareEvent \/ Loader
  PROVE  HeldInv' /\ (boot' = "entry" => memmap'.types = fw')
<1>1. ASSUME NEW from, NEW otherwise, otherwise # "entry", ExitBootServices(from, otherwise)
      PROVE  HeldInv' /\ (boot' = "entry" => memmap'.types = fw')
  <2>1. UNCHANGED <<fw, key, pool, held, memmap>> /\ (boot' = "entry" => memmap.key = key)
    BY <1>1 DEF ExitBootServices, Goto
  <2> QED BY <2>1, HeldFrame DEF HeldInv
<1>2. CASE QueryMap("query1", "fetch1") \/ QueryMap("query2", "fetch2")
  BY <1>2, QueryMapHeld DEF QueryMap, Goto
<1>3. CASE FetchMap("fetch1", "files") \/ FetchMap("fetch2", "exit2")
  BY <1>3, FetchMapHeld DEF FetchMap, Goto, Halt
<1>4. CASE OpenFiles \/ CopyLoadSegments \/ ReadBlocksChunked \/ CloseLog
  BY <1>4, HeldFrame DEF OpenFiles, CopyLoadSegments, ReadBlocksChunked, CloseLog, Goto, Halt
<1>5. CASE ReadFile
  BY <1>5, ReadFileHeld DEF ReadFile, Goto, Halt
<1>6. CASE FreeKernelBuffer
  BY <1>6, FreeKernelBufferHeld DEF FreeKernelBuffer, Goto
<1>7. CASE AllocateKernel
  <2>1. CASE Halt
    BY <2>1, HeldFrame DEF Halt, Goto
  <2>2. CASE ~Halt
    BY <1>7, <2>2, PagesHeld DEF AllocateKernel, Goto
  <2> QED BY <2>1, <2>2
<1>8. CASE AllocateVolume
  <2>1. CASE Halt
    BY <2>1, HeldFrame DEF Halt, Goto
  <2>2. CASE ~Halt
    <3>1. boot' = "chunks" /\ UNCHANGED <<pool, memmap>>
      BY <1>8, <2>2 DEF AllocateVolume, Goto
    <3>2. PICK frames : AllocatePages(frames) /\ held' = [held EXCEPT !.volume = frames]
      BY <1>8, <2>2 DEF AllocateVolume
    <3> QED BY <3>1, <3>2, PagesHeld
  <2> QED BY <2>1, <2>2
<1>9. CASE FirmwareEvent
  <2>1. boot' # "entry"
    BY <1>9 DEF FirmwareEvent, LoaderRuns
  <2> QED BY <1>9, <2>1, FirmwareEventHeld
<1>10. CASE ExitBootServices("exit1", "query2") \/ ExitBootServices("exit2", "halted")
  BY <1>1, <1>10
<1> QED BY <1>2, <1>3, <1>4, <1>5, <1>6, <1>7, <1>8, <1>9, <1>10 DEF Loader

(* The kernel in memory *)

LEMMA DivMod ==
  ASSUME NEW a \in Nat, NEW b \in Nat \ {0}
  PROVE  /\ a \div b \in Nat /\ a % b \in 0 .. b - 1
         /\ a = b * (a \div b) + (a % b)
OBVIOUS

\* Numbers have a greatest element.
LEMMA GreatestExists ==
  ASSUME NEW n \in Nat, NEW f \in [1 .. n -> Nat], NEW K \in SUBSET (1 .. n), K # {}
  PROVE  \E i \in K : \A j \in K : f[j] <= f[i]
<1> DEFINE Bounded(m) == \E B \in Nat : \A j \in 1 .. m : f[j] <= B
           T == {m \in 0 .. n : ~Bounded(m)}
<1>1. Bounded(n)
  <2> SUFFICES ASSUME ~Bounded(n) PROVE FALSE
    OBVIOUS
  <2>1. n \in T /\ T \in SUBSET Nat
    OBVIOUS
  <2>2. PICK m \in 0 .. n : m \in T /\ \A k \in T : m <= k
    <3>1. T \subseteq 0 .. n
      OBVIOUS
    <3> HIDE DEF T
    <3> QED BY <2>1, <3>1, LeastExists
  <2>3. ~Bounded(m)
    BY <2>2
  <2> HIDE DEF T
  <2>4. m # 0
    <3>1. 0 \in Nat /\ \A j \in 1 .. 0 : f[j] <= 0
      OBVIOUS
    <3>2. Bounded(0)
      BY <3>1
    <3> HIDE DEF Bounded
    <3> QED BY <2>3, <3>2
  <2>5. m - 1 \in 0 .. n /\ ~(m <= m - 1) /\ m \in 1 .. n
    BY <2>4
  <2>6. m - 1 \notin T
    BY <2>2, <2>5
  <2>7. Bounded(m - 1)
    BY <2>5, <2>6 DEF T
  <2>8. PICK B \in Nat : \A j \in 1 .. m - 1 : f[j] <= B
    BY <2>7
  <2>9. PICK v \in Nat : v = f[m]
    BY <2>5
  <2>10. ASSUME NEW j \in 1 .. m PROVE f[j] <= B + v
    <3>1. CASE j = m
      BY <2>9, <3>1
    <3>2. CASE j # m
      <4>1. j \in 1 .. m - 1 /\ j \in 1 .. n
        BY <2>5, <3>2
      <4>2. f[j] <= B /\ f[j] \in Nat
        BY <2>8, <4>1
      <4> QED BY <4>1, <4>2
    <3> QED BY <3>1, <3>2
  <2>11. B + v \in Nat
    OBVIOUS
  <2> QED BY <2>3, <2>10, <2>11
<1> DEFINE U == {u \in Nat : \A j \in K : f[j] <= u}
<1>2. U # {} /\ U \in SUBSET Nat
  BY <1>1
<1>3. PICK u \in U : \A k \in U : u <= k
  <2> HIDE DEF U
  <2> QED BY <1>2, LeastExists
<1>4. \E i \in K : f[i] = u
  <2> SUFFICES ASSUME \A i \in K : f[i] # u PROVE FALSE
    OBVIOUS
  <2>1. u \in Nat /\ \A i \in K : f[i] \in Nat /\ f[i] <= u
    BY <1>3
  <2>2. \A i \in K : f[i] <= u - 1
    BY <2>1
  <2>3. u - 1 \in Nat
    <3>1. PICK i \in K : TRUE
      OBVIOUS
    <3>2. f[i] \in Nat /\ f[i] <= u - 1
      BY <2>1, <2>2
    <3> QED BY <2>1, <3>2
  <2>4. u - 1 \in U /\ ~(u <= u - 1)
    BY <2>1, <2>2, <2>3
  <2> QED BY <1>3, <2>4
<1> QED BY <1>3, <1>4

\* Rounding up to whole pages covers every byte.
LEMMA PageOf ==
  ASSUME NEW P \in Nat \ {0}, NEW a \in Nat, a % P = 0, NEW l \in Nat, NEW b \in Nat, a <= b, b < l
  PROVE  b \div P \in a \div P .. (a \div P) + ((l - a) + P - 1) \div P - 1
<1>1. PICK qa, qb, ql, rb, rl : qa = a \div P /\ qb = b \div P /\ ql = ((l - a) + P - 1) \div P
                                /\ rb = b % P /\ rl = ((l - a) + P - 1) % P
  OBVIOUS
<1>2. qa \in Nat /\ a = P * qa
  BY <1>1, DivMod
<1>3. qb \in Nat /\ rb \in 0 .. P - 1 /\ b = P * qb + rb
  BY <1>1, DivMod
<1>4. ql \in Nat /\ rl \in 0 .. P - 1 /\ (l - a) + P - 1 = P * ql + rl
  <2>1. (l - a) + P - 1 \in Nat
    OBVIOUS
  <2>2. PICK x \in Nat : x = (l - a) + P - 1
    BY <2>1
  <2>3. x \div P \in Nat /\ x % P \in 0 .. P - 1 /\ x = P * (x \div P) + (x % P)
    BY <2>2, DivMod
  <2> QED BY <1>1, <2>2, <2>3
<1>5. P * qb < P * (qa + ql)
  BY <1>2, <1>3, <1>4
<1>6. qb < qa + ql
  BY <1>2, <1>3, <1>4, <1>5
<1>7. P * qa < P * (qb + 1)
  BY <1>2, <1>3
<1>8. qa < qb + 1
  BY <1>2, <1>3, <1>7
<1> QED BY <1>1, <1>2, <1>3, <1>4, <1>6, <1>8

LEMMA ElfType ==
  ASSUME elf \in Elfs
  PROVE  /\ Len(elf) \in Nat /\ DOMAIN elf = 1 .. Len(elf) /\ Loads \in SUBSET (1 .. Len(elf))
         /\ (\A i \in 1 .. Len(elf) : elf[i].vaddr \in Nat /\ elf[i].filesz \in Nat /\ elf[i].memsz \in Nat
                                     /\ elf[i].filesz <= elf[i].memsz)
         /\ (\A i, j \in Loads : i # j => elf[i].vaddr + elf[i].memsz <= elf[j].vaddr
                                          \/ elf[j].vaddr + elf[j].memsz <= elf[i].vaddr)
<1>1. elf \in Seq([load : BOOLEAN, vaddr : Nat, filesz : Nat, memsz : Nat])
  BY ElfAssumption
<1>2. Len(elf) \in Nat /\ DOMAIN elf = 1 .. Len(elf) /\ Loads \in SUBSET (1 .. Len(elf))
      /\ \A i \in 1 .. Len(elf) : elf[i] \in [load : BOOLEAN, vaddr : Nat, filesz : Nat, memsz : Nat]
  <2> DEFINE H == [load : BOOLEAN, vaddr : Nat, filesz : Nat, memsz : Nat]
  <2>1. elf \in Seq(H)
    BY <1>1
  <2> HIDE DEF H
  <2>2. Len(elf) \in Nat /\ DOMAIN elf = 1 .. Len(elf) /\ \A i \in 1 .. Len(elf) : elf[i] \in H
    BY <2>1
  <2>3. Loads \subseteq DOMAIN elf
    BY DEF Loads
  <2> QED BY <2>2, <2>3 DEF H
<1>3. \A i \in 1 .. Len(elf) : elf[i].filesz <= elf[i].memsz
  BY <1>2, ElfAssumption
<1>4. \A i, j \in Loads : i # j => elf[i].vaddr + elf[i].memsz <= elf[j].vaddr
                                   \/ elf[j].vaddr + elf[j].memsz <= elf[i].vaddr
  BY <1>2, ElfAssumption DEF Loads
<1> QED BY <1>2, <1>3, <1>4

\* CalcLoadAddressRange: every segment lies between the two addresses.
LEMMA LoadRange ==
  ASSUME elf \in Elfs, NEW i \in Loads
  PROVE  /\ kernel_first_addr \in Nat /\ kernel_last_addr \in Nat
         /\ kernel_first_addr <= elf[i].vaddr /\ elf[i].vaddr + elf[i].memsz <= kernel_last_addr
<1> DEFINE A == {elf[j].vaddr : j \in Loads}
           Z == {elf[j].vaddr + elf[j].memsz : j \in Loads}
           f == [j \in 1 .. Len(elf) |-> elf[j].vaddr + elf[j].memsz]
<1>0. /\ Len(elf) \in Nat /\ Loads \in SUBSET (1 .. Len(elf))
      /\ (\A j \in 1 .. Len(elf) : elf[j].vaddr \in Nat /\ elf[j].memsz \in Nat)
  BY ElfType
<1>1. \E x \in A : \A y \in A : x <= y
  <2>1. A \in SUBSET Nat /\ A # {}
    BY <1>0
  <2> HIDE DEF A
  <2> QED BY <2>1, LeastExists
<1>2. kernel_first_addr \in A /\ \A y \in A : kernel_first_addr <= y
  <2> HIDE DEF A
  <2>1. Setmin(A) \in A /\ \A y \in A : Setmin(A) <= y
    BY <1>1 DEF Setmin
  <2> QED BY <2>1 DEF kernel_first_addr, A
<1>3. \E x \in Z : \A y \in Z : x >= y
  <2>1. f \in [1 .. Len(elf) -> Nat] /\ Loads # {}
    BY <1>0
  <2>2. PICK k \in Loads : \A j \in Loads : f[j] <= f[k]
    <3> HIDE DEF f
    <3> QED BY <1>0, <2>1, GreatestExists
  <2>3. \A j \in Loads : f[j] = elf[j].vaddr + elf[j].memsz /\ f[j] \in Nat
    BY <1>0
  <2>4. f[k] \in Z
    BY <2>3
  <2>5. \A y \in Z : f[k] >= y
    <3> HIDE DEF f
    <3> QED BY <2>2, <2>3
  <2> QED BY <2>4, <2>5
<1>4. kernel_last_addr \in Z /\ \A y \in Z : kernel_last_addr >= y
  <2> HIDE DEF Z
  <2>1. Setmax(Z) \in Z /\ \A y \in Z : Setmax(Z) >= y
    BY <1>3 DEF Setmax
  <2> QED BY <2>1 DEF kernel_last_addr, Z
<1>5. kernel_first_addr \in Nat /\ kernel_last_addr \in Nat
  BY <1>0, <1>2, <1>4
<1> QED BY <1>0, <1>2, <1>4, <1>5

\* Every byte of a segment is in a page that was allocated for the kernel.
LEMMA KernelHolds ==
  ASSUME elf \in Elfs, NEW i \in Loads, NEW o \in 0 .. elf[i].memsz - 1, kernel_first_addr % PageSize = 0
  PROVE  (elf[i].vaddr + o) \div PageSize + 1 \in KernelFrames /\ elf[i].vaddr + o \in Nat
<1> DEFINE b == elf[i].vaddr + o
           a == kernel_first_addr
           l == kernel_last_addr
<1>1. a \in Nat /\ l \in Nat /\ a <= elf[i].vaddr /\ elf[i].vaddr + elf[i].memsz <= l
  BY LoadRange
<1>2. elf[i].vaddr \in Nat /\ elf[i].memsz \in Nat
  BY ElfType
<1>3. b \in Nat /\ a <= b /\ b < l
  BY <1>1, <1>2
<1>4. PageSize \in Nat \ {0}
  BY BootAssumption
<1> HIDE DEF b, a, l
<1>5. b \div PageSize \in a \div PageSize .. (a \div PageSize) + ((l - a) + PageSize - 1) \div PageSize - 1
  BY <1>1, <1>3, <1>4, PageOf DEF a
<1>6. a \div PageSize \in Nat /\ b \div PageSize \in Nat /\ ((l - a) + PageSize - 1) \div PageSize \in Int
  <2>1. (l - a) + PageSize - 1 \in Nat
    BY <1>1, <1>3, <1>4
  <2>2. PICK x \in Nat : x = (l - a) + PageSize - 1
    BY <2>1
  <2>3. x \div PageSize \in Nat
    BY <1>4, <2>2, DivMod
  <2>4. a \div PageSize \in Nat
    BY <1>1, <1>4, DivMod
  <2>5. b \div PageSize \in Nat
    BY <1>3, <1>4, DivMod
  <2> QED BY <2>2, <2>3, <2>4, <2>5
<1>7. KernelFrames = (a \div PageSize + 1) .. (a \div PageSize + 1) + ((l - a) + PageSize - 1) \div PageSize - 1
  BY DEF KernelFrames, Pages, a, l
<1> QED BY <1>3, <1>5, <1>6, <1>7 DEF b

LEMMA KernelFramesFrame ==
  ASSUME UNCHANGED elf
  PROVE  Loads' = Loads /\ KernelFrames' = KernelFrames /\ kernel_first_addr' = kernel_first_addr
<1>1. Loads' = Loads
  BY DEF Loads
<1>2. kernel_first_addr' = kernel_first_addr /\ kernel_last_addr' = kernel_last_addr
  BY <1>1, Zenon DEF kernel_first_addr, kernel_last_addr
<1>3. KernelFrames' = KernelFrames
  BY <1>2, Zenon DEF KernelFrames, Pages
<1> QED BY <1>1, <1>2, <1>3

\* Neither the program headers nor what was copied changes.
LEMMA CopyFrame ==
  ASSUME CopyInv, UNCHANGED <<elf, ph, mem>>, held'.kernel = held.kernel, boot \in Copying <=> boot' \in Copying,
         boot' \in Copying \ {"copy"} => boot \in Copying \ {"copy"} \/ ph > Len(elf)
  PROVE  CopyInv'
<1>1. Loads' = Loads /\ KernelFrames' = KernelFrames /\ kernel_first_addr' = kernel_first_addr
  BY KernelFramesFrame
<1>2. \A i \in Loads : i < ph => InMemory(i, mem)'
  BY DEF CopyInv, InMemory
<1> QED BY <1>1, <1>2 DEF CopyInv

LEMMA CopyLoadSegmentsInv ==
  ASSUME CopyInv, CopyLoadSegments
  PROVE  CopyInv'
<1>0. elf \in Elfs /\ ph \in Nat \ {0} /\ \A i \in Loads : i < ph => InMemory(i, mem)
  BY DEF CopyInv
<1>1. boot = "copy" /\ ph <= Len(elf) /\ mem' = (IF elf[ph].load THEN Copied(ph, mem) ELSE mem) /\ ph' = ph + 1
      /\ UNCHANGED <<boot, held, elf>>
  BY DEF CopyLoadSegments
<1>2. Loads' = Loads /\ KernelFrames' = KernelFrames /\ kernel_first_addr' = kernel_first_addr
  BY <1>1, KernelFramesFrame
<1>3. /\ Len(elf) \in Nat /\ DOMAIN elf = 1 .. Len(elf) /\ Loads \in SUBSET (1 .. Len(elf))
      /\ (\A i \in 1 .. Len(elf) : elf[i].vaddr \in Nat /\ elf[i].filesz \in Nat /\ elf[i].memsz \in Nat
                                  /\ elf[i].filesz <= elf[i].memsz)
      /\ (\A i, j \in Loads : i # j => elf[i].vaddr + elf[i].memsz <= elf[j].vaddr
                                       \/ elf[j].vaddr + elf[j].memsz <= elf[i].vaddr)
  BY <1>0, ElfType
<1>4. ASSUME NEW i \in Loads, i < ph + 1 PROVE InMemory(i, mem')
  <2> SUFFICES ASSUME NEW o \in 0 .. elf[i].memsz - 1, elf[i].vaddr + o \in Bytes
               PROVE  mem'[elf[i].vaddr + o] = IF o < elf[i].filesz THEN <<i, o>> ELSE "zero"
    BY DEF InMemory
  <2> DEFINE b == elf[i].vaddr + o
  <2>1. i \in 1 .. Len(elf) /\ elf[i].vaddr \in Nat /\ elf[i].filesz \in Nat /\ elf[i].memsz \in Nat /\ o \in Nat /\ b \in Nat
    BY <1>3
  <2>2. CASE ~elf[ph].load
    <3>1. i # ph
      BY <2>2 DEF Loads
    <3>2. i < ph /\ mem' = mem
      BY <1>0, <1>1, <1>4, <2>1, <2>2, <3>1
    <3> QED BY <1>0, <3>2 DEF InMemory
  <2>3. CASE elf[ph].load /\ i = ph
    <3>1. mem'[b] = LET o1 == b - elf[ph].vaddr
                    IN IF o1 \in 0 .. elf[ph].filesz - 1 THEN <<ph, o1>>
                       ELSE IF o1 \in elf[ph].filesz .. elf[ph].memsz - 1 THEN "zero"
                       ELSE mem[b]
      BY <1>1, <2>3 DEF Copied
    <3>2. b - elf[ph].vaddr = o
      BY <2>1, <2>3
    <3>3. mem'[b] = IF o \in 0 .. elf[ph].filesz - 1 THEN <<ph, o>>
                    ELSE IF o \in elf[ph].filesz .. elf[ph].memsz - 1 THEN "zero"
                    ELSE mem[b]
      BY <3>1, <3>2
    <3>4. (o \in 0 .. elf[i].filesz - 1 <=> o < elf[i].filesz) /\ (~(o < elf[i].filesz) => o \in elf[i].filesz .. elf[i].memsz - 1)
      BY <2>1
    <3> QED BY <2>3, <3>3, <3>4
  <2>4. CASE elf[ph].load /\ i # ph
    <3>1. ph \in Loads /\ ph \in 1 .. Len(elf)
      BY <1>0, <1>1, <1>3, <2>4 DEF Loads
    <3>2. elf[ph].vaddr \in Nat /\ elf[ph].filesz \in Nat /\ elf[ph].memsz \in Nat /\ elf[ph].filesz <= elf[ph].memsz
      BY <1>3, <3>1
    <3>3. elf[i].vaddr + elf[i].memsz <= elf[ph].vaddr \/ elf[ph].vaddr + elf[ph].memsz <= elf[i].vaddr
      BY <1>3, <2>4, <3>1
    <3>4. b - elf[ph].vaddr \notin 0 .. elf[ph].memsz - 1
      <4>1. PICK vi, mi, vp, mp \in Nat : vi = elf[i].vaddr /\ mi = elf[i].memsz /\ vp = elf[ph].vaddr /\ mp = elf[ph].memsz
        BY <2>1, <3>2
      <4>2. o \in 0 .. mi - 1 /\ (vi + mi <= vp \/ vp + mp <= vi)
        BY <3>3, <4>1
      <4>3. (vi + o) - vp \notin 0 .. mp - 1
        BY <4>2
      <4> QED BY <4>1, <4>3
    <3>5. b - elf[ph].vaddr \notin 0 .. elf[ph].filesz - 1 /\ b - elf[ph].vaddr \notin elf[ph].filesz .. elf[ph].memsz - 1
      BY <2>1, <3>2, <3>4, SMTT(30)
    <3>6. mem'[b] = mem[b]
      BY <1>1, <2>4, <3>5 DEF Copied
    <3>7. i < ph
      BY <1>0, <1>4, <2>1, <2>4
    <3> QED BY <1>0, <3>6, <3>7 DEF InMemory
  <2> QED BY <2>2, <2>3, <2>4
<1>5. \A i \in Loads' : i < ph' => InMemory(i, mem)'
  BY <1>1, <1>2, <1>4 DEF InMemory
<1>6. ph' \in Nat \ {0}
  BY <1>0, <1>1
<1> QED BY <1>0, <1>1, <1>2, <1>5, <1>6 DEF CopyInv, Copying

LEMMA LoaderCopy ==
  ASSUME HeldInv, CopyInv, FirmwareEvent \/ Loader, boot' # "halted"
  PROVE  CopyInv'
<1>1. CASE CopyLoadSegments
  BY <1>1, CopyLoadSegmentsInv
<1>2. CASE AllocateKernel
  <2>1. held' = [held EXCEPT !.kernel = KernelFrames] /\ boot = "pages" /\ boot' = "copy" /\ UNCHANGED <<elf, ph, mem>>
        /\ KernelFrames \subseteq Conventional /\ kernel_first_addr % PageSize = 0
    BY <1>2 DEF AllocateKernel, AllocatePages, Halt, Goto
  <2>2. held'.kernel = KernelFrames
    BY <2>1 DEF HeldInv
  <2>3. Loads' = Loads /\ KernelFrames' = KernelFrames /\ kernel_first_addr' = kernel_first_addr
    BY <2>1, KernelFramesFrame
  <2>4. ph = 1 /\ elf \in Elfs
    BY <2>1 DEF CopyInv, Copying
  <2>5. \A i \in Loads : ~(i < ph)
    BY <2>4, ElfType
  <2>6. KernelFrames \subseteq Frames
    BY <2>1 DEF Conventional
  <2> QED BY <2>1, <2>2, <2>3, <2>4, <2>5, <2>6 DEF CopyInv, Copying
<1>3. ASSUME NEW from, NEW to, QueryMap(from, to)
      PROVE  UNCHANGED <<elf, ph, mem>> /\ held'.kernel = held.kernel /\ boot = from /\ boot' = to
  BY <1>3 DEF QueryMap, Goto, HeldInv
<1>4. ASSUME NEW from, NEW to, FetchMap(from, to)
      PROVE  UNCHANGED <<elf, ph, mem>> /\ held'.kernel = held.kernel /\ boot = from /\ boot' = to
  <2>1. ~Halt
    BY DEF Halt, Goto
  <2>2. PICK f : held' = [held EXCEPT !.map = {f}]
    BY <1>4, <2>1 DEF FetchMap
  <2>3. UNCHANGED <<elf, ph, mem>> /\ boot = from /\ boot' = to
    BY <1>4, <2>1 DEF FetchMap, Goto
  <2> QED BY <2>2, <2>3 DEF HeldInv
<1>5. ASSUME NEW from, NEW otherwise, ExitBootServices(from, otherwise)
      PROVE  UNCHANGED <<elf, ph, mem>> /\ held'.kernel = held.kernel /\ boot = from /\ boot' \in {"entry", otherwise}
  BY <1>5 DEF ExitBootServices, Goto
<1>6. CASE QueryMap("query1", "fetch1") \/ QueryMap("query2", "fetch2")
  BY <1>3, <1>6, CopyFrame DEF Copying
<1>7. CASE FetchMap("fetch1", "files") \/ FetchMap("fetch2", "exit2")
  BY <1>4, <1>7, CopyFrame DEF Copying
<1>8. CASE ExitBootServices("exit1", "query2") \/ ExitBootServices("exit2", "halted")
  BY <1>5, <1>8, CopyFrame DEF Copying
<1>9. CASE OpenFiles
  <2>1. UNCHANGED <<elf, ph, mem, held>> /\ boot = "files" /\ boot' = "kernel"
    BY <1>9 DEF OpenFiles, Goto, Halt
  <2> QED BY <2>1, CopyFrame DEF Copying
<1>10. CASE ReadFile
  <2>1. UNCHANGED <<elf, ph, mem>> /\ boot = "kernel" /\ boot' = "pages" /\ \E f : held' = [held EXCEPT !.file = {f}]
    BY <1>10 DEF ReadFile, Goto, Halt
  <2>2. held'.kernel = held.kernel
    BY <2>1 DEF HeldInv
  <2> QED BY <2>1, <2>2, CopyFrame DEF Copying
<1>11. CASE FreeKernelBuffer
  <2>1. UNCHANGED <<elf, ph, mem>> /\ boot = "copy" /\ boot' = "volume" /\ ph > Len(elf) /\ held' = [held EXCEPT !.file = {}]
    BY <1>11 DEF FreeKernelBuffer, Goto
  <2>2. held'.kernel = held.kernel
    BY <2>1 DEF HeldInv
  <2> QED BY <2>1, <2>2, CopyFrame DEF Copying
<1>12. CASE AllocateVolume
  <2>1. UNCHANGED <<elf, ph, mem>> /\ boot = "volume" /\ boot' = "chunks" /\ \E frames : held' = [held EXCEPT !.volume = frames]
    BY <1>12 DEF AllocateVolume, Goto, Halt
  <2>2. held'.kernel = held.kernel
    BY <2>1 DEF HeldInv
  <2> QED BY <2>1, <2>2, CopyFrame DEF Copying
<1>13. CASE ReadBlocksChunked \/ CloseLog
  <2>1. UNCHANGED <<elf, ph, mem, held>> /\ boot = "chunks" /\ boot' \in {"chunks", "exit1"}
    BY <1>13 DEF ReadBlocksChunked, CloseLog, Goto, Halt
  <2> QED BY <2>1, CopyFrame DEF Copying
<1>14. CASE FirmwareEvent
  <2>1. UNCHANGED <<elf, ph, mem, held, boot>>
    BY <1>14 DEF FirmwareEvent
  <2> QED BY <2>1, CopyFrame
<1> QED BY <1>1, <1>2, <1>6, <1>7, <1>8, <1>9, <1>10, <1>11, <1>12, <1>13, <1>14 DEF Loader

(* The volume image *)

LEMMA Multiples ==
  ASSUME NEW a \in Int, NEW c \in Int, NEW b \in Nat \ {0}
  PROVE  (a * b < c * b <=> a < c) /\ (a * b <= c * b <=> a <= c)
OBVIOUS

LEMMA MultipleDiv ==
  ASSUME NEW q \in Nat, NEW b \in Nat \ {0}
  PROVE  (q * b) \div b = q
OBVIOUS

\* The volume and the chunks are whole blocks.
LEMMA WholeBlocks ==
  \E V, C \in Nat : volume_bytes = V * BlockSize /\ ChunkSize = C * BlockSize
<1>1. BlockSize \in Nat \ {0} /\ LastBlock \in Nat /\ ChunkSize \in Nat /\ ChunkSize % BlockSize = 0
      /\ MaxVolume \in Nat /\ MaxVolume % BlockSize = 0
  BY BootAssumption
<1>2. PICK C \in Nat : ChunkSize = C * BlockSize
  <2>1. ChunkSize \div BlockSize \in Nat /\ ChunkSize = BlockSize * (ChunkSize \div BlockSize) + (ChunkSize % BlockSize)
    BY <1>1, DivMod
  <2>2. PICK q \in Nat : q = ChunkSize \div BlockSize
    BY <2>1
  <2>3. ChunkSize = q * BlockSize
    BY <1>1, <2>1, <2>2
  <2> QED BY <2>3
<1>3. PICK W \in Nat : MaxVolume = W * BlockSize
  <2>1. MaxVolume \div BlockSize \in Nat /\ MaxVolume = BlockSize * (MaxVolume \div BlockSize) + (MaxVolume % BlockSize)
    BY <1>1, DivMod
  <2>2. PICK q \in Nat : q = MaxVolume \div BlockSize
    BY <2>1
  <2>3. MaxVolume = q * BlockSize
    BY <1>1, <2>1, <2>2
  <2> QED BY <2>3
<1>4. BlockSize * (LastBlock + 1) = (LastBlock + 1) * BlockSize
  BY <1>1
<1>5. volume_bytes = W * BlockSize \/ volume_bytes = (LastBlock + 1) * BlockSize
  BY <1>3, <1>4 DEF volume_bytes
<1>6. LastBlock + 1 \in Nat
  BY <1>1
<1> QED BY <1>2, <1>5, <1>6

\* One turn of ReadBlocksChunked appends the next blocks, and never too many.
LEMMA ReadBlocksChunkedInv ==
  ASSUME ImageInv, ReadBlocksChunked, boot' # "halted"
  PROVE  ImageInv'
<1>1. boot = "chunks" /\ boot' = boot /\ offset < volume_bytes
      /\ image' = image \o [i \in 1 .. read_size \div BlockSize |-> Len(image) + i - 1]
  BY DEF ReadBlocksChunked, Halt, Goto
<1>2. PICK V, C \in Nat : volume_bytes = V * BlockSize /\ ChunkSize = C * BlockSize
  BY WholeBlocks
<1>3. PICK B \in Nat \ {0} : B = BlockSize
  BY BootAssumption
<1>4. PICK L \in Nat : L = Len(image)
  BY DEF ImageInv
<1>5. offset = L * B /\ L < V
  <2>1. offset = L * B
    BY <1>3, <1>4 DEF offset
  <2>2. L * B < V * B
    BY <1>1, <1>2, <1>3, <2>1
  <2> QED BY <2>1, <2>2, Multiples
<1>6. read_size = (IF L + C > V THEN V - L ELSE C) * B
  <2>1. offset + ChunkSize = (L + C) * B /\ volume_bytes - offset = (V - L) * B
    BY <1>2, <1>3, <1>5
  <2>2. (L + C) * B > V * B <=> L + C > V
    BY Multiples
  <2> QED BY <1>2, <1>3, <2>1, <2>2 DEF read_size
<1>7. PICK n \in Nat : n = read_size \div BlockSize /\ L + n <= V
  <2>1. PICK n \in Nat : n = (IF L + C > V THEN V - L ELSE C) /\ L + n <= V
    BY <1>5
  <2>2. read_size = n * B
    BY <1>6, <2>1
  <2>3. (n * B) \div B = n
    BY MultipleDiv
  <2> QED BY <1>3, <2>1, <2>2, <2>3
<1>8. image' \in Seq(Nat) /\ Len(image') = L + n /\ \A k \in 1 .. L + n : image'[k] = k - 1
  <2> DEFINE more == [i \in 1 .. n |-> L + i - 1]
  <2>1. more \in Seq(Nat) /\ Len(more) = n /\ \A i \in 1 .. n : more[i] = L + i - 1
    OBVIOUS
  <2>2. image' = image \o more
    BY <1>1, <1>4, <1>7
  <2>3. image \in Seq(Nat) /\ \A k \in 1 .. L : image[k] = k - 1
    BY <1>4 DEF ImageInv
  <2> HIDE DEF more
  <2>4. image' \in Seq(Nat) /\ Len(image') = L + n
    <3>1. image \o more \in Seq(Nat) /\ Len(image \o more) = Len(image) + Len(more)
      BY <2>1, <2>3, ConcatProperties
    <3> QED BY <1>4, <2>1, <2>2, <3>1
  <2>5. ASSUME NEW k \in 1 .. L + n PROVE image'[k] = k - 1
    <3>1. image'[k] = IF k <= L THEN image[k] ELSE more[k - L]
      BY <1>4, <2>1, <2>2, <2>3
    <3>2. CASE k <= L
      BY <2>3, <3>1, <3>2
    <3>3. CASE ~(k <= L)
      <4>1. k - L \in 1 .. n
        BY <3>3
      <4>2. more[k - L] = L + (k - L) - 1
        BY <2>1, <4>1
      <4> QED BY <3>1, <3>3, <4>2
    <3> QED BY <3>2, <3>3
  <2> QED BY <2>4, <2>5
<1>9. offset' <= volume_bytes'
  <2>1. (L + n) * B <= V * B
    BY <1>7, Multiples
  <2>2. offset' = (L + n) * B
    BY <1>3, <1>8 DEF offset
  <2> QED BY <1>2, <1>3, <2>1, <2>2 DEF volume_bytes
<1> QED BY <1>1, <1>8, <1>9 DEF ImageInv

LEMMA LoaderImage ==
  ASSUME ImageInv, FirmwareEvent \/ Loader, boot' # "halted"
  PROVE  ImageInv'
<1> DEFINE Done == {"exit1", "query2", "fetch2", "exit2", "entry"}
<1>1. CASE ReadBlocksChunked
  BY <1>1, ReadBlocksChunkedInv
<1>2. CASE ~ReadBlocksChunked
  <2>1. ASSUME NEW from, NEW to, QueryMap(from, to) PROVE image' = image /\ boot = from /\ boot' = to
    BY <2>1 DEF QueryMap, Goto
  <2>2. ASSUME NEW from, NEW to, FetchMap(from, to) PROVE image' = image /\ boot = from /\ boot' = to
    BY <2>2 DEF FetchMap, Goto, Halt
  <2>3. ASSUME NEW from, NEW otherwise, ExitBootServices(from, otherwise)
        PROVE  image' = image /\ boot = from /\ boot' \in {"entry", otherwise}
    BY <2>3 DEF ExitBootServices, Goto
  <2>4. CASE QueryMap("query1", "fetch1") \/ QueryMap("query2", "fetch2") \/ FetchMap("fetch1", "files") \/ FetchMap("fetch2", "exit2")
    BY <2>1, <2>2, <2>4 DEF ImageInv, offset, volume_bytes
  <2>5. CASE ExitBootServices("exit1", "query2") \/ ExitBootServices("exit2", "halted")
    BY <2>3, <2>5 DEF ImageInv, offset, volume_bytes
  <2>6. CASE OpenFiles \/ ReadFile \/ AllocateKernel \/ CopyLoadSegments \/ FreeKernelBuffer \/ AllocateVolume
    <3>1. image' = image /\ boot' \notin Done
      BY <2>6 DEF OpenFiles, ReadFile, AllocateKernel, CopyLoadSegments, FreeKernelBuffer, AllocateVolume, Halt, Goto
    <3> QED BY <3>1 DEF ImageInv, offset, volume_bytes
  <2>7. CASE CloseLog
    <3>1. image' = image /\ offset >= volume_bytes
      BY <2>7 DEF CloseLog
    <3> QED BY <3>1 DEF ImageInv, offset, volume_bytes
  <2>8. CASE FirmwareEvent
    <3>1. image' = image /\ boot' = boot
      BY <2>8 DEF FirmwareEvent
    <3> QED BY <3>1 DEF ImageInv, offset, volume_bytes
  <2> QED BY <1>2, <2>4, <2>5, <2>6, <2>7, <2>8 DEF Loader
<1> QED BY <1>1, <1>2

\* The loader's invariant is kept until the kernel takes over.
LEMMA HandoffStep == ASSUME HandoffInv, [Next]_vars PROVE HandoffInv'
<1>1. CASE FirmwareEvent \/ Loader
  <2>1. LoaderRuns /\ HeldInv /\ CopyInv /\ ImageInv
    BY <1>1, LoaderStep DEF HandoffInv
  <2>2. CASE boot' = "halted"
    BY <2>2 DEF HandoffInv, LoaderRuns
  <2>3. CASE boot' # "halted"
    BY <1>1, <2>1, <2>3, LoaderHeld, LoaderCopy, LoaderImage DEF HandoffInv
  <2> QED BY <2>2, <2>3
<1>2. CASE Kernel
  <2>1. boot' \notin {"query1", "fetch1", "files", "kernel", "pages", "copy", "volume", "chunks", "exit1",
                      "query2", "fetch2", "exit2", "entry"}
    BY <1>2 DEF Kernel, InitializeKernel, InitializePCI, InitializeACPI, WaitMilliseconds, InitializeUsb, EnterEventLoop, Goto, Stop
  <2> QED BY <2>1 DEF HandoffInv, LoaderRuns
<1>3. CASE Usb \/ Hardware
  <2>1. boot' = "usb"
    BY <1>3 DEF Usb, Hardware, loaderVars
  <2> QED BY <2>1 DEF HandoffInv, LoaderRuns
<1>4. CASE UNCHANGED vars
  <2>1. UNCHANGED <<boot, fw, key, pool, memmap, held, elf, ph, mem, image>>
    BY <1>4 DEF vars, loaderVars
  <2>2. HeldInv => HeldInv'
    BY <2>1, HeldFrame
  <2>3. CopyInv => CopyInv'
    BY <2>1, CopyFrame
  <2>4. ImageInv => ImageInv'
    BY <2>1 DEF ImageInv, offset, volume_bytes
  <2> QED BY <2>1, <2>2, <2>3, <2>4 DEF HandoffInv, LoaderRuns
<1> QED BY <1>1, <1>2, <1>3, <1>4 DEF Next

LEMMA HandoffInit == ASSUME Init PROVE HandoffInv
<1>1. BootInit
  BY DEF Init
<1>2. HeldInv
  <2>1. fw \in [Frames -> FrameTypes]
    BY <1>1 DEF BootInit, FrameTypes
  <2>2. key = 0 /\ pool = {} /\ memmap = NoMap /\ held = NothingHeld
    BY <1>1 DEF BootInit
  <2>3. memmap = [key |-> -1, types |-> <<>>, room |-> 0]
    BY <2>2 DEF NoMap
  <2>4. held \in [map : SUBSET pool, file : SUBSET pool, kernel : {{}}, volume : {{}}]
    BY <2>2 DEF NothingHeld
  <2>5. memmap \in [key : {-1}, types : {memmap.types}, room : {memmap.room}]
    BY <2>3
  <2> QED BY <2>1, <2>2, <2>4, <2>5 DEF HeldInv
<1>3. CopyInv
  <2>1. elf \in Elfs /\ ph = 1 /\ boot = "query1"
    BY <1>1 DEF BootInit
  <2>2. \A i \in Loads : ~(i < ph)
    BY <2>1, ElfType
  <2> QED BY <2>1, <2>2 DEF CopyInv, Copying
<1>4. ImageInv
  <2>1. image = <<>> /\ boot = "query1"
    BY <1>1 DEF BootInit
  <2>2. PICK V, C \in Nat : volume_bytes = V * BlockSize /\ ChunkSize = C * BlockSize
    BY WholeBlocks
  <2>3. Len(image) = 0 /\ image \in Seq(Nat) /\ BlockSize \in Nat
    BY <2>1, BootAssumption
  <2>4. offset <= volume_bytes
    BY <2>2, <2>3 DEF offset
  <2> QED BY <2>1, <2>3, <2>4 DEF ImageInv
<1>5. boot = "query1"
  BY <1>1 DEF BootInit
<1> QED BY <1>2, <1>3, <1>4, <1>5 DEF HandoffInv

\* The hand-over is sound for every machine, kernel file and volume: the map
\* that UefiMain passes on is the last one of the firmware, the frames in use
\* are not available in it, and the kernel and the volume are complete.
THEOREM HandoffSoundTheorem == Spec => []HandoffSound
<1>1. Init => HandoffInv
  BY HandoffInit
<1>2. HandoffInv /\ [Next]_vars => HandoffInv'
  BY HandoffStep
<1>3. HandoffInv => HandoffSound
  <2> SUFFICES ASSUME HandoffInv, boot = "entry"
               PROVE  /\ memmap.types = fw
                      /\ \A f \in held.kernel \cup held.volume \cup held.map : ~IsAvailable(memmap.types[f])
                      /\ \A i \in Loads : \A o \in 0 .. elf[i].memsz - 1 :
                           /\ mem[elf[i].vaddr + o] = IF o < elf[i].filesz THEN <<i, o>> ELSE "zero"
                           /\ (elf[i].vaddr + o) \div PageSize + 1 \in held.kernel
                      /\ image = [n \in 1 .. volume_bytes \div BlockSize |-> n - 1]
    BY DEF HandoffSound
  <2>1. HeldInv /\ CopyInv /\ ImageInv /\ memmap.types = fw
    BY DEF HandoffInv
  <2>2. ASSUME NEW f \in held.kernel \cup held.volume \cup held.map PROVE ~IsAvailable(memmap.types[f])
    <3>1. fw[f] = "loader"
      BY <2>1 DEF HeldInv
    <3> QED BY <2>1, <3>1 DEF IsAvailable
  <2>3. ASSUME NEW i \in Loads, NEW o \in 0 .. elf[i].memsz - 1
        PROVE  /\ mem[elf[i].vaddr + o] = IF o < elf[i].filesz THEN <<i, o>> ELSE "zero"
               /\ (elf[i].vaddr + o) \div PageSize + 1 \in held.kernel
    <3>1. elf \in Elfs /\ ph \in Nat /\ ph > Len(elf) /\ held.kernel = KernelFrames /\ KernelFrames \subseteq Frames
          /\ kernel_first_addr % PageSize = 0 /\ (\A j \in Loads : j < ph => InMemory(j, mem))
      BY <2>1 DEF CopyInv, Copying
    <3>2. i < ph
      BY <3>1, ElfType
    <3>3. (elf[i].vaddr + o) \div PageSize + 1 \in KernelFrames /\ elf[i].vaddr + o \in Nat
      BY <3>1, KernelHolds
    <3>4. elf[i].vaddr + o \in Bytes
      <4>1. PICK b \in Nat : b = elf[i].vaddr + o
        BY <3>3
      <4>2. PICK P \in Nat \ {0} : P = PageSize
        BY BootAssumption
      <4>3. PICK q \in Nat : q = b \div P /\ b % P \in 0 .. P - 1 /\ b = P * q + (b % P)
        BY DivMod
      <4>4. q + 1 \in 1 .. NumFrames /\ NumFrames \in Nat
        BY <3>1, <3>3, <4>1, <4>2, <4>3, BootAssumption DEF Frames
      <4>5. P * q + P <= NumFrames * P
        <5>1. (q + 1) * P <= NumFrames * P
          BY <4>4, Multiples
        <5> QED BY <5>1, <4>2, <4>3, <4>4
      <4>6. NumFrames * P \in Nat
        BY <4>2, <4>4
      <4>7. b < P * q + P
        BY <4>3
      <4>8. b \in 0 .. NumFrames * P - 1
        BY <4>3, <4>5, <4>6, <4>7
      <4> QED BY <4>1, <4>2, <4>8 DEF Bytes
    <3> QED BY <3>1, <3>2, <3>3, <3>4 DEF InMemory
  <2>4. image = [n \in 1 .. volume_bytes \div BlockSize |-> n - 1]
    <3>1. PICK V, C \in Nat : volume_bytes = V * BlockSize /\ ChunkSize = C * BlockSize
      BY WholeBlocks
    <3>2. PICK B \in Nat \ {0} : B = BlockSize
      BY BootAssumption
    <3>3. image \in Seq(Nat) /\ (\A n \in 1 .. Len(image) : image[n] = n - 1) /\ offset <= volume_bytes /\ offset >= volume_bytes
      BY <2>1 DEF ImageInv
    <3>4. PICK L \in Nat : L = Len(image)
      BY <3>3
    <3>5. offset = L * B /\ volume_bytes = V * B
      BY <3>1, <3>2, <3>4 DEF offset
    <3>6. L <= V /\ V <= L
      BY <3>3, <3>5, Multiples
    <3>7. volume_bytes \div BlockSize = L
      BY <3>2, <3>5, <3>6, MultipleDiv
    <3> QED BY <3>3, <3>4, <3>7
  <2> QED BY <2>1, <2>2, <2>3, <2>4
<1> QED BY <1>1, <1>2, <1>3, PTL DEF Spec

-----------------------------------------------------------------------------
(***************************************************************************)
(* The scan of the PCI bus                                                 *)
(***************************************************************************)
NoRepeats(s) == \A i, j \in DOMAIN s : s[i] = s[j] => i = j

\* why q is on the way or in the table: its bus is a root bus that was scanned
\* or a bridge in the table leads to it, or function 0 of its device is there
Origin(q) ==
  IF q[3] = 0
  THEN \/ q[1] \in RootBuses /\ q[1] < root
       \/ \E p \in ToSet(devices) : config[p].kind = "bridge" /\ config[p].secondary = q[1]
  ELSE <<q[1], q[2], 0>> \in ToSet(devices)

PciType ==
  /\ config \in Topologies /\ root \in 0 .. functions /\ full \in BOOLEAN
  /\ devices \in Seq(Places) /\ todo \in Seq(Places) /\ Len(devices) <= MaxDevices

\* only what can be reached is found
OnlyReachable ==
  /\ ToSet(devices) \subseteq Reachable
  /\ \A q \in ToSet(todo) : q[1] \in ReachableBuses /\ (Present(q) => q \in Visible(q[1]))

\* nothing is passed over
Scanned(q) == Present(q) => q \in ToSet(devices) \cup ToSet(todo)
BusScanned(b) == \A d \in 0 .. LastDevice : Scanned(<<b, d, 0>>)
NothingMissed ==
  /\ \A b \in RootBuses : b < root => BusScanned(b)
  /\ \A p \in ToSet(devices) :
       /\ config[p].kind = "bridge" => BusScanned(config[p].secondary)
       /\ p[3] = 0 /\ config[p].multi => \A f \in 1 .. LastFunction : Scanned(<<p[1], p[2], f>>)

\* nothing is found twice
FoundOnce ==
  /\ NoRepeats(devices) /\ NoRepeats(todo) /\ ToSet(devices) \cap ToSet(todo) = {}
  /\ \A q \in ToSet(devices) \cup ToSet(todo) : Origin(q)

PciInv ==
  /\ config = NoConfig => todo = <<>>
  /\ config # NoConfig =>
       /\ PciType /\ OnlyReachable
       /\ ~full => NothingMissed /\ (IsTree => FoundOnce)
       /\ full => todo = <<>> /\ (~IsTree \/ Cardinality(Reachable) > MaxDevices)

(* Sequences and the sets of their elements *)

LEMMA ToSetEmpty == ToSet(<<>>) = {} /\ NoRepeats(<<>>)
  BY DEF ToSet, NoRepeats

LEMMA ToSetConcat ==
  ASSUME NEW S, NEW s \in Seq(S), NEW t \in Seq(S)
  PROVE  /\ s \o t \in Seq(S) /\ ToSet(s \o t) = ToSet(s) \cup ToSet(t)
         /\ NoRepeats(s) /\ NoRepeats(t) /\ ToSet(s) \cap ToSet(t) = {} => NoRepeats(s \o t)
<1>1. s \o t \in Seq(S) /\ Len(s \o t) = Len(s) + Len(t) /\ Len(s) \in Nat /\ Len(t) \in Nat
      /\ DOMAIN s = 1 .. Len(s) /\ DOMAIN t = 1 .. Len(t) /\ DOMAIN (s \o t) = 1 .. Len(s) + Len(t)
  BY ConcatProperties
<1>2. \A i \in 1 .. Len(s) + Len(t) : (s \o t)[i] = IF i <= Len(s) THEN s[i] ELSE t[i - Len(s)]
  BY ConcatProperties
<1>3. PICK m, n \in Nat : m = Len(s) /\ n = Len(t)
  BY <1>1
<1>4. PICK u : u = s \o t
  OBVIOUS
<1>5. DOMAIN s = 1 .. m /\ DOMAIN t = 1 .. n /\ DOMAIN u = 1 .. m + n
      /\ (\A i \in 1 .. m : u[i] = s[i]) /\ (\A i \in 1 .. n : u[m + i] = t[i])
  BY <1>1, <1>2, <1>3, <1>4
<1>6. \A i \in 1 .. m + n : i \in 1 .. m \/ (i - m \in 1 .. n /\ i = m + (i - m))
  OBVIOUS
<1>7. ToSet(u) = ToSet(s) \cup ToSet(t)
  <2>1. ASSUME NEW x \in ToSet(u) PROVE x \in ToSet(s) \cup ToSet(t)
    BY <1>5, <1>6, SMTT(30) DEF ToSet
  <2>2. ASSUME NEW x \in ToSet(s) PROVE x \in ToSet(u)
    BY <1>5 DEF ToSet
  <2>3. ASSUME NEW x \in ToSet(t) PROVE x \in ToSet(u)
    <3>1. PICK i \in 1 .. n : x = t[i]
      BY <1>5 DEF ToSet
    <3>2. m + i \in 1 .. m + n /\ u[m + i] = x
      BY <1>5, <3>1
    <3> QED BY <1>5, <3>2 DEF ToSet
  <2> QED BY <2>1, <2>2, <2>3
<1>8. ASSUME NoRepeats(s), NoRepeats(t), ToSet(s) \cap ToSet(t) = {} PROVE NoRepeats(u)
  <2> SUFFICES ASSUME NEW i \in 1 .. m + n, NEW j \in 1 .. m + n, u[i] = u[j] PROVE i = j
    BY <1>5 DEF NoRepeats
  <2>1. \A k \in 1 .. m : s[k] \in ToSet(s)
    BY <1>5 DEF ToSet
  <2>2. \A k \in 1 .. n : t[k] \in ToSet(t)
    BY <1>5 DEF ToSet
  <2>3. CASE i \in 1 .. m /\ j \in 1 .. m
    BY <1>5, <1>8, <2>3 DEF NoRepeats
  <2>4. CASE i \in 1 .. m /\ j \notin 1 .. m
    BY <1>5, <1>6, <1>8, <2>1, <2>2, <2>4
  <2>5. CASE i \notin 1 .. m /\ j \in 1 .. m
    BY <1>5, <1>6, <1>8, <2>1, <2>2, <2>5
  <2>6. CASE i \notin 1 .. m /\ j \notin 1 .. m
    <3>1. i - m \in 1 .. n /\ j - m \in 1 .. n /\ i = m + (i - m) /\ j = m + (j - m)
      BY <1>6, <2>6
    <3>2. t[i - m] = t[j - m]
      BY <1>5, <3>1
    <3>3. i - m = j - m
      BY <1>5, <1>8, <3>1, <3>2 DEF NoRepeats
    <3> QED BY <3>3
  <2> QED BY <2>3, <2>4, <2>5, <2>6
<1> QED BY <1>1, <1>4, <1>7, <1>8

LEMMA ToSetAppend ==
  ASSUME NEW S, NEW s \in Seq(S), NEW x \in S
  PROVE  /\ Append(s, x) \in Seq(S) /\ Len(Append(s, x)) = Len(s) + 1 /\ ToSet(Append(s, x)) = ToSet(s) \cup {x}
         /\ NoRepeats(s) /\ x \notin ToSet(s) => NoRepeats(Append(s, x))
<1>1. PICK n \in Nat : n = Len(s)
  OBVIOUS
<1>2. PICK u : u = Append(s, x)
  OBVIOUS
<1>3. u \in Seq(S) /\ Len(u) = n + 1 /\ DOMAIN s = 1 .. n /\ DOMAIN u = 1 .. n + 1 /\ (\A i \in 1 .. n : u[i] = s[i]) /\ u[n + 1] = x
  BY <1>1, <1>2, AppendProperties
<1>4. ToSet(u) = ToSet(s) \cup {x}
  <2>1. \A i \in 1 .. n + 1 : i \in 1 .. n \/ i = n + 1
    OBVIOUS
  <2>2. n + 1 \in 1 .. n + 1 /\ \A i \in 1 .. n : i \in 1 .. n + 1
    OBVIOUS
  <2> QED BY <1>3, <2>1, <2>2 DEF ToSet
<1>5. ASSUME NoRepeats(s), x \notin ToSet(s) PROVE NoRepeats(u)
  <2>1. \A i \in 1 .. n : s[i] # x
    BY <1>3, <1>5 DEF ToSet
  <2>2. \A i, j \in 1 .. n + 1 : u[i] = u[j] => i = j
    BY <1>3, <1>5, <2>1 DEF NoRepeats
  <2> QED BY <1>3, <2>2 DEF NoRepeats
<1> QED BY <1>1, <1>2, <1>3, <1>4, <1>5

LEMMA ToSetTail ==
  ASSUME NEW S, NEW s \in Seq(S), s # <<>>
  PROVE  /\ Head(s) \in S /\ Tail(s) \in Seq(S) /\ ToSet(s) = {Head(s)} \cup ToSet(Tail(s))
         /\ NoRepeats(s) => NoRepeats(Tail(s)) /\ Head(s) \notin ToSet(Tail(s))
<1>1. PICK n \in Nat : n = Len(s) /\ n >= 1
  BY EmptySeq
<1>2. PICK u : u = Tail(s)
  OBVIOUS
<1>3. u \in Seq(S) /\ Len(u) = n - 1 /\ DOMAIN s = 1 .. n /\ DOMAIN u = 1 .. n - 1 /\ (\A i \in 1 .. n - 1 : u[i] = s[i + 1]) /\ Head(s) = s[1]
      /\ Head(s) \in S
  BY <1>1, <1>2, HeadTailProperties
<1>4. ToSet(s) = {Head(s)} \cup ToSet(u)
  <2>1. \A i \in 1 .. n : i = 1 \/ (i - 1 \in 1 .. n - 1 /\ i = (i - 1) + 1)
    BY <1>1
  <2>2. ASSUME NEW x \in ToSet(s) PROVE x \in {Head(s)} \cup ToSet(u)
    <3>1. PICK i \in 1 .. n : x = s[i]
      BY <1>3 DEF ToSet
    <3>2. CASE i = 1
      BY <1>3, <3>1, <3>2
    <3>3. CASE i # 1
      <4>1. i - 1 \in 1 .. n - 1 /\ u[i - 1] = x
        BY <1>3, <2>1, <3>1, <3>3
      <4> QED BY <1>3, <4>1 DEF ToSet
    <3> QED BY <3>2, <3>3
  <2>3. 1 \in 1 .. n /\ \A i \in 1 .. n - 1 : i + 1 \in 1 .. n
    BY <1>1
  <2>4. ASSUME NEW x \in ToSet(u) PROVE x \in ToSet(s)
    <3>1. PICK i \in 1 .. n - 1 : x = u[i]
      BY <1>3 DEF ToSet
    <3>2. i + 1 \in 1 .. n /\ x = s[i + 1]
      BY <1>3, <2>3, <3>1
    <3> QED BY <1>3, <3>2 DEF ToSet
  <2>5. Head(s) \in ToSet(s)
    BY <1>3, <2>3 DEF ToSet
  <2> QED BY <2>2, <2>4, <2>5
<1>5. ASSUME NoRepeats(s) PROVE NoRepeats(u) /\ Head(s) \notin ToSet(u)
  <2>1. \A i, j \in 1 .. n : s[i] = s[j] => i = j
    BY <1>3, <1>5 DEF NoRepeats
  <2>2. \A i \in 1 .. n - 1 : i + 1 \in 1 .. n /\ i + 1 # 1
    BY <1>1
  <2>3. \A i \in 1 .. n - 1 : u[i] # s[1]
    BY <1>1, <1>3, <2>1, <2>2
  <2>4. \A i, j \in 1 .. n - 1 : u[i] = u[j] => i + 1 = j + 1
    BY <1>3, <2>1, <2>2
  <2>5. NoRepeats(u)
    BY <1>3, <2>4 DEF NoRepeats
  <2> QED BY <1>3, <2>3, <2>5 DEF ToSet
<1> QED BY <1>2, <1>3, <1>4, <1>5

(* Places, and what the scan of a bus or of a device adds to them *)

LEMMA PlaceParts ==
  ASSUME NEW p \in Places
  PROVE  /\ p = <<p[1], p[2], p[3]>>
         /\ p[1] \in Buses /\ p[2] \in 0 .. LastDevice /\ p[3] \in 0 .. LastFunction
  BY DEF Places

LEMMA PlaceMade ==
  ASSUME NEW b \in Buses, NEW d \in 0 .. LastDevice, NEW f \in 0 .. LastFunction
  PROVE  /\ <<b, d, f>> \in Places
         /\ <<b, d, f>>[1] = b /\ <<b, d, f>>[2] = d /\ <<b, d, f>>[3] = f
  BY DEF Places

LEMMA ScanBusParts ==
  ASSUME NEW b \in Buses
  PROVE  /\ ScanBus(b) \in Seq(Places) /\ NoRepeats(ScanBus(b))
         /\ \A q \in ToSet(ScanBus(b)) : q[1] = b /\ q[3] = 0
         /\ \A d \in 0 .. LastDevice : <<b, d, 0>> \in ToSet(ScanBus(b))
<1>1. LastDevice \in Nat /\ LastFunction \in Nat
  BY PciAssumption
<1>2. DOMAIN ScanBus(b) = 1 .. LastDevice + 1 /\ \A i \in 1 .. LastDevice + 1 : ScanBus(b)[i] = <<b, i - 1, 0>>
  BY DEF ScanBus
<1>3. \A i \in 1 .. LastDevice + 1 : i - 1 \in 0 .. LastDevice /\ 0 \in 0 .. LastFunction
  BY <1>1
<1>4. \A i \in 1 .. LastDevice + 1 : <<b, i - 1, 0>> \in Places
  BY <1>3, PlaceMade
<1>5. ScanBus(b) \in Seq(Places)
  <2>1. ScanBus(b) \in [1 .. LastDevice + 1 -> Places] /\ LastDevice + 1 \in Nat
    BY <1>1, <1>4 DEF ScanBus
  <2> QED BY <2>1, SeqDef
<1>6. NoRepeats(ScanBus(b))
  <2> SUFFICES ASSUME NEW i \in 1 .. LastDevice + 1, NEW j \in 1 .. LastDevice + 1, <<b, i - 1, 0>> = <<b, j - 1, 0>>
               PROVE  i = j
    BY <1>2 DEF NoRepeats
  <2> QED BY <1>1
<1>7. ASSUME NEW q \in ToSet(ScanBus(b)) PROVE q[1] = b /\ q[3] = 0
  BY <1>2 DEF ToSet
<1>8. ASSUME NEW d \in 0 .. LastDevice PROVE <<b, d, 0>> \in ToSet(ScanBus(b))
  <2>1. d + 1 \in 1 .. LastDevice + 1 /\ (d + 1) - 1 = d
    BY <1>1
  <2>2. ScanBus(b)[d + 1] = <<b, d, 0>>
    BY <1>2, <2>1
  <2> QED BY <1>2, <2>1, <2>2 DEF ToSet
<1> QED BY <1>5, <1>6, <1>7, <1>8

LEMMA FunctionsFromParts ==
  ASSUME NEW b \in Buses, NEW d \in 0 .. LastDevice
  PROVE  /\ FunctionsFrom(b, d, 1) \in Seq(Places) /\ NoRepeats(FunctionsFrom(b, d, 1))
         /\ \A q \in ToSet(FunctionsFrom(b, d, 1)) : q[1] = b /\ q[2] = d /\ q[3] # 0
         /\ \A f \in 1 .. LastFunction : <<b, d, f>> \in ToSet(FunctionsFrom(b, d, 1))
<1>1. LastDevice \in Nat /\ LastFunction \in Nat /\ 1 .. LastFunction + 1 - 1 = 1 .. LastFunction
  BY PciAssumption
<1>2. DOMAIN FunctionsFrom(b, d, 1) = 1 .. LastFunction /\ \A i \in 1 .. LastFunction : FunctionsFrom(b, d, 1)[i] = <<b, d, i>>
  BY <1>1 DEF FunctionsFrom
<1>3. \A i \in 1 .. LastFunction : i \in 0 .. LastFunction /\ i # 0
  BY <1>1
<1>4. \A i \in 1 .. LastFunction : <<b, d, i>> \in Places
  BY <1>3, PlaceMade
<1>5. FunctionsFrom(b, d, 1) \in Seq(Places)
  <2>1. FunctionsFrom(b, d, 1) = [i \in 1 .. LastFunction |-> FunctionsFrom(b, d, 1)[i]]
    BY <1>1 DEF FunctionsFrom
  <2>2. FunctionsFrom(b, d, 1) \in [1 .. LastFunction -> Places]
    BY <1>2, <1>4, <2>1
  <2> QED BY <1>1, <2>2, SeqDef
<1>6. NoRepeats(FunctionsFrom(b, d, 1))
  <2> SUFFICES ASSUME NEW i \in 1 .. LastFunction, NEW j \in 1 .. LastFunction, <<b, d, i>> = <<b, d, j>>
               PROVE  i = j
    BY <1>2 DEF NoRepeats
  <2> QED OBVIOUS
<1>7. ASSUME NEW q \in ToSet(FunctionsFrom(b, d, 1)) PROVE q[1] = b /\ q[2] = d /\ q[3] # 0
  <2>1. PICK i \in 1 .. LastFunction : q = <<b, d, i>>
    BY <1>2 DEF ToSet
  <2>2. i # 0
    BY <1>3
  <2> QED BY <2>1, <2>2
<1>8. ASSUME NEW f \in 1 .. LastFunction PROVE <<b, d, f>> \in ToSet(FunctionsFrom(b, d, 1))
  BY <1>2 DEF ToSet
<1> QED BY <1>5, <1>6, <1>7, <1>8

LEMMA PlacesFinite == IsFiniteSet(Places)
<1>1. IsFiniteSet(Buses) /\ LastDevice \in Nat /\ LastFunction \in Nat
  BY PciAssumption
<1>2. IsFiniteSet(0 .. LastDevice) /\ IsFiniteSet(0 .. LastFunction)
  BY <1>1, FS_Interval
<1> DEFINE Pairs == (0 .. LastDevice) \X (0 .. LastFunction)
           f == [p \in Places |-> <<p[1], <<p[2], p[3]>> >>]
<1>3. IsFiniteSet(Pairs)
  BY <1>2, FS_Product
<1>4. IsFiniteSet(Buses \X Pairs)
  <2> HIDE DEF Pairs
  <2> QED BY <1>1, <1>3, FS_Product
<1>5. \A p \in Places : f[p] \in Buses \X Pairs
  BY PlaceParts
<1>6. \A p, q \in Places : f[p] = f[q] => p = q
  <2> SUFFICES ASSUME NEW p \in Places, NEW q \in Places, f[p] = f[q] PROVE p = q
    OBVIOUS
  <2>1. p[1] = q[1] /\ p[2] = q[2] /\ p[3] = q[3]
    OBVIOUS
  <2> QED BY <2>1, PlaceParts
<1>7. f \in Injection(Places, Buses \X Pairs)
  BY <1>5, <1>6, Zenon DEF Injection, IsInjective
<1> QED BY <1>4, <1>7, FS_Injection

(* The machine, and what can be reached in it *)

LEMMA ConfigParts ==
  ASSUME config \in Topologies
  PROVE  /\ DOMAIN config \subseteq Places /\ config # NoConfig /\ <<0, 0, 0>> \in DOMAIN config
         /\ \A p \in DOMAIN config : config[p].secondary \in Buses
         /\ functions \in 1 .. LastFunction + 1 /\ RootBuses \subseteq Buses
<1>1. DOMAIN config \subseteq Places /\ <<0, 0, 0>> \in DOMAIN config /\ \A p \in DOMAIN config : config[p] \in Function
  BY PciAssumption
<1>2. LastFunction \in Nat /\ 0 .. LastFunction \subseteq Buses
  BY PciAssumption
<1>3. functions \in 1 .. LastFunction + 1
  BY <1>2 DEF functions
<1>4. RootBuses \subseteq Buses
  <2>1. \A f \in 0 .. functions - 1 : f \in 0 .. LastFunction
    BY <1>2, <1>3
  <2> QED BY <1>2, <2>1 DEF RootBuses
<1>5. config # NoConfig
  <2>1. DOMAIN NoConfig = {}
    BY DEF NoConfig
  <2> QED BY <1>1, <2>1
<1>6. ASSUME NEW p \in DOMAIN config PROVE config[p].secondary \in Buses
  BY <1>1 DEF Function
<1> QED BY <1>1, <1>3, <1>4, <1>5, <1>6

LEMMA VisibleParts ==
  ASSUME NEW b, NEW p \in Visible(b)
  PROVE  p \in DOMAIN config /\ p[1] = b /\ (p[3] # 0 => Present(<<b, p[2], 0>>) /\ config[<<b, p[2], 0>>].multi)
  BY DEF Visible

LEMMA ReachableParts ==
  ASSUME config \in Topologies
  PROVE  /\ RootBuses \subseteq ReachableBuses /\ ReachableBuses \subseteq Buses
         /\ \A b \in ReachableBuses : \A p \in Bridges(b) : config[p].secondary \in ReachableBuses
         /\ Reachable \subseteq DOMAIN config /\ IsFiniteSet(Reachable)
         /\ \A p \in Reachable : p[1] \in ReachableBuses /\ p \in Visible(p[1])
         /\ \A b \in ReachableBuses : Visible(b) \subseteq Reachable
<1>1. RootBuses \subseteq ReachableBuses /\ ReachableBuses \subseteq Buses
  BY ConfigParts DEF ReachableBuses
<1>2. ASSUME NEW b \in ReachableBuses, NEW p \in Bridges(b) PROVE config[p].secondary \in ReachableBuses
  <2>1. config[p].secondary \in Buses
    BY ConfigParts, VisibleParts DEF Bridges
  <2>2. ASSUME NEW S \in SUBSET Buses, RootBuses \subseteq S, Closed(S) PROVE config[p].secondary \in S
    <3>1. b \in S
      BY <2>2 DEF ReachableBuses
    <3> QED BY <2>2, <3>1 DEF Closed
  <2> QED BY <2>1, <2>2 DEF ReachableBuses
<1>3. Reachable \subseteq DOMAIN config
  BY VisibleParts DEF Reachable
<1>4. IsFiniteSet(Reachable)
  <2>1. Reachable \in SUBSET Places
    BY <1>3, ConfigParts
  <2> QED BY <2>1, PlacesFinite, FS_Subset
<1>5. ASSUME NEW p \in Reachable PROVE p[1] \in ReachableBuses /\ p \in Visible(p[1])
  <2>1. PICK b \in ReachableBuses : p \in Visible(b)
    BY DEF Reachable
  <2> QED BY <2>1, VisibleParts
<1>6. ASSUME NEW b \in ReachableBuses PROVE Visible(b) \subseteq Reachable
  BY DEF Reachable
<1> QED BY <1>1, <1>2, <1>3, <1>4, <1>5, <1>6

\* the scan of a reachable bus meets only what is visible on it
LEMMA ScanBusReachable ==
  ASSUME NEW b \in ReachableBuses, b \in Buses, NEW q \in ToSet(ScanBus(b))
  PROVE  q[1] \in ReachableBuses /\ (Present(q) => q \in Visible(q[1])) /\ q[3] = 0 /\ q[1] = b
<1>1. q[1] = b /\ q[3] = 0
  BY ScanBusParts
<1> QED BY <1>1 DEF Visible, Present

LEMMA FollowParts ==
  ASSUME config \in Topologies, NEW p \in DOMAIN config, p[1] \in ReachableBuses, p \in Visible(p[1])
  PROVE  /\ Follow(p) \in Seq(Places) /\ NoRepeats(Follow(p))
         /\ \A q \in ToSet(Follow(p)) :
              /\ q[1] \in ReachableBuses /\ (Present(q) => q \in Visible(q[1]))
              /\ \/ q[3] = 0 /\ config[p].kind = "bridge" /\ config[p].secondary = q[1]
                 \/ q[3] # 0 /\ p = <<q[1], q[2], 0>>
         /\ config[p].kind = "bridge" => \A d \in 0 .. LastDevice : <<config[p].secondary, d, 0>> \in ToSet(Follow(p))
         /\ p[3] = 0 /\ config[p].multi => \A f \in 1 .. LastFunction : <<p[1], p[2], f>> \in ToSet(Follow(p))
<1> DEFINE A == IF config[p].kind = "bridge" THEN ScanBus(config[p].secondary) ELSE <<>>
           B == IF p[3] = 0 /\ config[p].multi THEN FunctionsFrom(p[1], p[2], 1) ELSE <<>>
<1>1. Follow(p) = A \o B
  BY DEF Follow
<1>2. p = <<p[1], p[2], p[3]>> /\ p[1] \in Buses /\ p[2] \in 0 .. LastDevice /\ config[p].secondary \in Buses
  BY ConfigParts, PlaceParts
<1>3. ASSUME config[p].kind = "bridge" PROVE config[p].secondary \in ReachableBuses
  BY <1>3, ReachableParts DEF Bridges
<1>4. A \in Seq(Places) /\ NoRepeats(A)
  BY <1>2, ScanBusParts, ToSetEmpty
<1>5. \A q \in ToSet(A) : /\ q[1] \in ReachableBuses /\ (Present(q) => q \in Visible(q[1]))
                          /\ q[3] = 0 /\ config[p].kind = "bridge" /\ config[p].secondary = q[1]
  <2>1. CASE config[p].kind = "bridge"
    BY <1>2, <1>3, <2>1, ScanBusReachable
  <2>2. CASE config[p].kind # "bridge"
    BY <2>2, ToSetEmpty
  <2> QED BY <2>1, <2>2
<1>6. B \in Seq(Places) /\ NoRepeats(B)
  BY <1>2, FunctionsFromParts, ToSetEmpty
<1>7. \A q \in ToSet(B) : /\ q[1] \in ReachableBuses /\ (Present(q) => q \in Visible(q[1]))
                          /\ q[3] # 0 /\ p = <<q[1], q[2], 0>>
  <2>1. CASE p[3] = 0 /\ config[p].multi
    <3> SUFFICES ASSUME NEW q \in ToSet(B)
                 PROVE  /\ q[1] \in ReachableBuses /\ (Present(q) => q \in Visible(q[1]))
                        /\ q[3] # 0 /\ p = <<q[1], q[2], 0>>
      OBVIOUS
    <3>1. q[1] = p[1] /\ q[2] = p[2] /\ q[3] # 0
      BY <1>2, <2>1, FunctionsFromParts
    <3>2. p = <<q[1], q[2], 0>>
      BY <1>2, <2>1, <3>1
    <3>3. Present(q) => q \in Visible(q[1])
      BY <2>1, <3>1, <3>2 DEF Visible, Present
    <3> QED BY <3>1, <3>2, <3>3
  <2>2. CASE ~(p[3] = 0 /\ config[p].multi)
    BY <2>2, ToSetEmpty
  <2> QED BY <2>1, <2>2
<1>8. config[p].kind = "bridge" => \A d \in 0 .. LastDevice : <<config[p].secondary, d, 0>> \in ToSet(A)
  BY <1>2, ScanBusParts
<1>9. p[3] = 0 /\ config[p].multi => \A f \in 1 .. LastFunction : <<p[1], p[2], f>> \in ToSet(B)
  BY <1>2, FunctionsFromParts
<1> HIDE DEF A, B
<1>10. ToSet(A) \cap ToSet(B) = {}
  BY <1>5, <1>7
<1>11. A \o B \in Seq(Places) /\ ToSet(A \o B) = ToSet(A) \cup ToSet(B) /\ NoRepeats(A \o B)
  BY <1>4, <1>6, <1>10, ToSetConcat
<1> QED BY <1>1, <1>5, <1>7, <1>8, <1>9, <1>11

(* The steps of the scan *)

LEMMA MachineSame ==
  ASSUME config' = config
  PROVE  /\ functions' = functions /\ RootBuses' = RootBuses /\ ReachableBuses' = ReachableBuses
         /\ Reachable' = Reachable /\ IsTree' = IsTree
         /\ \A p : Present(p)' = Present(p) /\ Visible(p)' = Visible(p)
<1>1. functions' = functions /\ \A p : Present(p)' = Present(p)
  BY DEF functions, Present
<1>2. RootBuses' = RootBuses
  BY <1>1 DEF RootBuses
<1>3. \A b : Visible(b)' = Visible(b) /\ Bridges(b)' = Bridges(b)
  BY DEF Visible, Bridges, Present
<1>4. \A S : Closed(S)' = Closed(S)
  BY <1>3 DEF Closed
<1>5. ReachableBuses' = ReachableBuses
  BY <1>2, <1>4 DEF ReachableBuses
<1>6. Reachable' = Reachable
  BY <1>3, <1>5 DEF Reachable
<1>7. IsTree' = IsTree
  BY <1>2, <1>6 DEF IsTree
<1> QED BY <1>1, <1>2, <1>3, <1>5, <1>6, <1>7

LEMMA PciUnchanged ==
  ASSUME PciInv, UNCHANGED pciVars
  PROVE  PciInv'
<1>1. config' = config /\ root' = root /\ todo' = todo /\ devices' = devices /\ full' = full
  BY DEF pciVars
<1>2. PciType' = PciType /\ OnlyReachable' = OnlyReachable
  BY <1>1, MachineSame DEF PciType, OnlyReachable
<1>3. \A q : Scanned(q)' = Scanned(q) /\ Origin(q)' = Origin(q)
  BY <1>1, MachineSame DEF Scanned, Origin
<1>4. \A b : BusScanned(b)' = BusScanned(b)
  BY <1>3 DEF BusScanned
<1>5. NothingMissed' = NothingMissed /\ FoundOnce' = FoundOnce
  BY <1>1, <1>3, <1>4, MachineSame DEF NothingMissed, FoundOnce
<1> QED BY <1>1, <1>2, <1>5, MachineSame DEF PciInv

LEMMA BeginScanStep ==
  ASSUME BeginScan
  PROVE  PciInv'
<1>1. config' \in Topologies /\ root' = 0 /\ todo' = <<>> /\ devices' = <<>> /\ full' = FALSE
  BY DEF BeginScan
<1>2. functions' \in 1 .. LastFunction + 1
  <2>1. LastFunction \in Nat
    BY PciAssumption
  <2> QED BY <2>1 DEF functions
<1>3. LastFunction \in Nat /\ MaxDevices \in Nat
  BY PciAssumption
<1>4. ToSet(devices') = {} /\ ToSet(todo') = {} /\ NoRepeats(devices') /\ NoRepeats(todo')
  BY <1>1, ToSetEmpty
<1>5. PciType'
  <2>1. root' \in 0 .. functions' /\ Len(devices') <= MaxDevices /\ devices' \in Seq(Places) /\ todo' \in Seq(Places)
    BY <1>1, <1>2, <1>3
  <2> QED BY <1>1, <2>1 DEF PciType
<1>6. OnlyReachable'
  BY <1>4 DEF OnlyReachable
<1>7. NothingMissed'
  <2>1. \A b \in RootBuses' : ~(b < root')
    BY <1>1, <1>2, <1>3 DEF RootBuses
  <2> QED BY <1>4, <2>1 DEF NothingMissed
<1>8. FoundOnce'
  BY <1>4 DEF FoundOnce
<1> QED BY <1>1, <1>5, <1>6, <1>7, <1>8 DEF PciInv

\* the turn of ScanAllBus for one function of the host bridge
LEMMA ScanAllBusStep ==
  ASSUME PciInv, ScanAllBus
  PROVE  PciInv'
<1> DEFINE b == root
           D == ToSet(devices)
<1>1. config # NoConfig /\ todo = <<>> /\ ~full /\ root < functions /\ root' = root + 1
      /\ config' = config /\ devices' = devices /\ full' = full
      /\ todo' = (IF Present(<<0, 0, root>>) THEN ScanBus(root) ELSE <<>>)
  BY DEF ScanAllBus
<1>2. PciType /\ OnlyReachable /\ NothingMissed /\ (IsTree => FoundOnce)
  BY <1>1 DEF PciInv
<1>3. config \in Topologies /\ root \in 0 .. functions /\ devices \in Seq(Places) /\ Len(devices) <= MaxDevices /\ functions \in 1 .. LastFunction + 1
  BY <1>2, ConfigParts DEF PciType
<1>4. LastFunction \in Nat /\ 0 .. LastFunction \subseteq Buses
  BY PciAssumption
<1>5. b \in Nat /\ b \in 0 .. functions - 1 /\ b + 1 \in 0 .. functions /\ b \in 0 .. LastFunction
  BY <1>1, <1>3, <1>4
<1>6. b \in Buses /\ (Present(<<0, 0, b>>) <=> b \in RootBuses)
  BY <1>4, <1>5 DEF RootBuses
<1>7. b \in RootBuses => b \in ReachableBuses
  BY <1>3, ReachableParts
<1>8. ToSet(todo) = {}
  BY <1>1, ToSetEmpty
<1>9. todo' \in Seq(Places) /\ NoRepeats(todo')
  BY <1>1, <1>6, ScanBusParts, ToSetEmpty
<1>10. \A q \in ToSet(todo') : b \in RootBuses /\ q[1] = b /\ q[3] = 0 /\ q[1] \in ReachableBuses /\ (Present(q) => q \in Visible(q[1]))
  <2>1. CASE b \in RootBuses
    BY <1>1, <1>6, <1>7, <2>1, ScanBusReachable
  <2>2. CASE b \notin RootBuses
    BY <1>1, <1>6, <2>2, ToSetEmpty
  <2> QED BY <2>1, <2>2
<1>11. b \in RootBuses => \A d \in 0 .. LastDevice : <<b, d, 0>> \in ToSet(todo')
  BY <1>1, <1>6, ScanBusParts
<1>12. PciType'
  BY <1>1, <1>2, <1>3, <1>5, <1>9, MachineSame DEF PciType
<1>13. OnlyReachable'
  BY <1>1, <1>2, <1>10, MachineSame DEF OnlyReachable
<1>14. NothingMissed'
  <2>1. \A q : Scanned(q) => Scanned(q)'
    BY <1>1, <1>8, MachineSame DEF Scanned
  <2>2. \A a : BusScanned(a) => BusScanned(a)'
    BY <2>1 DEF BusScanned
  <2>3. ASSUME NEW a \in RootBuses, a < root' PROVE BusScanned(a)'
    <3>1. a \in Nat
      BY <1>3, <1>4 DEF RootBuses
    <3>2. a < b \/ a = b
      BY <1>1, <1>5, <2>3, <3>1
    <3>3. CASE a < b
      BY <1>2, <2>2, <3>3 DEF NothingMissed
    <3>4. CASE a = b
      <4>1. \A d \in 0 .. LastDevice : <<a, d, 0>> \in ToSet(todo')
        BY <1>11, <2>3, <3>4
      <4> QED BY <4>1 DEF BusScanned, Scanned
    <3> QED BY <3>2, <3>3, <3>4
  <2>4. ASSUME NEW p \in ToSet(devices)
        PROVE  /\ config[p].kind = "bridge" => BusScanned(config[p].secondary)'
               /\ p[3] = 0 /\ config[p].multi => \A f \in 1 .. LastFunction : Scanned(<<p[1], p[2], f>>)'
    <3>1. config[p].kind = "bridge" => BusScanned(config[p].secondary)
      BY <1>2 DEF NothingMissed
    <3>2. p[3] = 0 /\ config[p].multi => \A f \in 1 .. LastFunction : Scanned(<<p[1], p[2], f>>)
      BY <1>2 DEF NothingMissed
    <3>3. \A a : a = config[p].secondary => (BusScanned(a)' <=> BusScanned(config[p].secondary)')
      BY <1>1
    <3> QED BY <2>1, <2>2, <3>1, <3>2, <3>3
  <2> QED BY <1>1, <2>3, <2>4, MachineSame DEF NothingMissed
<1>15. ASSUME IsTree PROVE FoundOnce'
  <2>1. FoundOnce
    BY <1>2, <1>15
  <2>2. ASSUME NEW q \in ToSet(todo'), q \in D PROVE FALSE
    <3>1. q[1] = b /\ q[3] = 0 /\ b \in RootBuses
      BY <1>10
    <3>2. Origin(q)
      BY <2>1, <2>2 DEF FoundOnce
    <3>3. PICK p \in ToSet(devices) : config[p].kind = "bridge" /\ config[p].secondary = b
      BY <1>5, <3>1, <3>2 DEF Origin
    <3>4. p \in Reachable
      BY <1>2 DEF OnlyReachable
    <3> QED BY <1>15, <3>1, <3>3, <3>4 DEF IsTree
  <2>3. ASSUME NEW q \in D PROVE Origin(q)'
    <3>1. Origin(q)
      BY <2>1 DEF FoundOnce
    <3>2. q[1] \in RootBuses /\ q[1] < root => q[1] < root'
      <4>1. \A a \in RootBuses : a \in Nat
        BY <1>3, <1>4 DEF RootBuses
      <4> QED BY <1>1, <1>5, <4>1
    <3> QED BY <1>1, <3>1, <3>2, MachineSame DEF Origin
  <2>4. ASSUME NEW q \in ToSet(todo') PROVE Origin(q)'
    <3>1. q[1] \in RootBuses /\ q[1] < root' /\ q[3] = 0
      BY <1>1, <1>5, <1>10
    <3> QED BY <1>1, <3>1, MachineSame DEF Origin
  <2> QED BY <1>1, <1>9, <2>1, <2>2, <2>3, <2>4 DEF FoundOnce
<1> QED BY <1>1, <1>12, <1>13, <1>14, <1>15, MachineSame DEF PciInv

\* ScanFunction of a place that holds no function
LEMMA AbsentStep ==
  ASSUME PciInv, config # NoConfig, todo # <<>>, ~full, ~Present(Head(todo)), todo' = Tail(todo),
         config' = config, root' = root, devices' = devices, full' = full
  PROVE  PciInv'
<1> DEFINE p == Head(todo)
<1>1. PciType /\ OnlyReachable /\ NothingMissed /\ (IsTree => FoundOnce)
  BY DEF PciInv
<1>2. todo \in Seq(Places)
  BY <1>1 DEF PciType
<1>3. todo' \in Seq(Places) /\ ToSet(todo) = {p} \cup ToSet(todo') /\ (NoRepeats(todo) => NoRepeats(todo'))
  BY <1>2, ToSetTail
<1>4. PciType'
  BY <1>1, <1>3, MachineSame DEF PciType
<1>5. OnlyReachable'
  BY <1>1, <1>3, MachineSame DEF OnlyReachable
<1>6. \A q : (Scanned(q) => Scanned(q)') /\ (Origin(q) => Origin(q)')
  BY <1>3, MachineSame DEF Scanned, Origin
<1>7. \A a : BusScanned(a) => BusScanned(a)'
  BY <1>6 DEF BusScanned
<1>8. NothingMissed'
  <2>1. ASSUME NEW q \in ToSet(devices)
        PROVE  /\ config[q].kind = "bridge" => BusScanned(config[q].secondary)'
               /\ q[3] = 0 /\ config[q].multi => \A f \in 1 .. LastFunction : Scanned(<<q[1], q[2], f>>)'
    <3>1. config[q].kind = "bridge" => BusScanned(config[q].secondary)
      BY <1>1 DEF NothingMissed
    <3>2. q[3] = 0 /\ config[q].multi => \A f \in 1 .. LastFunction : Scanned(<<q[1], q[2], f>>)
      BY <1>1 DEF NothingMissed
    <3>3. \A a : a = config[q].secondary => (BusScanned(a)' <=> BusScanned(config[q].secondary)')
      OBVIOUS
    <3> QED BY <1>6, <1>7, <3>1, <3>2, <3>3
  <2>2. ASSUME NEW b \in RootBuses, b < root PROVE BusScanned(b)'
    BY <1>1, <1>7, <2>2 DEF NothingMissed
  <2> QED BY <2>1, <2>2, MachineSame DEF NothingMissed
<1>9. ASSUME IsTree PROVE FoundOnce'
  BY <1>1, <1>3, <1>6, <1>9 DEF FoundOnce
<1> QED BY <1>4, <1>5, <1>8, <1>9, MachineSame DEF PciInv

\* a table that holds no function twice is no longer than there are functions
LEMMA LengthBound ==
  ASSUME NEW S, IsFiniteSet(S), NEW s \in Seq(S), NoRepeats(s)
  PROVE  Len(s) <= Cardinality(S) /\ (ToSet(s) = S => Len(s) = Cardinality(S))
<1>1. Len(s) \in Nat /\ DOMAIN s = 1 .. Len(s) /\ s \in [1 .. Len(s) -> S]
  OBVIOUS
<1>2. s \in Injection(1 .. Len(s), S)
  BY <1>1, Zenon DEF Injection, IsInjective, NoRepeats
<1>3. IsFiniteSet(1 .. Len(s)) /\ Cardinality(1 .. Len(s)) = Len(s)
  <2>1. PICK n \in Nat : n = Len(s)
    BY <1>1
  <2>2. IsFiniteSet(1 .. n) /\ Cardinality(1 .. n) = n
    BY FS_Interval
  <2> QED BY <2>1, <2>2
<1>4. Cardinality(1 .. Len(s)) <= Cardinality(S) /\ (Cardinality(1 .. Len(s)) = Cardinality(S) <=> s \in Surjection(1 .. Len(s), S))
  BY <1>2, FS_Injection
<1>5. ASSUME ToSet(s) = S PROVE s \in Surjection(1 .. Len(s), S)
  <2>1. \A x \in S : \E i \in 1 .. Len(s) : s[i] = x
    BY <1>1, <1>5 DEF ToSet
  <2> QED BY <1>1, <2>1, Zenon DEF Surjection
<1> QED BY <1>3, <1>4, <1>5

\* AddDevice when the table is full
LEMMA FullStep ==
  ASSUME PciInv, config # NoConfig, todo # <<>>, ~full, Present(Head(todo)), Len(devices) = MaxDevices,
         config' = config, root' = root, devices' = devices, full' = TRUE, todo' = <<>>
  PROVE  PciInv'
<1> DEFINE p == Head(todo)
<1>1. PciType /\ OnlyReachable /\ (IsTree => FoundOnce)
  BY DEF PciInv
<1>2. todo \in Seq(Places) /\ config \in Topologies /\ devices \in Seq(Places) /\ MaxDevices \in Nat
  BY <1>1, PciAssumption DEF PciType
<1>3. ToSet(todo) = {p} \cup ToSet(Tail(todo))
  BY <1>2, ToSetTail
<1>4. p \in Reachable
  <2>1. p[1] \in ReachableBuses /\ p \in Visible(p[1])
    BY <1>1, <1>3 DEF OnlyReachable
  <2> QED BY <1>2, <2>1, ReachableParts
<1>5. PciType'
  <2>1. todo' \in Seq(Places)
    OBVIOUS
  <2> QED BY <1>1, <2>1, MachineSame DEF PciType
<1>6. OnlyReachable'
  <2>1. ToSet(todo') = {}
    BY ToSetEmpty
  <2> QED BY <1>1, <2>1, MachineSame DEF OnlyReachable
<1>7. ASSUME IsTree PROVE Cardinality(Reachable) > MaxDevices
  <2>1. NoRepeats(devices) /\ p \notin ToSet(devices)
    BY <1>1, <1>3, <1>7 DEF FoundOnce
  <2>2. IsFiniteSet(Reachable)
    BY <1>2, ReachableParts
  <2>3. IsFiniteSet(Reachable \ {p}) /\ Cardinality(Reachable \ {p}) = Cardinality(Reachable) - 1 /\ Cardinality(Reachable) \in Nat
    BY <1>4, <2>2, FS_RemoveElement, FS_CardinalityType
  <2>4. ToSet(devices) \subseteq Reachable \ {p}
    BY <1>1, <2>1 DEF OnlyReachable
  <2>5. devices \in Seq(Reachable \ {p})
    <3>1. \A i \in 1 .. Len(devices) : devices[i] \in Reachable \ {p}
      BY <1>2, <2>4 DEF ToSet
    <3> QED BY <1>2, <3>1
  <2>6. Len(devices) <= Cardinality(Reachable \ {p})
    BY <2>1, <2>3, <2>5, LengthBound
  <2> QED BY <1>2, <2>3, <2>6
<1> QED BY <1>5, <1>6, <1>7, MachineSame DEF PciInv

\* AddDevice, and the calls for what follows the function
LEMMA AddedStep ==
  ASSUME PciInv, config # NoConfig, todo # <<>>, ~full, Present(Head(todo)), Len(devices) # MaxDevices,
         config' = config, root' = root, devices' = Append(devices, Head(todo)), full' = full,
         todo' = Follow(Head(todo)) \o Tail(todo)
  PROVE  PciInv'
<1>1. PciType /\ OnlyReachable /\ NothingMissed /\ (IsTree => FoundOnce)
  BY DEF PciInv
<1>2. todo \in Seq(Places) /\ config \in Topologies /\ devices \in Seq(Places) /\ MaxDevices \in Nat /\ Len(devices) <= MaxDevices
  BY <1>1, PciAssumption DEF PciType
<1>3. PICK p \in Places : p = Head(todo)
  BY <1>2, ToSetTail
<1>4. PICK U \in Seq(Places) : U = Tail(todo)
  BY <1>2, ToSetTail
<1>5. ToSet(todo) = {p} \cup ToSet(U) /\ (NoRepeats(todo) => NoRepeats(U) /\ p \notin ToSet(U))
  BY <1>2, <1>3, <1>4, ToSetTail
<1>6. p \in DOMAIN config /\ p[1] \in ReachableBuses /\ p \in Visible(p[1])
  BY <1>1, <1>3, <1>5 DEF OnlyReachable, Present
<1>7. p \in Reachable
  BY <1>2, <1>6, ReachableParts
<1>8. PICK F \in Seq(Places) : F = Follow(p)
  BY <1>2, <1>6, FollowParts
<1>9. NoRepeats(F)
      /\ \A q \in ToSet(F) :
              /\ q[1] \in ReachableBuses /\ (Present(q) => q \in Visible(q[1]))
              /\ \/ q[3] = 0 /\ config[p].kind = "bridge" /\ config[p].secondary = q[1]
                 \/ q[3] # 0 /\ p = <<q[1], q[2], 0>>
  BY <1>2, <1>6, <1>8, FollowParts
<1>10. config[p].kind = "bridge" => \A d \in 0 .. LastDevice : <<config[p].secondary, d, 0>> \in ToSet(F)
  BY <1>2, <1>6, <1>8, FollowParts
<1>11. p[3] = 0 /\ config[p].multi => \A f \in 1 .. LastFunction : <<p[1], p[2], f>> \in ToSet(F)
  BY <1>2, <1>6, <1>8, FollowParts
<1>12. todo' \in Seq(Places) /\ ToSet(todo') = ToSet(F) \cup ToSet(U)
       /\ (NoRepeats(U) /\ ToSet(F) \cap ToSet(U) = {} => NoRepeats(todo'))
  <2>1. todo' = F \o U
    BY <1>3, <1>4, <1>8
  <2>2. F \o U \in Seq(Places) /\ ToSet(F \o U) = ToSet(F) \cup ToSet(U)
        /\ (NoRepeats(F) /\ NoRepeats(U) /\ ToSet(F) \cap ToSet(U) = {} => NoRepeats(F \o U))
    BY ToSetConcat
  <2> QED BY <1>9, <2>1, <2>2
<1>13. devices' \in Seq(Places) /\ Len(devices') = Len(devices) + 1 /\ ToSet(devices') = ToSet(devices) \cup {p}
       /\ (NoRepeats(devices) /\ p \notin ToSet(devices) => NoRepeats(devices'))
  <2>1. devices' = Append(devices, p)
    BY <1>3
  <2> QED BY <1>2, <2>1, ToSetAppend
<1>14. PciType'
  <2>1. Len(devices') <= MaxDevices
    <3>1. PICK n \in Nat : n = Len(devices)
      BY <1>2
    <3> QED BY <1>2, <1>13, <3>1
  <2> QED BY <1>1, <1>12, <1>13, <2>1, MachineSame DEF PciType
<1>15. OnlyReachable'
  <2>1. ToSet(devices') \subseteq Reachable
    BY <1>1, <1>7, <1>13 DEF OnlyReachable
  <2>2. \A q \in ToSet(todo') : q[1] \in ReachableBuses /\ (Present(q) => q \in Visible(q[1]))
    BY <1>1, <1>5, <1>9, <1>12 DEF OnlyReachable
  <2> QED BY <2>1, <2>2, MachineSame DEF OnlyReachable
<1>16. \A q : (Scanned(q) => Scanned(q)') /\ (q \in ToSet(F) => Scanned(q)')
  BY <1>5, <1>12, <1>13, MachineSame DEF Scanned
<1>17. \A a : BusScanned(a) => BusScanned(a)'
  BY <1>16 DEF BusScanned
<1>18. NothingMissed'
  <2>1. ASSUME NEW q \in ToSet(devices')
        PROVE  /\ config[q].kind = "bridge" => BusScanned(config[q].secondary)'
               /\ q[3] = 0 /\ config[q].multi => \A f \in 1 .. LastFunction : Scanned(<<q[1], q[2], f>>)'
    <3>1. \A a : a = config[q].secondary => (BusScanned(a)' <=> BusScanned(config[q].secondary)')
      OBVIOUS
    <3>2. CASE q \in ToSet(devices)
      <4>1. config[q].kind = "bridge" => BusScanned(config[q].secondary)
        BY <1>1, <3>2 DEF NothingMissed
      <4>2. q[3] = 0 /\ config[q].multi => \A f \in 1 .. LastFunction : Scanned(<<q[1], q[2], f>>)
        BY <1>1, <3>2 DEF NothingMissed
      <4> QED BY <1>16, <1>17, <3>1, <4>1, <4>2
    <3>3. CASE q = p
      <4>1. ASSUME config[p].kind = "bridge", NEW a, a = config[p].secondary PROVE BusScanned(a)'
        <5>1. \A d \in 0 .. LastDevice : Scanned(<<a, d, 0>>)'
          BY <1>10, <1>16, <4>1
        <5> QED BY <5>1 DEF BusScanned
      <4>2. p[3] = 0 /\ config[p].multi => \A f \in 1 .. LastFunction : Scanned(<<p[1], p[2], f>>)'
        BY <1>11, <1>16
      <4> QED BY <3>1, <3>3, <4>1, <4>2
    <3> QED BY <1>13, <3>2, <3>3
  <2>2. ASSUME NEW b \in RootBuses, b < root PROVE BusScanned(b)'
    BY <1>1, <1>17, <2>2 DEF NothingMissed
  <2> QED BY <2>1, <2>2, MachineSame DEF NothingMissed
<1>19. ASSUME IsTree PROVE FoundOnce'
  <2>1. FoundOnce
    BY <1>1, <1>19
  <2>2. NoRepeats(devices) /\ NoRepeats(U) /\ p \notin ToSet(U) /\ p \notin ToSet(devices) /\ ToSet(devices) \cap ToSet(U) = {}
        /\ \A q \in ToSet(devices) \cup ToSet(U) \cup {p} : Origin(q)
    BY <1>5, <2>1 DEF FoundOnce
  <2>3. ASSUME NEW q \in ToSet(F), q \in ToSet(devices) \cup ToSet(U) \cup {p} PROVE FALSE
    <3>1. Origin(q)
      BY <2>2, <2>3
    <3>2. CASE q[3] = 0
      <4>1. config[p].kind = "bridge" /\ config[p].secondary = q[1]
        BY <1>9, <2>3, <3>2
      <4>2. q[1] \notin RootBuses
        BY <1>7, <1>19, <4>1 DEF IsTree
      <4>3. PICK r \in ToSet(devices) : config[r].kind = "bridge" /\ config[r].secondary = q[1]
        BY <3>1, <3>2, <4>2 DEF Origin
      <4>4. r \in Reachable
        BY <1>1 DEF OnlyReachable
      <4>5. r = p
        BY <1>7, <1>19, <4>1, <4>3, <4>4 DEF IsTree
      <4> QED BY <2>2, <4>5
    <3>3. CASE q[3] # 0
      <4>1. p = <<q[1], q[2], 0>>
        BY <1>9, <2>3, <3>3
      <4>2. <<q[1], q[2], 0>> \in ToSet(devices)
        BY <3>1, <3>3 DEF Origin
      <4> QED BY <2>2, <4>1, <4>2
    <3> QED BY <3>2, <3>3
  <2>4. \A q : Origin(q) => Origin(q)'
    BY <1>13, MachineSame DEF Origin
  <2>5. ASSUME NEW q \in ToSet(F) PROVE Origin(q)'
    <3>1. \/ q[3] = 0 /\ config[p].kind = "bridge" /\ config[p].secondary = q[1]
          \/ q[3] # 0 /\ p = <<q[1], q[2], 0>>
      BY <1>9
    <3>2. p \in ToSet(devices')
      BY <1>13
    <3> QED BY <3>1, <3>2 DEF Origin
  <2>6. NoRepeats(devices') /\ NoRepeats(todo') /\ ToSet(devices') \cap ToSet(todo') = {}
    BY <1>12, <1>13, <2>2, <2>3
  <2>7. \A q \in ToSet(devices') \cup ToSet(todo') : Origin(q)'
    BY <1>12, <1>13, <2>2, <2>4, <2>5
  <2> QED BY <2>6, <2>7 DEF FoundOnce
<1> QED BY <1>14, <1>15, <1>18, <1>19, MachineSame DEF PciInv

LEMMA ScanFunctionStep ==
  ASSUME PciInv, config # NoConfig, ScanFunction
  PROVE  PciInv'
<1>1. todo # <<>> /\ ~full /\ config' = config /\ root' = root
  BY DEF ScanFunction
<1>2. CASE ~Present(Head(todo))
  <2>1. todo' = Tail(todo) /\ devices' = devices /\ full' = full
    BY <1>2 DEF ScanFunction
  <2> QED BY <1>1, <1>2, <2>1, AbsentStep
<1>3. CASE Present(Head(todo)) /\ Len(devices) = MaxDevices
  <2>1. devices' = devices /\ full' = TRUE /\ todo' = <<>>
    BY <1>3 DEF ScanFunction, AddDevice
  <2> QED BY <1>1, <1>3, <2>1, FullStep
<1>4. CASE Present(Head(todo)) /\ Len(devices) # MaxDevices
  <2>1. devices' = Append(devices, Head(todo)) /\ full' = full
    BY <1>4 DEF ScanFunction, AddDevice
  <2>2. todo' = Follow(Head(todo)) \o Tail(todo)
    BY <1>1, <1>4, <2>1 DEF ScanFunction
  <2> QED BY <1>1, <1>4, <2>1, <2>2, AddedStep
<1> QED BY <1>2, <1>3, <1>4

LEMMA PciStep == PciInv /\ [Next]_vars => PciInv'
<1> SUFFICES ASSUME PciInv, [Next]_vars PROVE PciInv'
  OBVIOUS
<1>1. CASE FirmwareEvent \/ Loader
  BY <1>1, LoaderStep, PciUnchanged
<1>2. CASE InitializeKernel \/ InitializeACPI \/ WaitMilliseconds \/ EnterEventLoop
  <2>1. UNCHANGED pciVars
    BY <1>2 DEF InitializeKernel, InitializeACPI, WaitMilliseconds, EnterEventLoop, RestUnchanged
  <2> QED BY <2>1, PciUnchanged
<1>3. CASE InitializeUsb \/ Usb \/ Hardware \/ UNCHANGED vars
  <2>1. UNCHANGED pciVars
    BY <1>3 DEF InitializeUsb, Usb, Hardware, vars
  <2> QED BY <2>1, PciUnchanged
<1>4. CASE InitializePCI
  <2>1. CASE BeginScan
    BY <2>1, BeginScanStep
  <2>2. CASE ScanAllBus
    BY <2>2, ScanAllBusStep
  <2>3. CASE ScanFunction
    <3>1. config # NoConfig
      BY <2>3 DEF ScanFunction, PciInv
    <3> QED BY <2>3, <3>1, ScanFunctionStep
  <2>4. CASE UNCHANGED pciVars
    BY <2>4, PciUnchanged
  <2> QED BY <1>4, <2>1, <2>2, <2>3, <2>4 DEF InitializePCI
<1> QED BY <1>1, <1>2, <1>3, <1>4 DEF Next, Kernel

\* When the scan has ended well, the buses whose functions are all in the table
\* hold the root buses and are closed under bridges.
LEMMA NothingLeft ==
  ASSUME PciInv, ScanEnded, ~full
  PROVE  Reachable \subseteq ToSet(devices)
<1> DEFINE S == {b \in Buses : BusScanned(b)}
<1>1. config # NoConfig /\ todo = <<>> /\ root = functions
  BY DEF ScanEnded
<1>2. PciType /\ NothingMissed
  BY <1>1 DEF PciInv
<1>3. config \in Topologies
  BY <1>2 DEF PciType
<1>4. DOMAIN config \subseteq Places /\ functions \in 1 .. LastFunction + 1 /\ RootBuses \subseteq Buses
      /\ \A p \in DOMAIN config : config[p].secondary \in Buses
  BY <1>3, ConfigParts
<1>5. ToSet(todo) = {}
  BY <1>1, ToSetEmpty
<1>6. \A q : Scanned(q) /\ Present(q) => q \in ToSet(devices)
  BY <1>5 DEF Scanned
<1>7. ASSUME NEW b \in S, NEW p \in Visible(b) PROVE p \in ToSet(devices)
  <2>1. p \in DOMAIN config /\ p[1] = b /\ (p[3] # 0 => Present(<<b, p[2], 0>>) /\ config[<<b, p[2], 0>>].multi)
    BY VisibleParts
  <2>2. p = <<b, p[2], p[3]>> /\ p[2] \in 0 .. LastDevice /\ p[3] \in 0 .. LastFunction
    BY <1>4, <2>1, PlaceParts
  <2>3. Scanned(<<b, p[2], 0>>)
    BY <2>2 DEF BusScanned
  <2>4. CASE p[3] = 0
    <3>1. Scanned(p) /\ Present(p)
      BY <2>1, <2>2, <2>3, <2>4 DEF Present
    <3> QED BY <1>6, <3>1
  <2>5. CASE p[3] # 0
    <3>1. PICK r : r = <<b, p[2], 0>>
      OBVIOUS
    <3>2. r \in ToSet(devices) /\ config[r].multi /\ r[1] = b /\ r[2] = p[2] /\ r[3] = 0
      BY <1>6, <2>1, <2>3, <2>5, <3>1
    <3>3. p[3] \in 1 .. LastFunction
      BY <2>2, <2>5, PciAssumption
    <3>4. Scanned(<<r[1], r[2], p[3]>>)
      BY <1>2, <3>2, <3>3 DEF NothingMissed
    <3>5. Scanned(p) /\ Present(p)
      BY <2>1, <2>2, <3>2, <3>4 DEF Present
    <3> QED BY <1>6, <3>5
  <2> QED BY <2>4, <2>5
<1>8. RootBuses \subseteq S
  <2> SUFFICES ASSUME NEW b \in RootBuses PROVE BusScanned(b)
    BY <1>4
  <2>1. b < root
    BY <1>1, <1>4, PciAssumption DEF RootBuses
  <2> QED BY <1>2, <2>1 DEF NothingMissed
<1>9. Closed(S)
  <2> SUFFICES ASSUME NEW b \in S, NEW p \in Bridges(b) PROVE config[p].secondary \in S
    BY DEF Closed
  <2>1. p \in Visible(b) /\ config[p].kind = "bridge"
    BY DEF Bridges
  <2>2. p \in ToSet(devices) /\ p \in DOMAIN config
    BY <1>7, <2>1, VisibleParts
  <2>3. BusScanned(config[p].secondary)
    BY <1>2, <2>1, <2>2 DEF NothingMissed
  <2> QED BY <1>4, <2>2, <2>3
<1>10. ReachableBuses \subseteq S
  <2>1. S \in SUBSET Buses
    OBVIOUS
  <2> HIDE DEF S
  <2> QED BY <1>8, <1>9, <2>1 DEF ReachableBuses
<1> HIDE DEF S
<1> QED BY <1>7, <1>10 DEF Reachable

\* pci::devices: when ScanAllBus returns, the table holds exactly the functions
\* that bridges lead to, each once when the bus numbers form a tree, and the
\* scan fails only when there are more of them than the table has room for.
THEOREM PciCompleteTheorem == Spec => []PciComplete
<1>1. Init => PciInv
  BY DEF Init, BootInit, PciInit, PciInv
<1>2. PciInv /\ [Next]_vars => PciInv'
  BY PciStep
<1>3. ASSUME PciInv PROVE PciComplete
  <2>1. CASE ~ScanEnded
    BY <2>1 DEF PciComplete
  <2>2. CASE ScanEnded /\ full
    BY <1>3, <2>2 DEF PciInv, PciComplete, ScanEnded
  <2>3. CASE ScanEnded /\ ~full
    <3>1. PciType /\ OnlyReachable /\ (IsTree => FoundOnce)
      BY <1>3, <2>3 DEF PciInv, ScanEnded
    <3>2. ToSet(devices) = Reachable
      BY <1>3, <2>3, <3>1, NothingLeft DEF OnlyReachable
    <3>3. IsFiniteSet(Reachable) /\ devices \in Seq(Places)
      BY <3>1, ReachableParts DEF PciType
    <3>4. devices \in Seq(Reachable)
      <4>1. \A i \in 1 .. Len(devices) : devices[i] \in Reachable
        BY <3>2, <3>3 DEF ToSet
      <4> QED BY <3>3, <4>1
    <3>5. ASSUME IsTree PROVE Len(devices) = Cardinality(Reachable)
      <4>1. NoRepeats(devices)
        BY <3>1, <3>5 DEF FoundOnce
      <4> QED BY <3>2, <3>3, <3>4, <4>1, LengthBound
    <3> QED BY <2>3, <3>2, <3>5 DEF PciComplete
  <2> QED BY <2>1, <2>2, <2>3
<1> QED BY <1>1, <1>2, <1>3, PTL DEF Spec

=============================================================================
