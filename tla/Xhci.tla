-------------------------------- MODULE Xhci --------------------------------
(***************************************************************************)
(* The USB host controllers at boot: usb::Initialize (usb.cpp), the xHCI   *)
(* driver (xhci.cpp) with its command, transfer and event rings, and the   *)
(* enumeration of the root ports (ScanPorts, AddressDevice,                *)
(* ControlTransfer, UsbDevice).  The controller is hardware: the actions   *)
(* named Hc... are modelled from what the driver relies on.                *)
(*                                                                         *)
(* The driver polls: every wait is a busy loop that a state of the         *)
(* controller ends.  Ring 0 is the command ring, ring s the ring of the    *)
(* default endpoint of slot s; the last entry of each is the Link TRB.     *)
(***************************************************************************)
EXTENDS Pci

CONSTANTS
  max_ports_, max_slots_,    \* HCSPARAMS1
  kCmdRingSize, kEp0RingSize, kEventRingSize,
  kMaxControllers,           \* the length of usb::controllers
  PedIsW1C,                  \* writing 1 to PORTSC.PED disables the port (TRUE in the xHCI
                             \* specification, FALSE in the emulator of devenv/start_qemu.sh)
  MaxPlugs                   \* bound: devices plugged in or out during the scan

Ports == 1 .. max_ports_
Slots == 1 .. max_slots_
Rings == 0 .. max_slots_
Size(r) == IF r = 0 THEN kCmdRingSize ELSE kEp0RingSize

ASSUME XhciAssumption ==
  /\ max_ports_ \in Nat /\ max_slots_ \in Nat /\ MaxPlugs \in Nat /\ kMaxControllers \in Nat
  /\ kCmdRingSize \in Nat \ 0 .. 2    \* a command, an entry that stays empty, and the Link TRB
  /\ kEp0RingSize \in Nat \ 0 .. 4    \* the same for the three stages of a transfer
  /\ kEventRingSize \in Nat /\ kEventRingSize > 2 * max_ports_ + 1    \* see HcRoom
  /\ PedIsW1C \in BOOLEAN

VARIABLES
  dev, controllers,  \* usb::Initialize: devices looked at, controllers registered
  pc, port, slot,    \* where Initialize of one controller is; locals of ScanPorts
  td,                \* TRBs ControlTransfer has still to push
  rings,             \* cmd_ring_ and slot_data_[s].ep[0]
  events,            \* event_ring_ with event_ring_dequeue_ and event_ring_cycle_
  event,             \* index of the event WaitEvent returned, NoEvent before
  dcbaa,             \* slots with a device context
  hc,                \* the controller
  portsc,            \* its port registers
  rung,              \* rings whose doorbell was rung and that it is working on
  sent, got,         \* TRBs pushed on and taken from each ring (history)
  faulted, configured, \* ports with an error or a plug, ports configured (history)
  plugs

driverVars == <<dev, controllers, pc, port, slot, td, rings, events, event, dcbaa>>
hcVars == <<hc, portsc, rung>>
historyVars == <<sent, got, faulted, configured, plugs>>
xhciVars == <<driverVars, hcVars, historyVars>>

NoEvent == kEventRingSize

\* cycle bits are 0 and 1; a new ring is all zero and the driver starts with 1
Flip(bit) == 1 - bit
EmptyTrb == [cycle |-> 0, type |-> "none", n |-> 0]
EmptyRing(r) == [trb |-> [i \in 0 .. Size(r) - 1 |-> EmptyTrb], enqueue |-> 0, cycle |-> 1]
EmptyEvents == [trb |-> [i \in 0 .. kEventRingSize - 1 |->
                           [cycle |-> 0, type |-> "none", ring |-> 0, n |-> 0, ok |-> FALSE, slot |-> 0]],
                dequeue |-> 0, cycle |-> 1]
NewHc == [st |-> "firmware", deq |-> [r \in Rings |-> 0], ccs |-> [r \in Rings |-> 1],
          enq |-> 0, pcs |-> 1, erdp |-> 0, slots |-> {}, halted |-> {},
          wired |-> {}, plugged |-> {}]
NoPort == [ccs |-> FALSE, csc |-> FALSE, ped |-> FALSE, pr |-> FALSE, prc |-> FALSE]

\* the constructor: a controller nobody has touched yet
NewController ==
  /\ port' = 1 /\ slot' = 0 /\ td' = <<>> /\ event' = NoEvent /\ dcbaa' = {}
  /\ rings' = [r \in Rings |-> EmptyRing(r)] /\ events' = EmptyEvents
  /\ hc' = NewHc /\ portsc' = [p \in Ports |-> NoPort] /\ rung' = {}
  /\ sent' = [r \in Rings |-> 0] /\ got' = [r \in Rings |-> 0]
  /\ faulted' = {} /\ configured' = {} /\ plugs' = 0

XhciInit ==
  /\ dev = 0 /\ controllers = <<>> /\ pc = "idle"
  /\ port = 1 /\ slot = 0 /\ td = <<>> /\ event = NoEvent /\ dcbaa = {}
  /\ rings = [r \in Rings |-> EmptyRing(r)] /\ events = EmptyEvents
  /\ hc = NewHc /\ portsc = [p \in Ports |-> NoPort] /\ rung = {}
  /\ sent = [r \in Rings |-> 0] /\ got = [r \in Rings |-> 0]
  /\ faulted = {} /\ configured = {} /\ plugs = 0

-----------------------------------------------------------------------------
(***************************************************************************)
(* Rings, as the driver writes them                                        *)
(***************************************************************************)
\* Mutant: the driver's cycle bit does not flip at the Link TRB.
PushWithoutToggle(rg, r, type) ==
  LET e == rg.enqueue
      put == [rg.trb EXCEPT ![e] = [cycle |-> rg.cycle, type |-> type, n |-> sent[r] + 1]]
  IN IF e + 1 = Size(r) - 1
     THEN [trb |-> [put EXCEPT ![e + 1].cycle = rg.cycle], enqueue |-> 0, cycle |-> rg.cycle]
     ELSE [rg EXCEPT !.trb = put, !.enqueue = e + 1]

\* PushCommand, PushTransfer: the entry with the driver's cycle bit; in front
\* of the Link TRB its cycle bit too, and the driver's flips
Push(rg, r, type) ==
  LET e == rg.enqueue
      put == [rg.trb EXCEPT ![e] = [cycle |-> rg.cycle, type |-> type, n |-> sent[r] + 1]]
  IN IF e + 1 = Size(r) - 1
     THEN [trb |-> [put EXCEPT ![e + 1].cycle = rg.cycle], enqueue |-> 0, cycle |-> Flip(rg.cycle)]
     ELSE [rg EXCEPT !.trb = put, !.enqueue = e + 1]

PushCommand(type) ==
  /\ rings' = [rings EXCEPT ![0] = Push(@, 0, type)]
  /\ sent' = [sent EXCEPT ![0] = @ + 1]
  /\ rung' = rung \cup {0}

\* one turn of WaitEvent: take the entry, move ERDP behind it, and return the
\* entry unless it is a Port Status Change Event
Arrived == events.trb[events.dequeue].cycle = events.cycle
Waiting == pc \in {"slot", "address", "desc", "config"} /\ td = <<>> /\ event = NoEvent
Dequeue(ev) ==
  IF ev.dequeue + 1 = kEventRingSize THEN [ev EXCEPT !.dequeue = 0, !.cycle = Flip(@)]
  ELSE [ev EXCEPT !.dequeue = @ + 1]
\* Mutant: port events are returned too.
WaitAnyEvent ==
  /\ Waiting /\ Arrived
  /\ events' = Dequeue(events)
  /\ hc' = [hc EXCEPT !.erdp = events'.dequeue]
  /\ event' = events.dequeue
  /\ UNCHANGED <<dev, controllers, pc, port, slot, td, rings, dcbaa, portsc, rung, historyVars>>

\* Mutant: ERDP is not updated.
WaitEventKeepsErdp ==
  /\ Waiting /\ Arrived
  /\ events' = Dequeue(events)
  /\ event' = IF events.trb[events.dequeue].type = "port" THEN NoEvent ELSE events.dequeue
  /\ UNCHANGED <<dev, controllers, pc, port, slot, td, rings, dcbaa, hc, portsc, rung, historyVars>>

WaitEvent ==
  /\ Waiting /\ Arrived
  /\ events' = Dequeue(events)
  /\ hc' = [hc EXCEPT !.erdp = events'.dequeue]
  /\ event' = IF events.trb[events.dequeue].type = "port" THEN NoEvent ELSE events.dequeue
  /\ UNCHANGED <<dev, controllers, pc, port, slot, td, rings, dcbaa, portsc, rung, historyVars>>

\* the event WaitEvent returned, read through the pointer
Answer == events.trb[event]

-----------------------------------------------------------------------------
(***************************************************************************)
(* Initialize                                                              *)
(***************************************************************************)
\* hc->Initialize() returned an error: delete hc.  Its rings are not freed.
InitializeFails ==
  /\ pc' = "devices"
  /\ NewController
  /\ UNCHANGED <<dev, controllers>>

\* Older Intel chipsets share ports (USB2PRM, USB3PRM) between the xHCI and a
\* companion controller, and firmware may leave any of them to the latter.
Chipsets ==
  {c \in [switchable : BOOLEAN, mask : SUBSET Ports, routed : SUBSET Ports] :
     c.routed \subseteq c.mask /\ (~c.switchable => c.mask = {})}
RouteToXhci(c) == (Ports \ c.mask) \cup IF c.switchable THEN c.mask ELSE c.routed

\* RouteToXhci, ConfigurePCI, ReadBar, ReadCapabilityRegisters; then the first
\* write of ResetController, which stops the controller
ReadCapabilityRegisters ==
  /\ pc = "capability"
  /\ \/ InitializeFails
     \/ /\ \E c \in Chipsets : hc' = [hc EXCEPT !.st = "halting", !.wired = RouteToXhci(c)]
        /\ pc' = "halt"
        /\ UNCHANGED <<dev, controllers, port, slot, td, rings, events, event, dcbaa, portsc, rung, historyVars>>

\* ResetController: HCH is set, write HCRST and wait until it and CNR are clear
ResetController ==
  /\ pc = "halt" /\ hc.st = "halted"
  /\ hc' = [hc EXCEPT !.st = "resetting"] /\ pc' = "reset"
  /\ UNCHANGED <<dev, controllers, port, slot, td, rings, events, event, dcbaa, portsc, rung, historyVars>>

\* StartController: DCBAA, command ring, event ring and its segment table;
\* each allocation may fail
StartController ==
  /\ pc = "reset" /\ hc.st = "ready"
  /\ \/ InitializeFails
     \/ /\ rings' = [rings EXCEPT ![0] = EmptyRing(0)] /\ events' = EmptyEvents
        /\ hc' = [hc EXCEPT !.st = "starting"] /\ pc' = "run"
        /\ UNCHANGED <<dev, controllers, port, slot, td, event, dcbaa, portsc, rung, historyVars>>

Started ==
  /\ pc = "run" /\ hc.st = "running"
  /\ pc' = "port"
  /\ UNCHANGED <<dev, controllers, port, slot, td, rings, events, event, dcbaa, hcVars, historyVars>>

-----------------------------------------------------------------------------
(***************************************************************************)
(* ScanPorts                                                               *)
(***************************************************************************)
\* Mutant: an error of a control transfer ends the loop.
NextPortEndsAfterError == pc' = "port" /\ slot' = 0 /\ td' = <<>> /\ event' = NoEvent
                          /\ port' = IF pc = "desc" THEN max_ports_ + 1 ELSE port + 1

\* continue: the next port, or the end of the loop
NextPort == pc' = "port" /\ port' = port + 1 /\ slot' = 0 /\ td' = <<>> /\ event' = NoEvent

\* a write of PORTSC that keeps what was read except the W1C bits of the mask
WritePort(p, old) ==
  [portsc[p] EXCEPT !.ped = @ /\ ~(PedIsW1C /\ old.ped)]

\* is a device connected?
ScanPort ==
  /\ pc = "port" /\ port \in Ports
  /\ IF portsc[port].ccs THEN pc' = "connected" /\ UNCHANGED <<port, slot, td, event>> ELSE NextPort
  /\ UNCHANGED <<dev, controllers, rings, events, dcbaa, hcVars, historyVars>>

\* what was read is written back with PR.  (PED was 0: no port is enabled between
\* the reset of the controller and its own.)  Without a device nothing starts.
ResetPort ==
  /\ pc = "connected"
  /\ portsc' = [portsc EXCEPT ![port] = [WritePort(port, @) EXCEPT !.pr = portsc[port].ccs]]
  /\ pc' = "prc"
  /\ UNCHANGED <<dev, controllers, port, slot, td, rings, events, event, dcbaa, hc, rung, historyVars>>

\* PRC is set: clear it
ClearPrc ==
  /\ pc = "prc" /\ portsc[port].prc
  /\ portsc' = [portsc EXCEPT ![port] = [WritePort(port, @) EXCEPT !.prc = FALSE]]
  /\ pc' = "enabled"
  /\ UNCHANGED <<dev, controllers, port, slot, td, rings, events, event, dcbaa, hc, rung, historyVars>>

\* the port must be enabled; then the Enable Slot Command
EnableSlot ==
  /\ pc = "enabled"
  /\ IF portsc[port].ped
     THEN /\ PushCommand("enable_slot") /\ pc' = "slot"
          /\ UNCHANGED <<port, slot, td, event, faulted>>
     ELSE NextPort /\ UNCHANGED <<rings, sent, rung, faulted>>
  /\ UNCHANGED <<dev, controllers, events, dcbaa, hc, portsc, got, configured, plugs>>

\* AddressDevice up to its command: device context into the DCBAA, endpoint
\* ring, input context.  An allocation that fails returns where it stands.
AddressDevice ==
  /\ pc = "slot" /\ event # NoEvent
  /\ \/ /\ ~Answer.ok
        /\ NextPort /\ faulted' = faulted \cup {port}
        /\ UNCHANGED <<rings, sent, rung, dcbaa>>
     \/ /\ Answer.ok
        /\ dcbaa' \in {dcbaa, dcbaa \cup {Answer.slot}}
        /\ NextPort /\ faulted' = faulted \cup {port}
        /\ UNCHANGED <<rings, sent, rung>>
     \/ /\ Answer.ok
        /\ slot' = Answer.slot /\ dcbaa' = dcbaa \cup {Answer.slot}
        /\ rings' = [rings EXCEPT ![0] = Push(@, 0, "address_device"), ![Answer.slot] = EmptyRing(Answer.slot)]
        /\ sent' = [sent EXCEPT ![0] = @ + 1] /\ rung' = rung \cup {0}
        /\ pc' = "address" /\ event' = NoEvent
        /\ UNCHANGED <<port, td, faulted>>
  /\ UNCHANGED <<dev, controllers, events, hc, portsc, got, configured, plugs>>

\* GetDescriptor and SetConfiguration: the stages of ControlTransfer
Request(next, stages) == pc' = next /\ td' = stages /\ event' = NoEvent /\ UNCHANGED <<port, slot>>

\* a completion ends AddressDevice or ControlTransfer; the next request follows
HandleAnswer ==
  /\ pc \in {"address", "desc", "config"} /\ event # NoEvent
  /\ IF ~Answer.ok THEN NextPort /\ faulted' = faulted \cup {port} /\ UNCHANGED configured
     ELSE /\ UNCHANGED faulted
          /\ CASE pc = "address" -> Request("desc", <<"setup", "data", "status">>) /\ UNCHANGED configured
               [] pc = "desc" -> Request("config", <<"setup", "status">>) /\ UNCHANGED configured
               [] pc = "config" -> NextPort /\ configured' = configured \cup {port}
  /\ UNCHANGED <<dev, controllers, rings, events, dcbaa, hcVars, sent, got, plugs>>

\* one PushTransfer of ControlTransfer; the doorbell after the last
PushTransfer ==
  /\ td # <<>>
  /\ rings' = [rings EXCEPT ![slot] = Push(@, slot, Head(td))]
  /\ sent' = [sent EXCEPT ![slot] = @ + 1]
  /\ td' = Tail(td)
  /\ rung' = IF Len(td) = 1 THEN rung \cup {slot} ELSE rung
  /\ UNCHANGED <<dev, controllers, pc, port, slot, events, event, dcbaa, hc, portsc, got, faulted, configured, plugs>>

-----------------------------------------------------------------------------
(***************************************************************************)
(* usb::Initialize: first every xHCI controller, then EHCI ones            *)
(***************************************************************************)
\* the loops run over all devices twice; a step goes to the next of the kind
Turn == dev + 1
Loop(t) == IF t <= Len(devices) THEN "xhci" ELSE "ehci"
DeviceOf(t) == devices[IF Loop(t) = "xhci" THEN t ELSE t - Len(devices)]

NextDevice ==
  /\ pc = "devices"
  /\ IF Turn > 2 * Len(devices) \/ (Loop(Turn) = "ehci" /\ Len(controllers) >= kMaxControllers)
     THEN pc' = "ended" /\ UNCHANGED <<dev, controllers>>
     ELSE /\ dev' = Turn
          /\ IF config[DeviceOf(Turn)].kind # Loop(Turn) THEN UNCHANGED <<pc, controllers>>
             ELSE IF Loop(Turn) = "xhci" THEN pc' = "capability" /\ UNCHANGED controllers
             \* EhciController::Initialize: ConfigurePCI and ReadBar of BAR 0, which does not fail
             ELSE controllers' = Append(controllers, DeviceOf(Turn)) /\ UNCHANGED pc
  /\ UNCHANGED <<port, slot, td, rings, events, event, dcbaa, hcVars, historyVars>>

\* ScanPorts returns success: controllers[num_controllers++] = hc
Registered ==
  /\ pc = "port" /\ port \notin Ports
  /\ controllers' = Append(controllers, DeviceOf(dev))
  /\ pc' = "devices"
  /\ NewController
  /\ UNCHANGED dev

Driver ==
  \/ NextDevice \/ ReadCapabilityRegisters \/ ResetController \/ StartController \/ Started
  \/ ScanPort \/ ResetPort \/ ClearPrc \/ EnableSlot \/ AddressDevice \/ HandleAnswer \/ PushTransfer
  \/ WaitEvent \/ Registered

-----------------------------------------------------------------------------
(***************************************************************************)
(* The controller                                                          *)
(***************************************************************************)
HcStep == [halting |-> "halted", resetting |-> "notready", notready |-> "ready", starting |-> "running"]

\* halts, comes out of reset, starts; devices are connected when it is ready
HcStatus ==
  /\ hc.st \in DOMAIN HcStep
  /\ IF hc.st = "notready"
     THEN \E P \in SUBSET Ports :
            /\ hc' = [hc EXCEPT !.st = HcStep[hc.st], !.plugged = P]
            /\ portsc' = [p \in Ports |-> [NoPort EXCEPT !.ccs = p \in P \cap hc.wired]]
     ELSE hc' = [hc EXCEPT !.st = HcStep[hc.st]] /\ UNCHANGED portsc
  /\ UNCHANGED <<driverVars, rung, historyVars>>

\* The event ring is full when one entry is left.  A port posts an event when
\* CSC or PRC becomes set, and the driver never clears CSC: with room for two
\* events of every port and one answer the ring does not fill.
HcRoom == (hc.enq + 1) % kEventRingSize # hc.erdp
Posted(h) == [h EXCEPT !.enq = (@ + 1) % kEventRingSize,
                       !.pcs = IF h.enq + 1 = kEventRingSize THEN Flip(@) ELSE @]
Post(type, r, n, ok, s) ==
  events' = [events EXCEPT !.trb[hc.enq] =
               [cycle |-> hc.pcs, type |-> type, ring |-> r, n |-> n, ok |-> ok, slot |-> s]]

\* where the controller looks next on a ring: behind the Link TRB if that is its turn
AtLink(r) == hc.deq[r] = Size(r) - 1
LinkReady(r) == AtLink(r) /\ rings[r].trb[hc.deq[r]].cycle = hc.ccs[r]
Look(r) == IF LinkReady(r) THEN 0 ELSE hc.deq[r]
LookCycle(r) == IF LinkReady(r) THEN Flip(hc.ccs[r]) ELSE hc.ccs[r]
Ready(r) == (AtLink(r) => LinkReady(r)) /\ rings[r].trb[Look(r)].cycle = LookCycle(r)
Next1(h, r) == [h EXCEPT !.deq[r] = Look(r) + 1, !.ccs[r] = LookCycle(r)]

\* executes the next command
HcCommand ==
  /\ hc.st = "running" /\ 0 \in rung /\ Ready(0) /\ HcRoom
  /\ LET trb == rings[0].trb[Look(0)]
         h == Posted(Next1(hc, 0))
     IN \/ /\ trb.type = "enable_slot" /\ hc.slots # Slots
           /\ LET s == CHOOSE x \in Slots \ hc.slots : \A y \in Slots \ hc.slots : x <= y
              IN Post("command", 0, trb.n, TRUE, s) /\ hc' = [h EXCEPT !.slots = @ \cup {s}]
        \/ /\ trb.type = "address_device"
           /\ Post("command", 0, trb.n, TRUE, slot) /\ hc' = [h EXCEPT !.deq[slot] = 0, !.ccs[slot] = 1]
        \/ Post("command", 0, trb.n, FALSE, 0) /\ hc' = h
  /\ got' = [got EXCEPT ![0] = @ + 1]
  /\ UNCHANGED <<dev, controllers, pc, port, slot, td, rings, event, dcbaa, portsc, rung, sent, faulted, configured, plugs>>

\* executes the next stage of a control transfer: only the status stage asks
\* for an event; an error posts one and halts the endpoint
HcTransfer(s) ==
  /\ hc.st = "running" /\ s \in rung \ hc.halted /\ Ready(s) /\ HcRoom
  /\ LET trb == rings[s].trb[Look(s)]
     IN \/ trb.type = "status" /\ Post("transfer", s, trb.n, TRUE, s) /\ hc' = Posted(Next1(hc, s))
        \/ trb.type # "status" /\ hc' = Next1(hc, s) /\ UNCHANGED events
        \/ Post("transfer", s, trb.n, FALSE, s) /\ hc' = [Posted(Next1(hc, s)) EXCEPT !.halted = @ \cup {s}]
  /\ got' = [got EXCEPT ![s] = @ + 1]
  /\ UNCHANGED <<dev, controllers, pc, port, slot, td, rings, event, dcbaa, portsc, rung, sent, faulted, configured, plugs>>

\* finds nothing more to do on a ring until the next doorbell
HcIdle(r) ==
  /\ r \in rung /\ ~Ready(r)
  /\ rung' = rung \ {r}
  /\ UNCHANGED <<driverVars, hc, portsc, historyVars>>

\* a port reset completes, with the port enabled or not
HcPortReset(p) ==
  /\ portsc[p].pr /\ HcRoom
  /\ \E e \in BOOLEAN : /\ portsc' = [portsc EXCEPT ![p].pr = FALSE, ![p].prc = TRUE, ![p].ped = e]
                        /\ faulted' = IF e THEN faulted ELSE faulted \cup {p}
  /\ IF portsc[p].prc THEN UNCHANGED <<events, hc>>
     ELSE Post("port", 0, p, TRUE, 0) /\ hc' = Posted(hc)
  /\ UNCHANGED <<dev, controllers, pc, port, slot, td, rings, event, dcbaa, rung, sent, got, configured, plugs>>

\* a device present at the start is announced (the emulator never does)
HcAnnounce(p) ==
  /\ hc.st = "running" /\ portsc[p].ccs /\ ~portsc[p].csc /\ HcRoom
  /\ portsc' = [portsc EXCEPT ![p].csc = TRUE]
  /\ Post("port", 0, p, TRUE, 0) /\ hc' = Posted(hc)
  /\ UNCHANGED <<dev, controllers, pc, port, slot, td, rings, event, dcbaa, rung, historyVars>>

\* a device is plugged in or out, which ends a reset of the port; PRC may be set
\* then or not
HcPlug(p) ==
  /\ hc.st = "running" /\ plugs < MaxPlugs /\ HcRoom
  /\ \E prc \in {portsc[p].prc, portsc[p].prc \/ portsc[p].pr} :
       /\ portsc' = [portsc EXCEPT ![p] = [ccs |-> ~portsc[p].ccs, csc |-> TRUE, ped |-> FALSE,
                                           pr |-> FALSE, prc |-> prc]]
       /\ IF portsc[p].csc /\ prc = portsc[p].prc THEN UNCHANGED <<events, hc>>
          ELSE Post("port", 0, p, TRUE, 0) /\ hc' = Posted(hc)
  /\ plugs' = plugs + 1
  /\ faulted' = faulted \cup {p}
  /\ UNCHANGED <<dev, controllers, pc, port, slot, td, rings, event, dcbaa, rung, sent, got, configured>>

Controller ==
  \/ HcStatus \/ HcCommand
  \/ \E s \in Slots : HcTransfer(s)
  \/ \E r \in Rings : HcIdle(r)
  \/ \E p \in Ports : HcPortReset(p) \/ HcAnnounce(p) \/ HcPlug(p)
-----------------------------------------------------------------------------
(***************************************************************************)
(* Properties                                                              *)
(***************************************************************************)
\* On every ring the controller finds the TRBs that were pushed and it has not
\* taken, the oldest first, and nothing else: no entry is lost, repeated or
\* read again when the ring wraps (PushCommand, PushTransfer, the Link TRBs).
RingFaithful ==
  \A r \in Rings : /\ Ready(r) <=> got[r] < sent[r]
                   /\ Ready(r) => rings[r].trb[Look(r)].n = got[r] + 1

\* The event a caller of WaitEvent reads, through a pointer into the ring and
\* after ERDP has passed it, is the answer to the request it has just made:
\* port events in between, wraps and late answers never take its place.
Stages == IF pc = "desc" THEN 3 ELSE 2
AnswerMatches ==
  event # NoEvent =>
    IF pc \in {"slot", "address"} THEN Answer.type = "command" /\ Answer.n = sent[0]
    ELSE Answer.type = "transfer" /\ Answer.ring = slot /\ Answer.n \in sent[slot] - Stages + 1 .. sent[slot]

\* When ScanPorts returns, every port with a device is configured, unless that
\* port itself had an error or its device was just plugged in or out: a failure
\* on one port (the continue statements) costs no other port its turn, and no
\* port is left to a companion controller (RouteToXhci).  It holds only where PED
\* ignores a 1 (PedIsW1C = FALSE): where PED is cleared by it, ClearPrc disables
\* every port that the reset has enabled.
EnumerationComplete ==
  pc = "port" /\ port \notin Ports => hc.plugged \ faulted \subseteq configured

\* usb::Initialize returns, however ports and controllers fail, as long as the
\* hardware answers: no busy loop waits for what cannot come, but the one on PRC
\* of a port whose device was unplugged between the read of CCS and the end of
\* the reset.
Unplugged == pc = "prc" /\ port \in faulted /\ ~portsc[port].pr /\ ~portsc[port].prc
UsbEnds == (pc = "devices") ~> (pc = "ended" \/ Unplugged)
=============================================================================
