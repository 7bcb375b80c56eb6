--------------------------------- MODULE Pci ---------------------------------
(***************************************************************************)
(* Enumeration of the PCI bus at boot (pci.cpp): ScanAllBus and the mutual *)
(* recursion of ScanBus, ScanDevice and ScanFunction, which fills the      *)
(* table devices.  The calls still to be made for a root bus are the       *)
(* sequence todo; a call of ScanFunction on a bridge puts the calls for    *)
(* the bus behind it in front.                                             *)
(***************************************************************************)
EXTENDS Naturals, Sequences, SequencesExt, FiniteSets

CONSTANTS
  Buses,        \* bus numbers, those of the root buses among them
  LastDevice,   \* 31 in the source
  LastFunction, \* 7 in the source
  MaxDevices,   \* devices.size()
  Topologies    \* machines: what configuration space holds

VARIABLES
  config,  \* the machine's configuration space (never written by the scan)
  root,    \* ScanAllBus: the next function of the host bridge
  todo,    \* functions whose vendor id is still to be read
  devices, \* pci::devices[0 .. num_device - 1]
  full     \* AddDevice returned kFull

pciVars == <<config, root, todo, devices, full>>

Places == Buses \X (0 .. LastDevice) \X (0 .. LastFunction)
Kinds == {"bridge", "xhci", "ehci", "other"}
Function == [kind : Kinds, multi : BOOLEAN, secondary : Buses]

ASSUME PciAssumption ==
  /\ IsFiniteSet(Buses) /\ 0 .. LastFunction \subseteq Buses /\ LastDevice \in Nat /\ LastFunction \in Nat /\ MaxDevices \in Nat \ {0}
  /\ \A c \in Topologies : DOMAIN c \subseteq Places /\ <<0, 0, 0>> \in DOMAIN c
                           /\ \A p \in DOMAIN c : c[p] \in Function

\* ReadVendorId(...) != 0xffff
Present(p) == p \in DOMAIN config
FunctionsFrom(b, d, first) == [i \in 1 .. LastFunction + 1 - first |-> <<b, d, first + i - 1>>]

\* ScanBus: function 0 of every device of the bus
ScanBus(b) == [i \in 1 .. LastDevice + 1 |-> <<b, i - 1, 0>>]

NoConfig == [p \in {} |-> p]
PciInit == config = NoConfig /\ root = 0 /\ todo = <<>> /\ devices = <<>> /\ full = FALSE

\* the machine is what the scan finds: it is chosen when the scan begins
BeginScan ==
  /\ config' \in Topologies
  /\ root' = 0 /\ todo' = <<>>
  /\ devices' = <<>> /\ full' = FALSE

\* one turn of ScanAllBus: a host bridge of several functions has one root bus
\* for each
functions == IF config[<<0, 0, 0>>].multi THEN LastFunction + 1 ELSE 1
ScanAllBus ==
  /\ config # NoConfig /\ todo = <<>> /\ ~full /\ root < functions
  /\ todo' = IF Present(<<0, 0, root>>) THEN ScanBus(root) ELSE <<>>
  /\ root' = root + 1
  /\ UNCHANGED <<config, devices, full>>

\* AddDevice
AddDevice(p) ==
  IF Len(devices) = MaxDevices THEN full' = TRUE /\ UNCHANGED devices
  ELSE devices' = Append(devices, p) /\ UNCHANGED full

\* Mutant: the other functions of a bridge's device are not scanned.
FollowFirstFunctionOnly(p) ==
  IF config[p].kind = "bridge" /\ p[3] = 0 THEN ScanBus(config[p].secondary)
  ELSE IF p[3] = 0 /\ config[p].multi THEN FunctionsFrom(p[1], p[2], 1) ELSE <<>>

\* what follows a function: the bus behind a bridge, then the other
\* functions of its device
Follow(p) ==
  (IF config[p].kind = "bridge" THEN ScanBus(config[p].secondary) ELSE <<>>)
  \o (IF p[3] = 0 /\ config[p].multi THEN FunctionsFrom(p[1], p[2], 1) ELSE <<>>)

\* ScanDevice and ScanFunction: an error ends the whole scan
ScanFunction ==
  /\ todo # <<>> /\ ~full
  /\ LET p == Head(todo) IN
       IF Present(p)
       THEN AddDevice(p) /\ todo' = IF full' THEN <<>> ELSE Follow(p) \o Tail(todo)
       ELSE todo' = Tail(todo) /\ UNCHANGED <<devices, full>>
  /\ UNCHANGED <<config, root>>

ScanEnded == config # NoConfig /\ todo = <<>> /\ (full \/ root = functions)

-----------------------------------------------------------------------------
(***************************************************************************)
(* Properties                                                              *)
(***************************************************************************)
\* the functions of a bus that enumeration should find
Visible(b) ==
  {p \in DOMAIN config : /\ p[1] = b
                         /\ p[3] # 0 => (Present(<<b, p[2], 0>>) /\ config[<<b, p[2], 0>>].multi)}
Bridges(b) == {p \in Visible(b) : config[p].kind = "bridge"}

\* buses that bridges lead to from the root buses: the least set that holds
\* those and is closed under bridges
RootBuses == {f \in 0 .. functions - 1 : Present(<<0, 0, f>>)}
Closed(S) == \A a \in S : \A p \in Bridges(a) : config[p].secondary \in S
ReachableBuses == {b \in Buses : \A S \in SUBSET Buses : RootBuses \subseteq S /\ Closed(S) => b \in S}
Reachable == UNION {Visible(b) : b \in ReachableBuses}

\* no bus has two ways to it: the bridges were given bus numbers as they should
IsTree ==
  \A p \in Reachable : config[p].kind = "bridge" =>
    /\ config[p].secondary \notin RootBuses
    /\ \A q \in Reachable : config[q].kind = "bridge" /\ config[q].secondary = config[p].secondary => q = p

\* When ScanAllBus returns, devices holds exactly the functions that can be
\* reached through bridges from the root buses, each once if the bus numbers
\* form a tree; it fails only on a machine with more functions than the table
\* holds or on one whose bus numbers lead back to a bus already scanned.
PciComplete ==
  ScanEnded =>
    IF full THEN ~IsTree \/ Cardinality(Reachable) > MaxDevices
    ELSE ToSet(devices) = Reachable /\ (IsTree => Len(devices) = Cardinality(Reachable))
=============================================================================
