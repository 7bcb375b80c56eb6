------------------------------- MODULE MCBoot -------------------------------
(***************************************************************************)
(* Boot with small machines: every way to fill five places of              *)
(* configuration space with bridges and other functions, and machines with *)
(* USB controllers on two buses.                                           *)
(***************************************************************************)
EXTENDS Boot

Fn(kind, multi, secondary) == [kind |-> kind, multi |-> multi, secondary |-> secondary]
PlainKinds == {Fn("other", FALSE, 0), Fn("other", TRUE, 0), Fn("bridge", TRUE, 1), Fn("bridge", FALSE, 0)}
MCPlaces == {<<0, 1, 0>>, <<0, 1, 1>>, <<1, 0, 0>>, <<1, 0, 1>>}

\* machines without USB; functions may be missing
Machine(P, f) == [p \in P \cup {<<0, 0, 0>>} |-> IF p = <<0, 0, 0>> THEN Fn("other", FALSE, 0) ELSE f[p]]
PlainMachines == UNION {{Machine(P, f) : f \in [P -> PlainKinds]} : P \in SUBSET MCPlaces}

\* a root bridge of two functions: two root buses
TwoRoots == {[p \in {<<0, 0, 0>>, <<0, 0, 1>>, <<1, 0, 0>>} |-> Fn("other", TRUE, 0)]}

\* an xHCI controller behind a bridge and two EHCI controllers
UsbMachine ==
  [p \in {<<0, 0, 0>>, <<0, 1, 0>>, <<0, 1, 1>>, <<1, 0, 0>>, <<1, 0, 1>>} |->
     CASE p = <<0, 0, 0>> -> Fn("other", FALSE, 0)
       [] p = <<0, 1, 0>> -> Fn("bridge", TRUE, 1)
       [] p = <<0, 1, 1>> -> Fn("ehci", FALSE, 0)
       [] p = <<1, 0, 0>> -> Fn("xhci", TRUE, 0)
       [] p = <<1, 0, 1>> -> Fn("ehci", FALSE, 0)]

MCTopologies == PlainMachines \cup TwoRoots \cup {UsbMachine}

Segment(load, vaddr, filesz, memsz) == [load |-> load, vaddr |-> vaddr, filesz |-> filesz, memsz |-> memsz]
MCElfs ==
  {<<Segment(TRUE, 2, 2, 2), Segment(TRUE, 4, 1, 2)>>,
   <<Segment(FALSE, 0, 1, 1), Segment(TRUE, 4, 1, 1), Segment(TRUE, 2, 1, 2)>>,
   <<Segment(TRUE, 3, 1, 1)>>}
=============================================================================
