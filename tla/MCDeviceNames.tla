--------------------------- MODULE MCDeviceNames ---------------------------
(* Small machines for the naming of devices.                               *)
EXTENDS DeviceNames, TLC

\* An ACPI root, a PCI node, _ADR nodes of one output and of two, and a vendor's
\* node such as that of a virtual machine's bus.
Lengths == [root |-> 12, pci |-> 6, adr |-> 8, adr2 |-> 12, vendor |-> 20] @@ (Instance :> 4)

Root == <<"root">>
Card == <<"root", "pci">>
Output == <<"root", "pci", "adr">>
TwoOutputs == <<"root", "pci", "adr2">>
Bridged == <<"root", "pci", "pci", "adr">>
Virtual == <<"vendor">>

Plain(path) == [path |-> path, plain |-> TRUE]
Other(path) == [path |-> path, plain |-> FALSE]

HandleLists ==
  {<<Plain(Root), Plain(Card), Plain(Output)>>,
   <<Plain(Card), Other(Card), Plain(Root)>>,
   <<Other(Card), Plain(Root \o <<Instance>> \o Card), Plain(Card)>>,
   <<Plain(Card \o <<"pci">>), Plain(Card), Plain(<<>>)>>,
   <<Plain(Virtual), Other(Virtual)>>}

DeviceLists ==
  {<<Output, TwoOutputs>>, <<Bridged, NoPath>>, <<NoPath, Output>>, <<Virtual, Output>>, <<Output, Virtual>>}

PCs ==
  {[apple |-> FALSE, devices |-> devices, handles |-> handles, drivers |-> 2,
    manages |-> manages, shamed |-> shamed] :
   devices \in DeviceLists, handles \in HandleLists,
   manages \in {{}, {<<2, 1>>}, {<<1, 2>>, <<2, 2>>}, {<<1, 1>>, <<2, 2>>}}, shamed \in {{}, {2}}}

Macs == {[m EXCEPT !.apple = TRUE] : m \in {n \in PCs : n.manages = {} /\ n.shamed = {}}}

SomeMachines == PCs \cup Macs

\* What StrictNames supposes: the nodes are such, and some of the machines.
ASSUME NamesAreStrict ==
  /\ NodesCarryData
  /\ \E m \in PCs : PathsAreSingle(m) /\ m.manages # {} /\ \E d \in DOMAIN m.devices : OnPCI(m.devices[d])
=============================================================================
