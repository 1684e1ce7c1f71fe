---------------------------- MODULE DeviceNames ----------------------------
(***************************************************************************)
(* Graphics.c: InitUEFI_GOP, up to the menus: find the devices with a      *)
(* graphics output protocol and give each a name, made of those that a     *)
(* driver has for itself, for the controller it manages and for the        *)
(* controller's child, the device.                                         *)
(*                                                                         *)
(* The controller is looked for by device path.  The strict search takes   *)
(* the handle one node short of the device, in bytes, and asks the driver  *)
(* that manages it.  If that gives no name at all, the funky search tries  *)
(* every handle on the way to the device with every driver, until one of   *)
(* them names a child.                                                     *)
(*                                                                         *)
(* A device path is a sequence of nodes, without the one that ends it;     *)
(* Instance separates the instances of a path that has several.  A name is *)
(* where it is from: a driver, and the controller it was asked about.      *)
(***************************************************************************)
EXTENDS Integers, Sequences, FiniteSetsExt

CONSTANTS
  NodeLength,      \* DevicePathNodeLength: the bytes of each kind of node
  Machines,        \* the machines: devices, handles and drivers
  ServicesMayFail  \* may a firmware call fail?

Instance == "instance"
EndLength == 4
Node == DOMAIN NodeLength
NoPath == <<"no path">>  \* for a handle without one: EFI_UNSUPPORTED
Path == Seq(Node)

\* A handle with a device path: is it none of what controllers are not
\* (DriverBinding, LoadedImage, FileSystem and Sio)?
Handle == [path : Path, plain : BOOLEAN]

ASSUME NamesAssumption ==
  /\ NodeLength \in [Node -> Nat \ {0}]
  /\ Instance \in Node /\ NodeLength[Instance] = EndLength
  /\ NoPath \notin Path
  /\ ServicesMayFail \in BOOLEAN
  /\ \A m \in Machines :
       /\ m.apple \in BOOLEAN
       /\ m.devices \in Seq(Path \cup {NoPath}) /\ m.devices # <<>>
       /\ m.handles \in Seq(Handle)
       /\ m.drivers \in Nat
       /\ m.manages \subseteq (1 .. m.drivers) \X DOMAIN m.handles
       /\ m.shamed \subseteq 1 .. m.drivers

VARIABLES
  machine,  \* the machine
  step,     \* where InitUEFI_GOP is
  search,   \* which of the two searches it is in
  dev,      \* DevNum
  cntlr,    \* CntlrIndex
  drv,      \* Name2DriverIndex
  names,    \* DriverDisplayName, ControllerDisplayName, ChildDisplayName
  labels,   \* NameBuffer
  pool      \* pools allocated and not freed

vars == <<machine, step, search, dev, cntlr, drv, names, labels, pool>>

\* Where a name is from; Default stands for "No Driver Name" and the like.
Default == <<0, 0>>
NoNames == [driver |-> Default, controller |-> Default, child |-> Default]

Device == DOMAIN machine.devices
Source == {Default} \cup ((1 .. machine.drivers) \X DOMAIN machine.handles)
Names == [driver : Source, controller : Source, child : Source]
Unnamed == [kind |-> "none", names |-> NoNames]
Label == [kind : {"none", "strict", "funky", "weird", "apple", "null"}, names : Names]

NameOf(d) == <<"name", d>>
NameBuffer == <<"NameBuffer", 0>>
GraphicsHandles == <<"GraphicsHandles", 0>>
Name2Handles == <<"Name2Handles", 0>>
DevPathHandles == <<"DevPathHandles", 0>>
Pools == {NameOf(d) : d \in Device} \cup {NameBuffer, GraphicsHandles, Name2Handles, DevPathHandles}

TypeOK ==
  /\ machine \in Machines
  /\ step \in {"locate", "device", "controller", "driver", "found", "free", "done", "returned"}
  /\ search \in {"strict", "funky"}
  /\ dev \in 1 .. Len(machine.devices) + 1
  /\ cntlr \in 1 .. Len(machine.handles) + 1
  /\ drv \in 1 .. machine.drivers + 1
  /\ names \in Names
  /\ labels \in [Device -> Label]
  /\ pool \subseteq Pools

Init ==
  /\ machine \in Machines
  /\ step = "locate" /\ search = "strict"
  /\ dev = 1 /\ cntlr = 1 /\ drv = 1
  /\ names = NoNames
  /\ labels = [d \in Device |-> Unnamed]
  /\ pool = {}

-----------------------------------------------------------------------------
(* Device paths.                                                           *)

\* DevicePathSize: node after node to the end node, and that.
PathSize(path) ==
  LET Size[n \in 0 .. Len(path)] == IF n = 0 THEN EndLength ELSE Size[n - 1] + NodeLength[path[n]]
  IN Size[Len(path)]

\* DevicePathInstance: the instances of a path, one after the other.
Starts(path) == {1} \cup {i + 1 : i \in {j \in DOMAIN path : path[j] = Instance}}
InstanceAt(path, start) ==
  LET ends == {j \in start .. Len(path) : path[j] = Instance}
  IN SubSeq(path, start, IF ends = {} THEN Len(path) ELSE Min(ends) - 1)

\* LibMatchDevicePaths: does single begin with an instance of multi?
Matches(multi, single) ==
  \E start \in Starts(multi) :
    LET instance == InstanceAt(multi, start)
    IN Len(instance) <= Len(single) /\ instance = SubSeq(single, 1, Len(instance))

\* (A name with Bug in it is a mutant of the definition after it: what the
\* code could have done wrong, for the runs to notice.)

\* CntlrPathSize: the device's own node is one less the end node longer than
\* what is subtracted, the first node of the path.
ControllerPathSizeBugNoEnd(path) ==
  PathSize(path) - (IF path = <<>> THEN EndLength ELSE NodeLength[path[1]])
ControllerPathSize(path) ==
  PathSize(path) - (IF path = <<>> THEN EndLength ELSE NodeLength[path[1]]) + EndLength

-----------------------------------------------------------------------------
(* The searches.                                                           *)

\* LocateHandleBuffer, and the list of names.
LocatePC ==
  /\ step = "locate" /\ ~machine.apple
  /\ pool' = {GraphicsHandles, NameBuffer, Name2Handles, DevPathHandles}
  /\ step' = "device"
  /\ UNCHANGED <<machine, search, dev, cntlr, drv, names, labels>>

LocateMacBugNoLabels ==
  /\ step = "locate" /\ machine.apple
  /\ pool' = {GraphicsHandles, NameBuffer}
  /\ step' = "done"
  /\ UNCHANGED <<machine, search, dev, cntlr, drv, names, labels>>

\* Macs have numbers for names.  (CatPrint allocates each; without memory there
\* is none, and no error.)
LocateMac ==
  /\ step = "locate" /\ machine.apple
  /\ \E named \in (IF ServicesMayFail THEN SUBSET Device ELSE {Device}) :
       /\ labels' = [d \in Device |-> [Unnamed EXCEPT !.kind = IF d \in named THEN "apple" ELSE "null"]]
       /\ pool' = {GraphicsHandles, NameBuffer} \cup {NameOf(d) : d \in named}
  /\ step' = "done"
  /\ UNCHANGED <<machine, search, dev, cntlr, drv, names>>

DevicePath == machine.devices[dev]
Driver == 1 .. machine.drivers

BeginDevice ==
  /\ step = "device" /\ dev \in Device /\ DevicePath # NoPath
  /\ names' = NoNames
  /\ search' = "strict" /\ cntlr' = 1
  /\ step' = "controller"
  /\ UNCHANGED <<machine, dev, drv, labels, pool>>

\* CatPrint, again.
Stores(kind, n) ==
  \/ /\ labels' = [labels EXCEPT ![dev] = [kind |-> kind, names |-> n]]
     /\ pool' = pool \cup {NameOf(dev)}
  \/ /\ ServicesMayFail
     /\ labels' = [labels EXCEPT ![dev].kind = "null"]
     /\ UNCHANGED pool

WeirdDeviceBugSkipsNext ==
  /\ step = "device" /\ dev \in Device /\ DevicePath = NoPath
  /\ names' = NoNames
  /\ Stores("weird", NoNames)
  /\ dev' = dev + 2
  /\ UNCHANGED <<machine, step, search, cntlr, drv>>

\* "Weird unknown device".
WeirdDevice ==
  /\ step = "device" /\ dev \in Device /\ DevicePath = NoPath
  /\ names' = NoNames
  /\ Stores("weird", NoNames)
  /\ dev' = dev + 1
  /\ UNCHANGED <<machine, step, search, cntlr, drv>>

IsControllerBugAnySize(h) ==
  machine.handles[h].plain /\ Matches(machine.handles[h].path, DevicePath)

\* Does the search stop at this handle?
IsController(h) ==
  /\ machine.handles[h].plain
  /\ search = "strict" => PathSize(machine.handles[h].path) = ControllerPathSize(DevicePath)
  /\ Matches(machine.handles[h].path, DevicePath)

AtHandle == step = "controller" /\ cntlr <= Len(machine.handles)

SkipHandle ==
  /\ AtHandle /\ ~IsController(cntlr)
  /\ cntlr' = cntlr + 1
  /\ UNCHANGED <<machine, step, search, dev, drv, names, labels, pool>>

FindController ==
  /\ AtHandle /\ IsController(cntlr)
  /\ drv' = 1
  /\ step' = "driver"
  /\ UNCHANGED <<machine, search, dev, cntlr, names, labels, pool>>

\* The funky search comes after a strict one that has given no name.
EndHandles ==
  /\ step = "controller" /\ cntlr = Len(machine.handles) + 1
  /\ step' = "found"
  /\ UNCHANGED <<machine, search, dev, cntlr, drv, names, labels, pool>>

Manages(d) == <<d, cntlr>> \in machine.manages

\* OpenProtocol BY_DRIVER is how a driver is asked, in the strict search.
SkipDriver ==
  /\ step = "driver" /\ search = "strict"
  /\ drv \in Driver /\ ~Manages(drv)
  /\ drv' = drv + 1
  /\ UNCHANGED <<machine, step, search, dev, cntlr, names, labels, pool>>

\* Each of the three names is the driver's, or the default if it has none.
NamesFrom(d) ==
  LET own == {Default, <<d, cntlr>>} IN [driver : own, controller : own, child : own]

\* The strict search ends here, whatever names there are.
NameStrictly ==
  /\ step = "driver" /\ search = "strict"
  /\ drv \in Driver /\ Manages(drv)
  /\ names' \in NamesFrom(drv)
  /\ step' = "found"
  /\ UNCHANGED <<machine, search, dev, cntlr, drv, labels, pool>>

\* A driver on the Wall of Shame, under that name: the names of the driver
\* before it stay, except for the driver's own.
ShameDriver ==
  /\ step = "driver" /\ search = "funky"
  /\ drv \in Driver \cap machine.shamed
  /\ names' = [names EXCEPT !.driver = Default]
  /\ drv' = drv + 1
  /\ UNCHANGED <<machine, step, search, dev, cntlr, labels, pool>>

NameFunkilyBugKeepsController ==
  /\ step = "driver" /\ search = "funky"
  /\ drv \in Driver
  /\ \E new \in NamesFrom(drv) :
       /\ drv \in machine.shamed => new.driver = Default
       /\ names' = IF new.controller # Default THEN new ELSE [new EXCEPT !.controller = names.controller]
       /\ step' = IF new.child # Default THEN "found" ELSE "driver"
       /\ drv' = IF new.child # Default THEN drv ELSE drv + 1
  /\ UNCHANGED <<machine, search, dev, cntlr, labels, pool>>

\* The funky search goes on until there is a name for the child.  If no driver
\* ever has one, the names of the last that was asked stay.
NameFunkily ==
  /\ step = "driver" /\ search = "funky"
  /\ drv \in Driver
  /\ \E new \in NamesFrom(drv) :
       /\ drv \in machine.shamed => new.driver = Default
       /\ names' = new
       /\ step' = IF new.child # Default THEN "found" ELSE "driver"
       /\ drv' = IF new.child # Default THEN drv ELSE drv + 1
  /\ UNCHANGED <<machine, search, dev, cntlr, labels, pool>>

\* No driver is left for this controller: the strict search is over.
EndDrivers ==
  /\ step = "driver" /\ drv = machine.drivers + 1
  /\ IF search = "strict"
     THEN step' = "found" /\ UNCHANGED cntlr
     ELSE step' = "controller" /\ cntlr' = cntlr + 1
  /\ UNCHANGED <<machine, search, dev, drv, names, labels, pool>>

TryFunkily ==
  /\ step = "found" /\ search = "strict" /\ names = NoNames
  /\ search' = "funky" /\ cntlr' = 1
  /\ step' = "controller"
  /\ UNCHANGED <<machine, dev, drv, names, labels, pool>>

StoreName ==
  /\ step = "found" /\ ~(search = "strict" /\ names = NoNames)
  /\ Stores(search, names)
  /\ dev' = dev + 1
  /\ step' = "device"
  /\ UNCHANGED <<machine, search, cntlr, drv, names>>

\* The two lists of handles are freed after the last device.
FreeHandles ==
  /\ step = "device" /\ dev = Len(machine.devices) + 1
  /\ \/ /\ pool' = pool \ {Name2Handles, DevPathHandles}
        /\ step' = "done"
     \/ /\ ServicesMayFail
        /\ \E freed \in {{}, {DevPathHandles}} : pool' = pool \ freed
        /\ step' = "returned"
  /\ UNCHANGED <<machine, search, dev, cntlr, drv, names, labels>>

\* The lists LocateHandleBuffer has allocated when a call in Locate fails.
LocatedBefore ==
  {{}, {GraphicsHandles}}
    \cup (IF machine.apple THEN {}
          ELSE {{GraphicsHandles, NameBuffer}, {GraphicsHandles, NameBuffer, Name2Handles}})

\* OpenProtocol or CloseProtocol fails, or LocateHandleBuffer.
ServiceFails ==
  /\ ServicesMayFail
  /\ \/ step = "locate" /\ pool' \in LocatedBefore
     \/ /\ \/ step = "device" /\ dev \in Device
           \/ AtHandle /\ machine.handles[cntlr].plain
           \/ step = "driver" /\ drv \in Driver
        /\ UNCHANGED pool
  /\ step' = "returned"
  /\ UNCHANGED <<machine, search, dev, cntlr, drv, names, labels>>

Next ==
  \/ LocatePC \/ LocateMac \/ BeginDevice \/ WeirdDevice
  \/ SkipHandle \/ FindController \/ EndHandles
  \/ SkipDriver \/ NameStrictly \/ ShameDriver \/ NameFunkily \/ EndDrivers
  \/ TryFunkily \/ StoreName \/ FreeHandles
  \/ ServiceFails

Spec == Init /\ [][Next]_vars
-----------------------------------------------------------------------------
(* Properties.                                                             *)

Searched == {"strict", "funky"}
SourcesOf(n) == {n.driver, n.controller, n.child} \ {Default}
Sources(d) == SourcesOf(labels[d].names)

\* A handle the funky search stops at.
OnTheWay(h, path) == machine.handles[h].plain /\ Matches(machine.handles[h].path, path)

\* One driver gives these names, for one controller on the way to the device.
BelongTo(n, path) ==
  /\ \A s, t \in SourcesOf(n) : s = t
  /\ \A s \in SourcesOf(n) : OnTheWay(s[2], path)

OneDriverNamesAll ==
  \A d \in Device : labels[d].kind \in Searched => BelongTo(labels[d].names, machine.devices[d])

\* The funky search's questions, <<driver, handle>>, handle after handle.
AllAsked(path) == {a \in (1 .. machine.drivers) \X DOMAIN machine.handles : OnTheWay(a[2], path)}
IsAfter(a, s) == a[2] > s[2] \/ (a[2] = s[2] /\ a[1] > s[1])

\* These names come from the last question of those, or only drivers on the Wall
\* of Shame were asked since: they take away the name of the driver.
LastAsked(n, asked) ==
  \A s \in SourcesOf(n) : \A a \in asked : IsAfter(a, s) => a[1] \in machine.shamed /\ n.driver = Default

LeftNamesAreTheLast ==
  \A d \in Device : labels[d].kind = "funky" /\ labels[d].names.child = Default =>
    LastAsked(labels[d].names, AllAsked(machine.devices[d]))

\* The names in a label are never mixed: one driver gives them all, for one
\* controller on the way to this device.  But without a name for the child they
\* are what the funky search happens to leave, and not the three defaults that
\* the comment at Graphics.c:727 promises: the names that the driver asked last
\* has for the last controller on the way, or, if only drivers on the Wall of
\* Shame come after it, the controller's name that one before them gave.
NamesBelongTogether == OneDriverNamesAll /\ LeftNamesAreTheLast

\* On a PCI bus, below a root of 12 bytes, the strict search names a device only
\* after the controller it belongs to, and only by the first driver that manages
\* that, never after a bridge on the way.
OnPCI(path) == path # <<>> /\ NodeLength[path[1]] = 12
Parent(path) == SubSeq(path, 1, Len(path) - 1)
StrictNamesAreTheParents ==
  \A d \in Device : labels[d].kind = "strict" /\ OnPCI(machine.devices[d]) =>
    \A s \in Sources(d) :
      /\ machine.handles[s[2]].path = Parent(machine.devices[d])
      /\ s \in machine.manages
      /\ \A e \in 1 .. s[1] - 1 : <<e, s[2]>> \notin machine.manages

\* The strict search does not pass by the controller of a device on a PCI bus
\* that is a single output, with an _ADR node of 8 bytes: the size it looks for
\* is worked out from the first node of the path, not from the last.
SingleOutput(path) == OnPCI(path) /\ Len(path) > 1 /\ NodeLength[path[Len(path)]] = 8
ParentIsNotMissed ==
  [][step = "controller" /\ search = "strict" /\ cntlr' = cntlr + 1 /\ SingleOutput(DevicePath)
       => ~(machine.handles[cntlr].plain /\ machine.handles[cntlr].path = Parent(DevicePath))]_vars

\* The menus are handed a label for every device, with a pool for each of them
\* and for the two arrays, which they free, and none for the lists of handles.
EveryDeviceIsLabelled ==
  step = "done" =>
    /\ \A d \in Device : labels[d].kind # "none"
    /\ pool = {NameBuffer, GraphicsHandles} \cup {NameOf(d) : d \in {e \in Device : labels[e].kind # "null"}}

\* The strengthening the proofs need.  A device is searched for only if it has a
\* path, and drivers are asked only about a controller on the way to it; the names
\* held belong together as those in a label do; devices are labelled in order, each
\* with its pool.
Searching == step \in {"controller", "driver", "found"}
SearchIsOn ==
  /\ Searching => dev \in Device /\ DevicePath # NoPath
  /\ step = "driver" => cntlr \in DOMAIN machine.handles /\ OnTheWay(cntlr, DevicePath)

NamesHeldBelong == Searching => BelongTo(names, DevicePath)

Labelled == {d \in Device : d < dev /\ labels[d].kind # "null"}
LabelsInOrder ==
  step \in {"device", "controller", "driver", "found"} =>
    /\ \A d \in Device : d < dev => labels[d].kind # "none"
    /\ pool = {GraphicsHandles, NameBuffer, Name2Handles, DevPathHandles} \cup {NameOf(d) : d \in Labelled}

\* A controller the strict search stops at is one by its size, too; no driver before
\* the one it is at manages it; and what it finds is stored as it is.
IsNamedStrictly(s, path) ==
  /\ PathSize(machine.handles[s[2]].path) = ControllerPathSize(path)
  /\ s \in machine.manages
  /\ \A e \in 1 .. s[1] - 1 : <<e, s[2]>> \notin machine.manages
StrictSearchIsExact ==
  /\ Searching /\ search = "strict" =>
       /\ step # "found" => names = NoNames
       /\ \A s \in SourcesOf(names) : IsNamedStrictly(s, DevicePath)
  /\ step = "driver" /\ search = "strict" =>
       /\ PathSize(machine.handles[cntlr].path) = ControllerPathSize(DevicePath)
       /\ \A e \in 1 .. drv - 1 : <<e, cntlr>> \notin machine.manages
  /\ \A d \in Device : labels[d].kind = "strict" =>
       machine.devices[d] # NoPath /\ \A s \in Sources(d) : IsNamedStrictly(s, machine.devices[d])

\* The questions of the funky search so far.
AskedSoFar ==
  {a \in AllAsked(DevicePath) : a[2] < cntlr \/ (step = "driver" /\ a[2] = cntlr /\ a[1] < drv)}

\* Nothing has a name for the child yet: the names held are left by the last of the
\* questions so far, and there is no other question when the search has ended.
LeftNamesAreLastSoFar ==
  /\ Searching /\ search = "funky" /\ names.child = Default => LastAsked(names, AskedSoFar)
  /\ step = "found" /\ search = "funky" /\ names.child = Default => cntlr = Len(machine.handles) + 1

LeftInv == LeftNamesAreLastSoFar /\ LeftNamesAreTheLast

\* Nodes are longer than the one that only separates (their headers have that
\* length, and they hold something).
NodesCarryData == \A n \in Node : n # Instance => NodeLength[n] > EndLength

\* No path of the machine has several instances.
PathsAreSingle(m) ==
  /\ \A d \in DOMAIN m.devices : \A n \in DOMAIN m.devices[d] : m.devices[d][n] # Instance
  /\ \A h \in DOMAIN m.handles : \A n \in DOMAIN m.handles[h].path : m.handles[h].path[n] # Instance

NamesInv ==
  /\ TypeOK /\ SearchIsOn /\ NamesHeldBelong /\ LabelsInOrder
  /\ OneDriverNamesAll /\ EveryDeviceIsLabelled
  /\ step = "locate" => dev = 1 /\ \A d \in Device : labels[d] = Unnamed
=============================================================================
