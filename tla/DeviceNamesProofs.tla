------------------------- MODULE DeviceNamesProofs -------------------------
(* Whatever handles, drivers and names a machine has, each device gets one *)
(* label, of names that belong together and to it.                         *)
EXTENDS DeviceNames, SequenceTheorems, WellFoundedInduction, TLAPS

-----------------------------------------------------------------------------
(* The sizes of device paths.                                              *)

\* A set of naturals has a least element.
LEMMA LeastInSet ==
  ASSUME NEW S \in SUBSET Nat, S # {}
  PROVE  \E x \in S : \A y \in S : x <= y
<1> DEFINE R == OpToRel(<, Nat)
<1>1. IsWellFoundedOn(R, Nat)
  BY NatLessThanWellFounded
<1> HIDE DEF R
<1>2. PICK x \in S : \A y \in S : ~(<<y, x>> \in R)
  BY <1>1, WFMin
<1>3. \A y \in S : x <= y
  <2> TAKE y \in S
  <2>1. <<y, x>> \notin R /\ x \in Nat /\ y \in Nat
    BY <1>2
  <2>2. ~(y < x)
    BY <2>1 DEF R, OpToRel
  <2> QED BY <2>1, <2>2
<1> QED BY <1>3

\* Induction, for a set.
LEMMA NatInSet ==
  ASSUME NEW T, 0 \in T, \A n \in Nat : n \in T => n + 1 \in T
  PROVE  Nat \subseteq T
<1> SUFFICES ASSUME Nat \ T # {} PROVE FALSE
  OBVIOUS
<1>1. PICK x \in Nat \ T : \A y \in Nat \ T : x <= y
  <2> DEFINE S == Nat \ T
  <2>1. S \in SUBSET Nat /\ S # {}
    OBVIOUS
  <2> HIDE DEF S
  <2>2. \E x \in S : \A y \in S : x <= y
    BY <2>1, LeastInSet
  <2> QED BY <2>2 DEF S
<1>2. x # 0 /\ x - 1 \in Nat
  BY <1>1
<1>3. x - 1 \in T
  <2>1. ~(x <= x - 1)
    BY <1>1
  <2> QED BY <1>1, <1>2, <2>1
<1>4. (x - 1) + 1 \in T
  BY <1>2, <1>3
<1> QED BY <1>1, <1>4

\* The sizes of the beginnings of a path up to its first k nodes.
AreSizes(size, path, k) ==
  size = [n \in 0 .. k |-> IF n = 0 THEN EndLength ELSE size[n - 1] + NodeLength[path[n]]]

LEMMA SizesExist ==
  ASSUME NEW path \in Path
  PROVE  \E size : AreSizes(size, path, Len(path))
<1> DEFINE T == {k \in Nat : k <= Len(path) => \E size : AreSizes(size, path, k)}
<1>0. Len(path) \in Nat
  BY DEF Path
<1>1. 0 \in T
  <2> DEFINE size == [n \in 0 .. 0 |-> EndLength]
  <2>1. AreSizes(size, path, 0)
    BY DEF AreSizes
  <2> QED BY <2>1
<1>2. ASSUME NEW k \in Nat, k \in T PROVE k + 1 \in T
  <2> SUFFICES ASSUME k + 1 <= Len(path) PROVE \E size : AreSizes(size, path, k + 1)
    OBVIOUS
  <2>1. PICK size : AreSizes(size, path, k)
    BY <1>0, <1>2
  <2> DEFINE more == [n \in 0 .. k + 1 |-> IF n = k + 1 THEN size[k] + NodeLength[path[k + 1]] ELSE size[n]]
  <2>2. ASSUME NEW n \in 0 .. k + 1
        PROVE  more[n] = IF n = 0 THEN EndLength ELSE more[n - 1] + NodeLength[path[n]]
    <3>1. CASE n = 0
      BY <2>1, <3>1 DEF AreSizes
    <3>2. CASE n = k + 1
      <4>1. more[n] = size[k] + NodeLength[path[k + 1]] /\ n - 1 = k
        BY <3>2
      <4>2. more[k] = size[k]
        OBVIOUS
      <4> QED BY <3>2, <4>1, <4>2
    <3>3. CASE n \in 1 .. k
      <4>1. more[n] = size[n] /\ more[n - 1] = size[n - 1]
        BY <3>3
      <4>2. size[n] = size[n - 1] + NodeLength[path[n]]
        BY <2>1, <3>3 DEF AreSizes
      <4> QED BY <3>3, <4>1, <4>2
    <3> QED BY <3>1, <3>2, <3>3
  <2>3. more = [n \in 0 .. k + 1 |-> more[n]]
    OBVIOUS
  <2> HIDE DEF more
  <2>4. more = [n \in 0 .. k + 1 |-> IF n = 0 THEN EndLength ELSE more[n - 1] + NodeLength[path[n]]]
    BY <2>2, <2>3
  <2>5. AreSizes(more, path, k + 1)
    BY <2>4 DEF AreSizes
  <2> QED BY <2>5
<1> HIDE DEF T
<1>3. Len(path) \in T
  BY <1>0, <1>1, <1>2, NatInSet
<1> QED BY <1>0, <1>3 DEF T

\* What adding up the nodes of a path makes of each beginning.
Sizes(path) == CHOOSE size : AreSizes(size, path, Len(path))

LEMMA SizesOfPath ==
  ASSUME NEW path \in Path
  PROVE  AreSizes(Sizes(path), path, Len(path)) /\ PathSize(path) = Sizes(path)[Len(path)]
<1>1. AreSizes(Sizes(path), path, Len(path))
  BY SizesExist DEF Sizes
<1>2. PathSize(path) = Sizes(path)[Len(path)]
  BY Zenon DEF PathSize, Sizes, AreSizes
<1> QED BY <1>1, <1>2

\* Paths that begin alike have the same sizes as far as they do.
LEMMA SizesAgree ==
  ASSUME NEW p \in Path, NEW q \in Path, NEW k \in Nat, k <= Len(p), k <= Len(q),
         \A n \in 1 .. k : p[n] = q[n]
  PROVE  \A n \in 0 .. k : Sizes(p)[n] \in Nat /\ Sizes(p)[n] = Sizes(q)[n]
<1> DEFINE T == {n \in Nat : n <= k => Sizes(p)[n] \in Nat /\ Sizes(p)[n] = Sizes(q)[n]}
<1>0. Len(p) \in Nat /\ Len(q) \in Nat
  BY DEF Path
<1>1. AreSizes(Sizes(p), p, Len(p)) /\ AreSizes(Sizes(q), q, Len(q))
  BY SizesOfPath
<1>2. /\ \A n \in 0 .. Len(p) : Sizes(p)[n] = IF n = 0 THEN EndLength ELSE Sizes(p)[n - 1] + NodeLength[p[n]]
      /\ \A n \in 0 .. Len(q) : Sizes(q)[n] = IF n = 0 THEN EndLength ELSE Sizes(q)[n - 1] + NodeLength[q[n]]
  BY <1>1 DEF AreSizes
<1>3. 0 \in T
  BY <1>0, <1>2 DEF EndLength
<1>4. ASSUME NEW n \in Nat, n \in T PROVE n + 1 \in T
  <2> SUFFICES ASSUME n + 1 <= k PROVE Sizes(p)[n + 1] \in Nat /\ Sizes(p)[n + 1] = Sizes(q)[n + 1]
    OBVIOUS
  <2>1. Sizes(p)[n] \in Nat /\ Sizes(p)[n] = Sizes(q)[n]
    BY <1>4
  <2>2. n + 1 \in 0 .. Len(p) /\ n + 1 \in 0 .. Len(q) /\ n + 1 # 0 /\ (n + 1) - 1 = n /\ n + 1 \in 1 .. k
    BY <1>0
  <2>3. Sizes(p)[n + 1] = Sizes(p)[n] + NodeLength[p[n + 1]] /\ Sizes(q)[n + 1] = Sizes(q)[n] + NodeLength[q[n + 1]]
    BY <1>2, <2>2
  <2>4. NodeLength[p[n + 1]] \in Nat
    BY <1>0, <2>2, NamesAssumption DEF NamesAssumption, Path
  <2> QED BY <2>1, <2>2, <2>3, <2>4
<1> HIDE DEF T
<1>5. Nat \subseteq T
  BY <1>3, <1>4, NatInSet
<1> QED BY <1>5 DEF T

\* The size of a beginning of a path is one of the path's sizes.
LEMMA SizeOfPrefix ==
  ASSUME NEW path \in Path, NEW k \in 0 .. Len(path)
  PROVE  /\ SubSeq(path, 1, k) \in Path /\ Len(SubSeq(path, 1, k)) = k
         /\ PathSize(SubSeq(path, 1, k)) = Sizes(path)[k] /\ Sizes(path)[k] \in Nat
<1> DEFINE p == SubSeq(path, 1, k)
<1>1. p \in Path /\ Len(p) = k /\ Len(path) \in Nat /\ \A n \in 1 .. k : p[n] = path[n]
  BY DEF Path
<1> HIDE DEF p
<1>2. Sizes(p)[k] = Sizes(path)[k] /\ Sizes(p)[k] \in Nat
  BY <1>1, SizesAgree
<1>3. PathSize(p) = Sizes(p)[k]
  BY <1>1, SizesOfPath
<1> QED BY <1>1, <1>2, <1>3 DEF p

\* Each node adds its length.
LEMMA SizeGrows ==
  ASSUME NEW path \in Path, NEW k \in 1 .. Len(path)
  PROVE  Sizes(path)[k] = Sizes(path)[k - 1] + NodeLength[path[k]] /\ NodeLength[path[k]] \in Nat
<1>1. AreSizes(Sizes(path), path, Len(path)) /\ Len(path) \in Nat
  BY SizesOfPath DEF Path
<1>2. \A n \in 0 .. Len(path) : Sizes(path)[n] = IF n = 0 THEN EndLength ELSE Sizes(path)[n - 1] + NodeLength[path[n]]
  BY <1>1 DEF AreSizes
<1>3. NodeLength[path[k]] \in Nat
  BY NamesAssumption DEF NamesAssumption, Path
<1> QED BY <1>1, <1>2, <1>3

\* A beginning is no larger than a longer one.
LEMMA SizesAscend ==
  ASSUME NEW path \in Path, NEW k \in 0 .. Len(path), NEW m \in 0 .. Len(path), k <= m
  PROVE  Sizes(path)[k] <= Sizes(path)[m]
<1> DEFINE T == {n \in Nat : n <= Len(path) /\ k <= n => Sizes(path)[k] <= Sizes(path)[n]}
<1>0. Len(path) \in Nat /\ \A n \in 0 .. Len(path) : Sizes(path)[n] \in Nat
  BY SizeOfPrefix DEF Path
<1>1. 0 \in T
  BY <1>0
<1>2. ASSUME NEW n \in Nat, n \in T PROVE n + 1 \in T
  <2> SUFFICES ASSUME n + 1 <= Len(path), k <= n + 1 PROVE Sizes(path)[k] <= Sizes(path)[n + 1]
    OBVIOUS
  <2>1. CASE k = n + 1
    BY <1>0, <2>1
  <2>2. CASE k <= n
    <3>1. Sizes(path)[k] <= Sizes(path)[n]
      BY <1>0, <1>2, <2>2
    <3>2. Sizes(path)[n + 1] = Sizes(path)[n] + NodeLength[path[n + 1]] /\ NodeLength[path[n + 1]] \in Nat
      <4>1. n + 1 \in 1 .. Len(path) /\ (n + 1) - 1 = n
        BY <1>0
      <4> QED BY <4>1, SizeGrows
    <3>3. Sizes(path)[k] \in Nat /\ Sizes(path)[n] \in Nat
      BY <1>0
    <3> QED BY <3>1, <3>2, <3>3
  <2> QED BY <1>0, <2>1, <2>2
<1> HIDE DEF T
<1>3. Nat \subseteq T
  BY <1>1, <1>2, NatInSet
<1> QED BY <1>3 DEF T

-----------------------------------------------------------------------------
(* The searches.                                                           *)

\* What is assumed of a machine, in the form the steps need.
LEMMA MachineType ==
  ASSUME NEW m \in Machines
  PROVE  /\ m.devices \in Seq(Path \cup {NoPath}) /\ Len(m.devices) \in Nat /\ Len(m.devices) >= 1
         /\ m.handles \in Seq(Handle) /\ Len(m.handles) \in Nat
         /\ m.drivers \in Nat
         /\ DOMAIN m.devices = 1 .. Len(m.devices) /\ DOMAIN m.handles = 1 .. Len(m.handles)
<1>1. m.devices \in Seq(Path \cup {NoPath}) /\ m.devices # <<>> /\ m.handles \in Seq(Handle) /\ m.drivers \in Nat
  BY NamesAssumption DEF NamesAssumption
<1>2. Len(m.devices) # 0
  BY <1>1
<1> QED BY <1>1, <1>2

LEMMA NoNamesAreNames == NoNames \in Names
BY DEF NoNames, Names, Source

LEMMA NoNamesBelong == \A path : BelongTo(NoNames, path)
BY DEF NoNames, BelongTo, SourcesOf

\* The sets of a machine are the same as long as it is.
LEMMA SameMachine ==
  ASSUME UNCHANGED machine
  PROVE  /\ Device' = Device /\ Driver' = Driver /\ Source' = Source /\ Names' = Names
         /\ Label' = Label /\ Pools' = Pools
         /\ \A n, path : BelongTo(n, path)' <=> BelongTo(n, path)
<1>1. Device' = Device /\ Driver' = Driver
  BY DEF Device, Driver
<1>2. Source' = Source
  BY DEF Source
<1>3. Names' = Names
  BY <1>2 DEF Names
<1>4. Label' = Label
  BY <1>3 DEF Label
<1>5. Pools' = Pools
  BY <1>1 DEF Pools
<1>6. ASSUME NEW n, NEW path PROVE BelongTo(n, path)' <=> BelongTo(n, path)
  BY DEF BelongTo, OnTheWay
<1> QED BY <1>1, <1>2, <1>3, <1>4, <1>5, <1>6

LEMMA SameMachineTypes ==
  ASSUME machine \in Machines, UNCHANGED machine,
         step' \in {"locate", "device", "controller", "driver", "found", "free", "done", "returned"},
         search' \in {"strict", "funky"},
         dev' \in 1 .. Len(machine.devices) + 1,
         cntlr' \in 1 .. Len(machine.handles) + 1,
         drv' \in 1 .. machine.drivers + 1,
         names' \in Names, labels' \in [Device -> Label], pool' \subseteq Pools
  PROVE  TypeOK'
BY SameMachine DEF TypeOK

LEMMA InitNames == Init => NamesInv
<1> SUFFICES ASSUME Init PROVE NamesInv
  OBVIOUS
<1>1. machine \in Machines
  BY DEF Init
<1>2. TypeOK
  <2>1. labels \in [Device -> Label]
    BY NoNamesAreNames DEF Init, Unnamed, Label
  <2> QED BY <1>1, <2>1, MachineType, NoNamesAreNames DEF Init, TypeOK
<1> QED BY <1>1, <1>2 DEF Init, NamesInv, SearchIsOn, Searching, NamesHeldBelong, LabelsInOrder,
              OneDriverNamesAll, EveryDeviceIsLabelled, Unnamed, Searched

\* Names asked of one driver about one controller on the way belong together.
LEMMA NamesOfDriverBelong ==
  ASSUME TypeOK, SearchIsOn, step = "driver", drv \in Driver, NEW new \in NamesFrom(drv)
  PROVE  new \in Names /\ BelongTo(new, DevicePath)
<1> DEFINE own == {Default, <<drv, cntlr>>}
<1>1. new \in [driver : own, controller : own, child : own]
  BY DEF NamesFrom
<1>2. <<drv, cntlr>> \in Source /\ Default \in Source
  BY DEF Source, SearchIsOn, Driver
<1>3. new \in Names
  BY <1>1, <1>2 DEF Names
<1>4. SourcesOf(new) \subseteq {<<drv, cntlr>>}
  BY <1>1 DEF SourcesOf
<1>5. BelongTo(new, DevicePath)
  BY <1>4 DEF BelongTo, SearchIsOn, OnTheWay
<1> QED BY <1>3, <1>5

\* A label is stored: it is the device's, and with its pool, or null without.
LEMMA StoredLabel ==
  ASSUME NamesInv, NEW n \in Names, NEW kind \in {"strict", "funky", "weird"},
         dev \in Device, step \in {"device", "found"}, UNCHANGED machine, dev' = dev + 1, Stores(kind, n),
         step' = "device",
         kind \in Searched => BelongTo(n, DevicePath)
  PROVE  /\ labels' \in [Device -> Label] /\ pool' \subseteq Pools
         /\ LabelsInOrder' /\ OneDriverNamesAll'
<1>1. /\ labels \in [Device -> Label] /\ pool \subseteq Pools /\ Device' = Device
      /\ dev \in Nat /\ machine \in Machines /\ Device = 1 .. Len(machine.devices) /\ Device \subseteq Nat
      /\ LabelsInOrder /\ OneDriverNamesAll
  BY MachineType DEF NamesInv, TypeOK, Device
<1>2. NameOf(dev) \in Pools
  BY DEF Pools
<1>3. /\ \A d \in Device : d # dev => labels'[d] = labels[d]
      /\ labels' \in [Device -> Label]
      /\ \/ labels'[dev] = [kind |-> kind, names |-> n] /\ pool' = pool \cup {NameOf(dev)}
         \/ labels'[dev].kind = "null" /\ pool' = pool
  <2>1. CASE labels' = [labels EXCEPT ![dev] = [kind |-> kind, names |-> n]] /\ pool' = pool \cup {NameOf(dev)}
    <3>1. [kind |-> kind, names |-> n] \in Label
      BY DEF Label
    <3> QED BY <1>1, <2>1, <3>1
  <2>2. CASE labels' = [labels EXCEPT ![dev].kind = "null"] /\ UNCHANGED pool
    <3>1. labels[dev] \in Label
      BY <1>1
    <3>2. [labels[dev] EXCEPT !.kind = "null"] \in Label /\ [labels[dev] EXCEPT !.kind = "null"].kind = "null"
      BY <3>1 DEF Label
    <3>3. labels' = [labels EXCEPT ![dev] = [labels[dev] EXCEPT !.kind = "null"]]
      BY <2>2
    <3> QED BY <1>1, <2>2, <3>2, <3>3
  <2> QED BY <2>1, <2>2 DEF Stores
<1>4. pool' \subseteq Pools
  BY <1>1, <1>2, <1>3
<1>5. \A d \in Device : d < dev' <=> d < dev \/ d = dev
  BY <1>1
<1>6. Labelled' = IF labels'[dev].kind = "null" THEN Labelled ELSE Labelled \cup {dev}
  BY <1>1, <1>3, <1>5 DEF Labelled
<1>7. LabelsInOrder'
  <2>1. pool = {GraphicsHandles, NameBuffer, Name2Handles, DevPathHandles} \cup {NameOf(d) : d \in Labelled}
        /\ \A d \in Device : d < dev => labels[d].kind # "none"
    BY <1>1 DEF LabelsInOrder
  <2>2. pool' = {GraphicsHandles, NameBuffer, Name2Handles, DevPathHandles} \cup {NameOf(d) : d \in Labelled'}
    BY <1>3, <1>6, <2>1
  <2>3. labels'[dev].kind # "none"
    BY <1>3
  <2>4. \A d \in Device : d < dev' => labels'[d].kind # "none"
    BY <1>3, <1>5, <2>1, <2>3
  <2> HIDE DEF Labelled
  <2> QED BY <1>1, <2>2, <2>4 DEF LabelsInOrder
<1>8. OneDriverNamesAll'
  <2>1. \A d \in Device : d # dev /\ labels'[d].kind \in Searched => BelongTo(labels'[d].names, machine.devices[d])
    BY <1>1, <1>3 DEF OneDriverNamesAll
  <2>2. labels'[dev].kind \in Searched => BelongTo(labels'[dev].names, machine.devices[dev])
    BY <1>3 DEF Searched, DevicePath
  <2>3. \A d \in Device : labels'[d].kind \in Searched => BelongTo(labels'[d].names, machine.devices[d])
    BY <2>1, <2>2
  <2> QED BY <1>1, <2>3, SameMachine DEF OneDriverNamesAll
<1> QED BY <1>3, <1>4, <1>7, <1>8

\* A step that keeps the labels and the pools, and the device it is at, or leaves.
LEMMA SameLabels ==
  ASSUME NamesInv, UNCHANGED <<machine, labels, pool>>,
         \/ step' = "returned"
         \/ dev' = dev /\ step \in {"device", "controller", "driver", "found"}
            /\ step' \in {"controller", "driver", "found"}
         \/ dev' = dev /\ step' = step
  PROVE  LabelsInOrder' /\ OneDriverNamesAll' /\ EveryDeviceIsLabelled'
BY SameMachine DEF NamesInv, LabelsInOrder, Labelled, OneDriverNamesAll, EveryDeviceIsLabelled

LEMMA StepNames == NamesInv /\ [Next]_vars => NamesInv'
<1> SUFFICES ASSUME NamesInv, [Next]_vars PROVE NamesInv'
  OBVIOUS
<1>0. /\ TypeOK /\ SearchIsOn /\ NamesHeldBelong
      /\ machine \in Machines /\ machine.drivers \in Nat
      /\ Len(machine.devices) \in Nat /\ Len(machine.handles) \in Nat
      /\ Device = 1 .. Len(machine.devices) /\ DOMAIN machine.handles = 1 .. Len(machine.handles)
  BY MachineType DEF NamesInv, TypeOK, Device
<1>1. CASE SkipHandle
  <2>1. TypeOK'
    BY <1>1, <1>0, SameMachineTypes DEF SkipHandle, TypeOK, Driver, AtHandle
  <2>2. SearchIsOn' /\ NamesHeldBelong'
    BY <1>1, <1>0, SameMachine DEF SkipHandle, SearchIsOn, Searching, NamesHeldBelong, DevicePath, Device, OnTheWay, AtHandle
  <2>3. LabelsInOrder' /\ OneDriverNamesAll' /\ EveryDeviceIsLabelled'
    BY <1>1, SameLabels DEF SkipHandle, AtHandle
  <2> QED BY <1>1, <2>1, <2>2, <2>3 DEF SkipHandle, NamesInv, AtHandle
<1>2. CASE FindController
  <2>1. TypeOK'
    BY <1>2, <1>0, SameMachineTypes DEF FindController, TypeOK, Driver, AtHandle, IsController
  <2>2. SearchIsOn' /\ NamesHeldBelong'
    <3>1. cntlr \in DOMAIN machine.handles /\ OnTheWay(cntlr, DevicePath)
      BY <1>2, <1>0 DEF FindController, AtHandle, IsController, OnTheWay, TypeOK
    <3>2. SearchIsOn'
      <4>1. UNCHANGED <<machine, dev, cntlr>> /\ Device' = Device /\ Searching
        BY <1>2, SameMachine DEF FindController, AtHandle, Searching
      <4>2. DevicePath' = DevicePath
        BY <4>1 DEF DevicePath
      <4> QED BY <1>0, <3>1, <4>1, <4>2 DEF SearchIsOn, OnTheWay
    <3>3. NamesHeldBelong'
      BY <1>2, <1>0, SameMachine DEF FindController, AtHandle, Searching, NamesHeldBelong, DevicePath
    <3> QED BY <3>2, <3>3
  <2>3. LabelsInOrder' /\ OneDriverNamesAll' /\ EveryDeviceIsLabelled'
    BY <1>2, SameLabels DEF FindController, AtHandle, IsController
  <2> QED BY <1>2, <2>1, <2>2, <2>3 DEF FindController, NamesInv, AtHandle, IsController
<1>3. CASE EndHandles
  <2>1. TypeOK'
    BY <1>3, <1>0, SameMachineTypes DEF EndHandles, TypeOK, Driver
  <2>2. SearchIsOn' /\ NamesHeldBelong'
    BY <1>3, <1>0, SameMachine DEF EndHandles, SearchIsOn, Searching, NamesHeldBelong, DevicePath, Device, OnTheWay
  <2>3. LabelsInOrder' /\ OneDriverNamesAll' /\ EveryDeviceIsLabelled'
    BY <1>3, SameLabels DEF EndHandles
  <2> QED BY <1>3, <2>1, <2>2, <2>3 DEF EndHandles, NamesInv
<1>4. CASE SkipDriver
  <2>1. TypeOK'
    BY <1>4, <1>0, SameMachineTypes DEF SkipDriver, TypeOK, Driver
  <2>2. SearchIsOn' /\ NamesHeldBelong'
    BY <1>4, <1>0, SameMachine DEF SkipDriver, SearchIsOn, Searching, NamesHeldBelong, DevicePath, Device, OnTheWay
  <2>3. LabelsInOrder' /\ OneDriverNamesAll' /\ EveryDeviceIsLabelled'
    BY <1>4, SameLabels DEF SkipDriver
  <2> QED BY <1>4, <2>1, <2>2, <2>3 DEF SkipDriver, NamesInv
<1>5. CASE EndDrivers
  <2>1. TypeOK'
    BY <1>5, <1>0, SameMachineTypes DEF EndDrivers, TypeOK, SearchIsOn
  <2>2. SearchIsOn' /\ NamesHeldBelong'
    BY <1>5, <1>0, SameMachine DEF EndDrivers, SearchIsOn, Searching, NamesHeldBelong, DevicePath, Device, OnTheWay
  <2>3. LabelsInOrder' /\ OneDriverNamesAll' /\ EveryDeviceIsLabelled'
    BY <1>5, SameLabels DEF EndDrivers
  <2> QED BY <1>5, <2>1, <2>2, <2>3 DEF EndDrivers, NamesInv
<1>6. CASE TryFunkily
  <2>1. TypeOK'
    BY <1>6, <1>0, NoNamesBelong, SameMachineTypes DEF TryFunkily, TypeOK, Driver
  <2>2. SearchIsOn' /\ NamesHeldBelong'
    BY <1>6, <1>0, NoNamesBelong, SameMachine DEF TryFunkily, SearchIsOn, Searching, NamesHeldBelong, DevicePath, Device, OnTheWay
  <2>3. LabelsInOrder' /\ OneDriverNamesAll' /\ EveryDeviceIsLabelled'
    BY <1>6, SameLabels DEF TryFunkily
  <2> QED BY <1>6, <2>1, <2>2, <2>3 DEF TryFunkily, NamesInv
<1>7. CASE BeginDevice
  <2>1. TypeOK'
    BY <1>7, <1>0, NoNamesAreNames, NoNamesBelong, SameMachineTypes DEF BeginDevice, TypeOK, Driver
  <2>2. SearchIsOn' /\ NamesHeldBelong'
    BY <1>7, <1>0, NoNamesAreNames, NoNamesBelong, SameMachine DEF BeginDevice, SearchIsOn, Searching, NamesHeldBelong, DevicePath, Device, OnTheWay
  <2>3. LabelsInOrder' /\ OneDriverNamesAll' /\ EveryDeviceIsLabelled'
    BY <1>7, SameLabels DEF BeginDevice
  <2> QED BY <1>7, <2>1, <2>2, <2>3 DEF BeginDevice, NamesInv
<1>8. CASE NameStrictly \/ NameFunkily
  <2>1. PICK new \in NamesFrom(drv) : names' = new
    BY <1>8 DEF NameStrictly, NameFunkily
  <2>2. step = "driver" /\ drv \in Driver /\ UNCHANGED <<machine, search, dev, cntlr, labels, pool>>
        /\ step' \in {"driver", "found"} /\ drv' \in {drv, drv + 1}
    BY <1>8 DEF NameStrictly, NameFunkily
  <2>3. new \in Names /\ BelongTo(new, DevicePath)
    BY <1>0, <2>2, NamesOfDriverBelong
  <2>4. TypeOK'
    BY <1>0, <2>1, <2>2, <2>3, SameMachineTypes DEF TypeOK, Driver
  <2>5. SearchIsOn' /\ NamesHeldBelong'
    BY <1>0, <2>1, <2>2, <2>3, SameMachine DEF SearchIsOn, Searching, NamesHeldBelong, DevicePath, Device, OnTheWay
  <2>6. LabelsInOrder' /\ OneDriverNamesAll' /\ EveryDeviceIsLabelled'
    BY <2>2, SameLabels
  <2> QED BY <2>2, <2>4, <2>5, <2>6 DEF NamesInv
<1>9. CASE ShameDriver
  <2>1. names \in Names /\ names' = [names EXCEPT !.driver = Default] /\ names' \in Names
    BY <1>9, <1>0 DEF ShameDriver, TypeOK, Names, Source
  <2>2. SourcesOf(names') \subseteq SourcesOf(names)
    BY <2>1 DEF SourcesOf, Names
  <2>3. BelongTo(names', DevicePath)
    BY <1>9, <1>0, <2>2 DEF ShameDriver, NamesHeldBelong, Searching, BelongTo
  <2>4. TypeOK'
    BY <1>9, <1>0, <2>1, SameMachineTypes DEF ShameDriver, TypeOK, Driver
  <2>5. SearchIsOn' /\ NamesHeldBelong'
    BY <1>9, <1>0, <2>3, SameMachine DEF ShameDriver, SearchIsOn, Searching, NamesHeldBelong, DevicePath, Device, OnTheWay
  <2>6. LabelsInOrder' /\ OneDriverNamesAll' /\ EveryDeviceIsLabelled'
    BY <1>9, SameLabels DEF ShameDriver
  <2> QED BY <1>9, <2>4, <2>5, <2>6 DEF ShameDriver, NamesInv
<1>10. CASE WeirdDevice
  <2>1. NoNames \in Names /\ "weird" \in {"strict", "funky", "weird"} /\ dev \in Device
        /\ step \in {"device", "found"} /\ step' = "device" /\ dev' = dev + 1
        /\ ("weird" \in Searched => BelongTo(NoNames, DevicePath))
        /\ Stores("weird", NoNames) /\ UNCHANGED machine
    BY <1>10, <1>0, NoNamesAreNames DEF WeirdDevice, TypeOK, SearchIsOn, Searching, NamesHeldBelong, Searched
  <2>2. labels' \in [Device -> Label] /\ pool' \subseteq Pools /\ LabelsInOrder' /\ OneDriverNamesAll'
    BY <2>1, StoredLabel
  <2>3. TypeOK'
    BY <1>10, <1>0, <2>1, <2>2, NoNamesAreNames, SameMachineTypes DEF WeirdDevice, TypeOK
  <2> QED BY <1>10, <1>0, <2>1, <2>2, <2>3 DEF WeirdDevice, NamesInv, SearchIsOn, Searching, NamesHeldBelong, EveryDeviceIsLabelled
<1>11. CASE StoreName
  <2>1. names \in Names /\ search \in {"strict", "funky", "weird"} /\ dev \in Device
        /\ step \in {"device", "found"} /\ step' = "device" /\ dev' = dev + 1
        /\ (search \in Searched => BelongTo(names, DevicePath))
        /\ Stores(search, names) /\ UNCHANGED machine
    BY <1>11, <1>0 DEF StoreName, TypeOK, SearchIsOn, Searching, NamesHeldBelong, Searched
  <2>2. labels' \in [Device -> Label] /\ pool' \subseteq Pools /\ LabelsInOrder' /\ OneDriverNamesAll'
    BY <2>1, StoredLabel
  <2>3. TypeOK'
    BY <1>11, <1>0, <2>1, <2>2, SameMachineTypes DEF StoreName, TypeOK
  <2> QED BY <1>11, <1>0, <2>1, <2>2, <2>3 DEF StoreName, NamesInv, SearchIsOn, Searching, NamesHeldBelong, EveryDeviceIsLabelled
<1>12. CASE LocatePC
  <2>1. dev = 1 /\ (\A d \in Device : labels[d] = Unnamed) /\ Device' = Device
    BY <1>12 DEF LocatePC, NamesInv, Device
  <2>2. TypeOK'
    <3>1. pool' \subseteq Pools
      BY <1>12 DEF LocatePC, Pools
    <3> QED BY <1>12, <1>0, <3>1, SameMachineTypes DEF LocatePC, TypeOK
  <2>3. SearchIsOn' /\ NamesHeldBelong' /\ EveryDeviceIsLabelled'
    BY <1>12 DEF LocatePC, SearchIsOn, Searching, NamesHeldBelong, EveryDeviceIsLabelled
  <2>4. Labelled' = {}
    BY <1>12, <1>0, <2>1 DEF LocatePC, Labelled
  <2>5. LabelsInOrder'
    BY <1>12, <1>0, <2>1, <2>4 DEF LocatePC, LabelsInOrder
  <2>6. OneDriverNamesAll'
    BY <1>12, <2>1 DEF LocatePC, OneDriverNamesAll, Searched, Unnamed
  <2> QED BY <1>12, <2>2, <2>3, <2>5, <2>6 DEF LocatePC, NamesInv
<1>13. CASE LocateMac
  <2>1. (\A d \in Device : labels[d] = Unnamed) /\ Device' = Device /\ step' = "done"
        /\ UNCHANGED <<machine, search, dev, cntlr, drv, names>>
    BY <1>13 DEF LocateMac, NamesInv, Device
  <2>2. PICK named \in SUBSET Device :
          /\ labels' = [d \in Device |-> [Unnamed EXCEPT !.kind = IF d \in named THEN "apple" ELSE "null"]]
          /\ pool' = {GraphicsHandles, NameBuffer} \cup {NameOf(d) : d \in named}
    BY <1>13 DEF LocateMac
  <2>3. \A d \in Device : labels'[d].kind = IF d \in named THEN "apple" ELSE "null"
    BY <2>2 DEF Unnamed
  <2>4. labels' \in [Device -> Label]
    BY <2>2, NoNamesAreNames DEF Unnamed, Label
  <2>5. TypeOK'
    <3>1. pool' \subseteq Pools
      BY <2>2 DEF Pools
    <3> QED BY <1>0, <2>1, <2>4, <3>1, SameMachineTypes DEF TypeOK
  <2>6. named = {e \in Device : labels'[e].kind # "null"}
    BY <2>3
  <2>7. EveryDeviceIsLabelled'
    <3>1. \A d \in Device : labels'[d].kind # "none"
      BY <2>3
    <3> QED BY <2>1, <2>2, <2>6, <3>1 DEF EveryDeviceIsLabelled
  <2>8. OneDriverNamesAll'
    BY <2>1, <2>3 DEF OneDriverNamesAll, Searched
  <2> QED BY <2>1, <2>5, <2>7, <2>8 DEF NamesInv, SearchIsOn, Searching, NamesHeldBelong, LabelsInOrder
<1>14. CASE FreeHandles
  <2>1. step = "device" /\ dev = Len(machine.devices) + 1 /\ pool' \subseteq pool
        /\ step' \in {"done", "returned"} /\ UNCHANGED <<machine, search, dev, cntlr, drv, names, labels>>
        /\ (step' = "done" => pool' = pool \ {Name2Handles, DevPathHandles})
    BY <1>14 DEF FreeHandles
  <2>2. TypeOK'
    BY <1>0, <2>1, SameMachineTypes DEF TypeOK
  <2>3. LabelsInOrder /\ OneDriverNamesAll
    BY DEF NamesInv
  <2>4. Labelled = {e \in Device : labels[e].kind # "null"} /\ \A d \in Device : d < dev
    BY <1>0, <2>1 DEF Labelled
  <2>5. pool \ {Name2Handles, DevPathHandles} = {NameBuffer, GraphicsHandles} \cup {NameOf(d) : d \in Labelled}
    <3>1. pool = {GraphicsHandles, NameBuffer, Name2Handles, DevPathHandles} \cup {NameOf(d) : d \in Labelled}
      BY <2>1, <2>3 DEF LabelsInOrder
    <3>2. /\ \A d \in Labelled : NameOf(d) \notin {Name2Handles, DevPathHandles}
          /\ {GraphicsHandles, NameBuffer} \cap {Name2Handles, DevPathHandles} = {}
      BY DEF NameOf, GraphicsHandles, NameBuffer, Name2Handles, DevPathHandles
    <3> QED BY <3>1, <3>2
  <2>6. EveryDeviceIsLabelled'
    BY <2>1, <2>3, <2>4, <2>5 DEF EveryDeviceIsLabelled, LabelsInOrder, Device
  <2>7. OneDriverNamesAll'
    BY <2>1, <2>3, SameMachine DEF OneDriverNamesAll
  <2> QED BY <2>1, <2>2, <2>6, <2>7 DEF NamesInv, SearchIsOn, Searching, NamesHeldBelong, LabelsInOrder
<1>15. CASE ServiceFails
  <2>1. step' = "returned" /\ UNCHANGED <<machine, search, dev, cntlr, drv, names, labels>>
    BY <1>15 DEF ServiceFails
  <2>2. pool' \subseteq Pools
    BY <1>15, <1>0 DEF ServiceFails, TypeOK, LocatedBefore, Pools
  <2>3. TypeOK'
    BY <1>0, <2>1, <2>2, SameMachineTypes DEF TypeOK
  <2>4. OneDriverNamesAll'
    BY <2>1, SameMachine DEF NamesInv, OneDriverNamesAll
  <2> QED BY <2>1, <2>3, <2>4 DEF NamesInv, SearchIsOn, Searching, NamesHeldBelong, LabelsInOrder, EveryDeviceIsLabelled
<1>16. CASE UNCHANGED vars
  <2>1. TypeOK'
    BY <1>16, <1>0, SameMachineTypes DEF vars, TypeOK
  <2>2. SearchIsOn' /\ NamesHeldBelong'
    BY <1>16, <1>0, SameMachine DEF vars, SearchIsOn, Searching, NamesHeldBelong, DevicePath, Device, OnTheWay
  <2>3. LabelsInOrder' /\ OneDriverNamesAll' /\ EveryDeviceIsLabelled'
    BY <1>16, SameLabels DEF vars
  <2> QED BY <1>16, <2>1, <2>2, <2>3 DEF vars, NamesInv, Device
<1> QED BY <1>1, <1>2, <1>3, <1>4, <1>5, <1>6, <1>7, <1>8, <1>9, <1>10, <1>11, <1>12, <1>13, <1>14,
        <1>15, <1>16 DEF Next

LEMMA NamesAreInvariant == Spec => []NamesInv
BY InitNames, StepNames, PTL DEF Spec

\* No search goes beyond the handles, drivers or devices there are.
THEOREM NamesTypes == Spec => []TypeOK
<1>1. NamesInv => TypeOK
  BY DEF NamesInv
<1> QED BY <1>1, NamesAreInvariant, PTL

\* The menus are handed a label for every device and exactly the pools they free.
THEOREM DevicesLabelled == Spec => []EveryDeviceIsLabelled
<1>1. NamesInv => EveryDeviceIsLabelled
  BY DEF NamesInv
<1> QED BY <1>1, NamesAreInvariant, PTL
-----------------------------------------------------------------------------
(* The funky search.                                                       *)

LEMMA SameQuestions ==
  ASSUME UNCHANGED machine
  PROVE  /\ \A path : AllAsked(path)' = AllAsked(path)
         /\ \A n, asked : LastAsked(n, asked)' <=> LastAsked(n, asked)
BY DEF AllAsked, OnTheWay, LastAsked

LEMMA NoSources == SourcesOf(NoNames) = {}
BY DEF SourcesOf, NoNames

\* A label stored by the funky search is of names left by the last question, or of
\* a child; the others are as they were.
LEMMA StoredLast ==
  ASSUME NamesInv, LeftInv, NEW n \in Names, NEW kind \in {"strict", "funky", "weird"},
         dev \in Device, UNCHANGED machine, Stores(kind, n),
         kind = "funky" /\ n.child = Default => LastAsked(n, AllAsked(DevicePath))
  PROVE  LeftNamesAreTheLast'
<1>1. labels \in [Device -> Label] /\ Device' = Device
  BY SameMachine DEF NamesInv, TypeOK
<1>2. \A d \in Device : d # dev => labels'[d] = labels[d]
  BY <1>1 DEF Stores
<1>3. labels'[dev].kind = "funky" => kind = "funky" /\ labels'[dev].names = n
  <2>1. CASE labels' = [labels EXCEPT ![dev] = [kind |-> kind, names |-> n]]
    BY <1>1, <2>1
  <2>2. CASE labels' = [labels EXCEPT ![dev].kind = "null"]
    <3>1. labels' = [labels EXCEPT ![dev] = [labels[dev] EXCEPT !.kind = "null"]]
      BY <2>2
    <3>2. [labels[dev] EXCEPT !.kind = "null"].kind = "null"
      BY <1>1 DEF Label
    <3> QED BY <1>1, <3>1, <3>2
  <2> QED BY <2>1, <2>2 DEF Stores
<1>4. ASSUME NEW d \in Device, labels'[d].kind = "funky", labels'[d].names.child = Default
      PROVE  LastAsked(labels'[d].names, AllAsked(machine.devices[d]))
  BY <1>2, <1>3, <1>4 DEF LeftInv, LeftNamesAreTheLast, DevicePath
<1> QED BY <1>1, <1>4, SameQuestions DEF LeftNamesAreTheLast

\* Labels that stay are as they were.
LEMMA KeptLast ==
  ASSUME LeftInv, UNCHANGED <<machine, labels>>
  PROVE  LeftNamesAreTheLast'
BY SameMachine, SameQuestions DEF LeftInv, LeftNamesAreTheLast

\* Steps of the search that learn no name: they ask nothing, or a driver on the
\* Wall of Shame.
LEMMA NothingAsked ==
  ASSUME LeftInv, UNCHANGED <<machine, search, dev, names, labels>>, Searching,
         search = "funky" => AskedSoFar' = AskedSoFar,
         step' = "found" /\ search = "funky" => cntlr' = Len(machine.handles) + 1
  PROVE  LeftInv'
<1>1. Searching /\ search = "funky" /\ names.child = Default => LastAsked(names, AskedSoFar)
  BY DEF LeftInv, LeftNamesAreLastSoFar
<1>2. search = "funky" /\ names.child = Default => LastAsked(names, AskedSoFar)'
  <2> SUFFICES ASSUME search = "funky", names.child = Default PROVE LastAsked(names, AskedSoFar)'
    OBVIOUS
  <2>1. LastAsked(names, AskedSoFar)
    BY <1>1
  <2>2. AskedSoFar' = AskedSoFar
    OBVIOUS
  <2> QED BY <2>1, <2>2 DEF LastAsked
<1>3. LeftNamesAreLastSoFar'
  BY <1>2 DEF LeftNamesAreLastSoFar
<1> QED BY <1>3, KeptLast DEF LeftInv

LEMMA StepLeft == NamesInv /\ LeftInv /\ [Next]_vars => LeftInv'
<1> SUFFICES ASSUME NamesInv, LeftInv, [Next]_vars PROVE LeftInv'
  OBVIOUS
<1>0. /\ SearchIsOn /\ machine \in Machines /\ machine.drivers \in Nat /\ drv \in Nat /\ cntlr \in Nat
      /\ drv \in 1 .. machine.drivers + 1
      /\ Len(machine.handles) \in Nat /\ DOMAIN machine.handles = 1 .. Len(machine.handles)
  BY MachineType DEF NamesInv, TypeOK
<1>a. UNCHANGED <<machine, dev>> => DevicePath' = DevicePath /\ AllAsked(DevicePath)' = AllAsked(DevicePath)
  BY SameQuestions DEF DevicePath
<1>q. \A a \in AllAsked(DevicePath) :
        a[1] \in 1 .. machine.drivers /\ a[2] \in 1 .. Len(machine.handles) /\ OnTheWay(a[2], DevicePath)
  BY <1>0 DEF AllAsked
<1>1. CASE SkipHandle
  <2>1. step = "controller" /\ step' = "controller" /\ cntlr' = cntlr + 1 /\ UNCHANGED <<machine, search, dev, drv, names, labels>>
        /\ ~IsController(cntlr)
    BY <1>1 DEF SkipHandle, AtHandle
  <2>2. search = "funky" => AskedSoFar' = AskedSoFar
    <3>1. search = "funky" => ~OnTheWay(cntlr, DevicePath)
      BY <2>1 DEF IsController, OnTheWay
    <3>2. search = "funky" => \A a \in AllAsked(DevicePath) : a[2] < cntlr + 1 <=> a[2] < cntlr
      BY <1>0, <1>q, <3>1
    <3> HIDE DEF AllAsked
    <3> QED BY <1>a, <2>1, <3>2 DEF AskedSoFar
  <2> QED BY <2>1, <2>2, NothingAsked DEF Searching
<1>2. CASE FindController
  <2>1. step = "controller" /\ step' = "driver" /\ drv' = 1 /\ UNCHANGED <<machine, search, dev, cntlr, names, labels>>
    BY <1>2 DEF FindController, AtHandle
  <2>2. AskedSoFar' = AskedSoFar
    BY <1>a, <1>q, <2>1 DEF AskedSoFar
  <2> QED BY <2>1, <2>2, NothingAsked DEF Searching
<1>3. CASE EndHandles
  <2>1. step = "controller" /\ step' = "found" /\ cntlr = Len(machine.handles) + 1
        /\ UNCHANGED <<machine, search, dev, cntlr, drv, names, labels>>
    BY <1>3 DEF EndHandles
  <2>2. AskedSoFar' = AskedSoFar
    BY <1>a, <2>1 DEF AskedSoFar
  <2> QED BY <2>1, <2>2, NothingAsked DEF Searching
<1>4. CASE SkipDriver
  <2>1. step = "driver" /\ step' = "driver" /\ search = "strict" /\ UNCHANGED <<machine, search, dev, cntlr, names, labels>>
    BY <1>4 DEF SkipDriver
  <2> QED BY <2>1, NothingAsked DEF Searching
<1>5. CASE NameStrictly
  <2>1. search' = "strict" /\ UNCHANGED <<machine, labels>>
    BY <1>5 DEF NameStrictly
  <2> QED BY <2>1, KeptLast DEF LeftInv, LeftNamesAreLastSoFar
<1>6. CASE ShameDriver
  <2>1. step = "driver" /\ search = "funky" /\ drv \in machine.shamed /\ drv' = drv + 1 /\ step' = step
        /\ names' = [names EXCEPT !.driver = Default] /\ UNCHANGED <<machine, search, dev, cntlr, labels>>
    BY <1>6 DEF ShameDriver
  <2>2. names \in Names
    BY DEF NamesInv, TypeOK
  <2>3. names'.driver = Default /\ names'.child = names.child /\ SourcesOf(names') \subseteq SourcesOf(names)
    BY <2>1, <2>2 DEF SourcesOf, Names
  <2>4. \A a \in AskedSoFar' : a \in AskedSoFar \/ a[1] = drv
    BY <1>0, <1>a, <1>q, <2>1 DEF AskedSoFar
  <2>5. names.child = Default => LastAsked(names, AskedSoFar)
    BY <2>1 DEF LeftInv, LeftNamesAreLastSoFar, Searching
  <2>6. names'.child = Default => LastAsked(names, AskedSoFar)'
    BY <2>1, <2>3, <2>4, <2>5 DEF LastAsked
  <2>7. LeftNamesAreLastSoFar'
    BY <2>1, <2>6 DEF LeftNamesAreLastSoFar
  <2> QED BY <2>1, <2>7, KeptLast DEF LeftInv
<1>7. CASE NameFunkily
  <2>1. PICK new \in NamesFrom(drv) :
          /\ names' = new
          /\ step' = IF new.child # Default THEN "found" ELSE "driver"
          /\ drv' = IF new.child # Default THEN drv ELSE drv + 1
    BY <1>7 DEF NameFunkily
  <2>2. step = "driver" /\ UNCHANGED <<machine, search, dev, cntlr, labels>>
    BY <1>7 DEF NameFunkily
  <2>3. \A s \in SourcesOf(names') : s = <<drv, cntlr>>
    BY <2>1 DEF NamesFrom, SourcesOf
  <2>4. names'.child = Default => step' = "driver" /\ \A a \in AskedSoFar' : ~IsAfter(a, <<drv, cntlr>>)
    <3> SUFFICES ASSUME names'.child = Default PROVE step' = "driver" /\ \A a \in AskedSoFar' : ~IsAfter(a, <<drv, cntlr>>)
      OBVIOUS
    <3>1. step' = "driver" /\ drv' = drv + 1
      BY <2>1
    <3>2. \A a \in AskedSoFar' : a[1] \in Nat /\ a[2] \in Nat /\ (a[2] < cntlr \/ (a[2] = cntlr /\ a[1] < drv + 1))
      BY <1>a, <1>q, <2>2, <3>1 DEF AskedSoFar
    <3>3. \A a \in AskedSoFar' : ~IsAfter(a, <<drv, cntlr>>)
      BY <1>0, <3>2 DEF IsAfter
    <3> QED BY <3>1, <3>3
  <2>5. names'.child = Default => LastAsked(names, AskedSoFar)'
    BY <2>3, <2>4 DEF LastAsked
  <2>6. LeftNamesAreLastSoFar'
    BY <2>4, <2>5 DEF LeftNamesAreLastSoFar
  <2> QED BY <2>2, <2>6, KeptLast DEF LeftInv
<1>8. CASE EndDrivers
  <2>1. step = "driver" /\ drv = machine.drivers + 1 /\ UNCHANGED <<machine, search, dev, names, labels>>
        /\ (search = "funky" => step' = "controller" /\ cntlr' = cntlr + 1)
    BY <1>8 DEF EndDrivers
  <2>2. search = "funky" => AskedSoFar' = AskedSoFar
    <3>1. search = "funky" =>
            \A a \in AllAsked(DevicePath) :
              a[2] < cntlr + 1 <=> a[2] < cntlr \/ (a[2] = cntlr /\ a[1] < drv)
      BY <1>0, <1>q, <2>1
    <3> HIDE DEF AllAsked
    <3> QED BY <1>a, <2>1, <3>1 DEF AskedSoFar
  <2>3. ~(step' = "found" /\ search = "funky")
    BY <2>1
  <2> QED BY <2>1, <2>2, <2>3, NothingAsked DEF Searching
<1>9. CASE TryFunkily \/ BeginDevice
  <2>1. names' = NoNames /\ step' = "controller" /\ UNCHANGED <<machine, labels>>
    BY <1>9 DEF TryFunkily, BeginDevice
  <2>2. SourcesOf(names') = {}
    BY <2>1, NoSources
  <2>3. LastAsked(names, AskedSoFar)'
    BY <2>2 DEF LastAsked
  <2> QED BY <2>1, <2>3, KeptLast DEF LeftInv, LeftNamesAreLastSoFar
<1>10. CASE WeirdDevice
  <2>1. step' = "device" /\ dev \in Device /\ UNCHANGED machine /\ Stores("weird", NoNames)
    BY <1>10 DEF WeirdDevice
  <2> QED BY <2>1, NoNamesAreNames, StoredLast DEF LeftInv, LeftNamesAreLastSoFar, Searching
<1>11. CASE StoreName
  <2>1. step = "found" /\ step' = "device" /\ dev \in Device /\ UNCHANGED machine /\ Stores(search, names)
        /\ names \in Names /\ search \in {"strict", "funky", "weird"}
    BY <1>0, <1>11 DEF StoreName, NamesInv, TypeOK, SearchIsOn, Searching
  <2>2. search = "funky" /\ names.child = Default => LastAsked(names, AllAsked(DevicePath))
    <3> SUFFICES ASSUME search = "funky", names.child = Default PROVE LastAsked(names, AllAsked(DevicePath))
      OBVIOUS
    <3>1. cntlr = Len(machine.handles) + 1 /\ LastAsked(names, AskedSoFar)
      BY <2>1 DEF LeftInv, LeftNamesAreLastSoFar, Searching
    <3>2. AskedSoFar = AllAsked(DevicePath)
      BY <1>0, <1>q, <3>1 DEF AskedSoFar
    <3> QED BY <3>1, <3>2
  <2>3. LeftNamesAreTheLast'
    BY <2>1, <2>2, StoredLast
  <2> QED BY <2>1, <2>3 DEF LeftInv, LeftNamesAreLastSoFar, Searching
<1>12. CASE LocatePC \/ FreeHandles \/ ServiceFails
  <2>1. step' \in {"device", "done", "returned"} /\ UNCHANGED <<machine, labels>>
    BY <1>12 DEF LocatePC, FreeHandles, ServiceFails
  <2> QED BY <2>1, KeptLast DEF LeftInv, LeftNamesAreLastSoFar, Searching
<1>13. CASE LocateMac
  <2>1. step' = "done" /\ UNCHANGED machine
    BY <1>13 DEF LocateMac
  <2>2. \A d \in Device : labels'[d].kind # "funky"
    BY <1>13 DEF LocateMac, Unnamed
  <2> QED BY <2>1, <2>2, SameMachine DEF LeftInv, LeftNamesAreLastSoFar, LeftNamesAreTheLast, Searching
<1>14. CASE UNCHANGED vars
  <2>1. UNCHANGED <<machine, step, search, dev, cntlr, drv, names, labels>>
    BY <1>14 DEF vars
  <2>2. AskedSoFar' = AskedSoFar
    BY <1>a, <2>1 DEF AskedSoFar
  <2>3. CASE Searching
    <3>1. step' = "found" /\ search = "funky" /\ names.child = Default => cntlr' = Len(machine.handles) + 1
      BY <2>1 DEF LeftInv, LeftNamesAreLastSoFar
    <3>2. LeftNamesAreLastSoFar'
      BY <2>1, <2>2, <2>3, <3>1, SameQuestions DEF LeftInv, LeftNamesAreLastSoFar, LastAsked, Searching
    <3> QED BY <2>1, <3>2, KeptLast DEF LeftInv
  <2>4. CASE ~Searching
    BY <2>1, <2>4, KeptLast DEF LeftInv, LeftNamesAreLastSoFar, Searching
  <2> QED BY <2>3, <2>4
<1> QED BY <1>1, <1>2, <1>3, <1>4, <1>5, <1>6, <1>7, <1>8, <1>9, <1>10, <1>11, <1>12, <1>13, <1>14 DEF Next

\* The names in a label are one driver's, for one controller on the way to the
\* device: the funky search never mixes those of two.  It does leave names without
\* the child's, where the comment at Graphics.c:727 has the defaults: those of the
\* driver it asked last, or, if that is on the Wall of Shame, the controller's name
\* from the one before.
THEOREM NamesTogether == Spec => []NamesBelongTogether
<1>1. Init => LeftInv
  BY DEF Init, LeftInv, LeftNamesAreLastSoFar, LeftNamesAreTheLast, Searching, Unnamed
<1>2. NamesInv /\ LeftInv /\ [Next]_vars => (NamesInv /\ LeftInv)'
  BY StepNames, StepLeft
<1>3. NamesInv /\ LeftInv => NamesBelongTogether
  BY DEF NamesInv, LeftInv, NamesBelongTogether
<1> QED BY <1>1, <1>2, <1>3, InitNames, PTL DEF Spec
-----------------------------------------------------------------------------
(* The strict search.                                                      *)

LEMMA SameStrictly ==
  ASSUME UNCHANGED machine
  PROVE  \A s, path : IsNamedStrictly(s, path)' <=> IsNamedStrictly(s, path)
BY DEF IsNamedStrictly

\* A label stored is the one of the search that has ended, or none.
LEMMA StoredStrictly ==
  ASSUME NamesInv, StrictSearchIsExact, NEW n \in Names, NEW kind \in {"strict", "funky", "weird"},
         dev \in Device, DevicePath # NoPath \/ kind = "weird", UNCHANGED machine, Stores(kind, n),
         kind = "strict" => \A s \in SourcesOf(n) : IsNamedStrictly(s, DevicePath)
  PROVE  \A d \in Device : labels'[d].kind = "strict" =>
           machine.devices[d] # NoPath /\ \A s \in SourcesOf(labels'[d].names) : IsNamedStrictly(s, machine.devices[d])
<1>1. labels \in [Device -> Label]
  BY DEF NamesInv, TypeOK
<1>2. ASSUME NEW d \in Device, d # dev
      PROVE  labels'[d] = labels[d]
  BY <1>1, <1>2 DEF Stores
<1>3. labels'[dev].kind = "strict" => kind = "strict" /\ labels'[dev].names = n
  <2>1. CASE labels' = [labels EXCEPT ![dev] = [kind |-> kind, names |-> n]]
    BY <1>1, <2>1
  <2>2. CASE labels' = [labels EXCEPT ![dev].kind = "null"]
    <3>1. labels' = [labels EXCEPT ![dev] = [labels[dev] EXCEPT !.kind = "null"]]
      BY <2>2
    <3>2. [labels[dev] EXCEPT !.kind = "null"].kind = "null"
      BY <1>1 DEF Label
    <3> QED BY <1>1, <3>1, <3>2
  <2> QED BY <2>1, <2>2 DEF Stores
<1> QED BY <1>2, <1>3 DEF StrictSearchIsExact, Sources, DevicePath

\* Steps that find nothing: the search for the device goes on, or is over.
LEMMA SearchStep ==
  ASSUME NamesInv, StrictSearchIsExact, UNCHANGED <<machine, search, dev, names, labels>>,
         Searching, step # "found",
         step' = "driver" /\ search = "strict" =>
           /\ PathSize(machine.handles[cntlr'].path) = ControllerPathSize(DevicePath)
           /\ \A e \in 1 .. drv' - 1 : <<e, cntlr'>> \notin machine.manages
  PROVE  StrictSearchIsExact'
<1>1. Device' = Device /\ DevicePath' = DevicePath
  BY SameMachine DEF DevicePath
<1>2. \A s, path : IsNamedStrictly(s, path)' <=> IsNamedStrictly(s, path)
  BY SameStrictly
<1>3. (Searching /\ search = "strict" =>
         /\ step # "found" => names = NoNames
         /\ \A s \in SourcesOf(names) : IsNamedStrictly(s, DevicePath))'
  BY <1>1, <1>2 DEF StrictSearchIsExact
<1>4. (\A d \in Device : labels[d].kind = "strict" =>
         machine.devices[d] # NoPath /\ \A s \in Sources(d) : IsNamedStrictly(s, machine.devices[d]))'
  BY <1>1, <1>2 DEF StrictSearchIsExact, Sources
<1>5. (step = "driver" /\ search = "strict" =>
         /\ PathSize(machine.handles[cntlr].path) = ControllerPathSize(DevicePath)
         /\ \A e \in 1 .. drv - 1 : <<e, cntlr>> \notin machine.manages)'
  BY <1>1
<1> QED BY <1>3, <1>4, <1>5 DEF StrictSearchIsExact

LEMMA StepStrict == NamesInv /\ StrictSearchIsExact /\ [Next]_vars => StrictSearchIsExact'
<1> SUFFICES ASSUME NamesInv, StrictSearchIsExact, [Next]_vars PROVE StrictSearchIsExact'
  OBVIOUS
<1>0. /\ TypeOK /\ SearchIsOn
      /\ machine \in Machines /\ machine.drivers \in Nat
      /\ drv \in Nat /\ Device = DOMAIN machine.devices
  BY MachineType DEF NamesInv, TypeOK, Device
<1>s. UNCHANGED machine => Device' = Device /\ \A s, path : IsNamedStrictly(s, path)' <=> IsNamedStrictly(s, path)
  BY SameMachine, SameStrictly
<1>1. CASE SkipHandle \/ EndHandles
  <2>1. step = "controller" /\ step' \in {"controller", "found"} /\ UNCHANGED <<machine, search, dev, names, labels>>
    BY <1>1 DEF SkipHandle, EndHandles, AtHandle
  <2> QED BY <2>1, SearchStep DEF Searching
<1>2. CASE FindController
  <2>1. step = "controller" /\ step' = "driver" /\ UNCHANGED <<machine, search, dev, names, labels, cntlr>> /\ drv' = 1
        /\ (search = "strict" => PathSize(machine.handles[cntlr].path) = ControllerPathSize(DevicePath))
    BY <1>2 DEF FindController, AtHandle, IsController
  <2> QED BY <2>1, SearchStep DEF Searching
<1>3. CASE SkipDriver
  <2>1. step = "driver" /\ step' = "driver" /\ UNCHANGED <<machine, search, dev, names, labels, cntlr>> /\ drv' = drv + 1
        /\ search = "strict" /\ <<drv, cntlr>> \notin machine.manages
    BY <1>3 DEF SkipDriver, Manages
  <2>2. PathSize(machine.handles[cntlr].path) = ControllerPathSize(DevicePath)
        /\ \A e \in 1 .. drv - 1 : <<e, cntlr>> \notin machine.manages
    BY <2>1 DEF StrictSearchIsExact
  <2>3. \A e \in 1 .. drv' - 1 : <<e, cntlr>> \notin machine.manages
    BY <1>0, <2>1, <2>2
  <2> QED BY <2>1, <2>2, <2>3, SearchStep DEF Searching
<1>4. CASE NameStrictly
  <2>1. step = "driver" /\ step' = "found" /\ UNCHANGED <<machine, search, dev, labels, cntlr, drv>>
        /\ search = "strict" /\ <<drv, cntlr>> \in machine.manages /\ names' \in NamesFrom(drv)
    BY <1>4 DEF NameStrictly, Manages
  <2>2. \A s \in SourcesOf(names') : s = <<drv, cntlr>>
    BY <2>1 DEF NamesFrom, SourcesOf
  <2>3. IsNamedStrictly(<<drv, cntlr>>, DevicePath)
    BY <2>1 DEF StrictSearchIsExact, IsNamedStrictly
  <2>4. DevicePath' = DevicePath
    BY <2>1 DEF DevicePath
  <2>5. \A s \in SourcesOf(names') : IsNamedStrictly(s, DevicePath)
    BY <2>2, <2>3
  <2> QED BY <1>s, <2>1, <2>4, <2>5 DEF StrictSearchIsExact, Sources
<1>5. CASE ShameDriver \/ NameFunkily
  <2>1. search' = "funky" /\ UNCHANGED <<machine, labels>>
    BY <1>5 DEF ShameDriver, NameFunkily
  <2> QED BY <1>s, <2>1 DEF StrictSearchIsExact, Sources
<1>6. CASE EndDrivers
  <2>1. step = "driver" /\ step' \in {"controller", "found"} /\ UNCHANGED <<machine, search, dev, names, labels>>
    BY <1>6 DEF EndDrivers
  <2> QED BY <2>1, SearchStep DEF Searching
<1>7. CASE TryFunkily
  <2>1. search' = "funky" /\ UNCHANGED <<machine, labels>>
    BY <1>7 DEF TryFunkily
  <2> QED BY <1>s, <2>1 DEF StrictSearchIsExact, Sources
<1>8. CASE BeginDevice
  <2>1. step' = "controller" /\ names' = NoNames /\ UNCHANGED <<machine, labels>>
    BY <1>8 DEF BeginDevice
  <2> QED BY <1>s, <2>1, NoSources DEF StrictSearchIsExact, Sources
<1>9. CASE WeirdDevice
  <2>1. step' = "device" /\ dev \in Device /\ UNCHANGED machine /\ Stores("weird", NoNames)
    BY <1>9 DEF WeirdDevice
  <2>2. \A d \in Device : labels'[d].kind = "strict" =>
          machine.devices[d] # NoPath /\ \A s \in SourcesOf(labels'[d].names) : IsNamedStrictly(s, machine.devices[d])
    BY <2>1, NoNamesAreNames, StoredStrictly
  <2> QED BY <1>s, <2>1, <2>2 DEF StrictSearchIsExact, Searching, Sources
<1>10. CASE StoreName
  <2>1. step = "found" /\ step' = "device" /\ dev \in Device /\ UNCHANGED machine /\ Stores(search, names)
        /\ names \in Names /\ search \in {"strict", "funky", "weird"} /\ DevicePath # NoPath
    BY <1>0, <1>10 DEF StoreName, TypeOK, SearchIsOn, Searching
  <2>2. search = "strict" => \A s \in SourcesOf(names) : IsNamedStrictly(s, DevicePath)
    BY <2>1 DEF StrictSearchIsExact, Searching
  <2>3. \A d \in Device : labels'[d].kind = "strict" =>
          machine.devices[d] # NoPath /\ \A s \in SourcesOf(labels'[d].names) : IsNamedStrictly(s, machine.devices[d])
    BY <2>1, <2>2, StoredStrictly
  <2> QED BY <1>s, <2>1, <2>3 DEF StrictSearchIsExact, Searching, Sources
<1>11. CASE LocatePC \/ FreeHandles \/ ServiceFails
  <2>1. step' \in {"device", "done", "returned"} /\ UNCHANGED <<machine, labels>>
    BY <1>11 DEF LocatePC, FreeHandles, ServiceFails
  <2> QED BY <1>s, <2>1 DEF StrictSearchIsExact, Searching, Sources
<1>12. CASE LocateMac
  <2>1. step' = "done" /\ UNCHANGED machine
    BY <1>12 DEF LocateMac
  <2>2. \A d \in Device : labels'[d].kind # "strict"
    BY <1>12 DEF LocateMac, Unnamed
  <2> QED BY <1>s, <2>1, <2>2 DEF StrictSearchIsExact, Searching
<1>13. CASE UNCHANGED vars
  <2>1. DevicePath' = DevicePath /\ UNCHANGED <<machine, step, search, dev, cntlr, drv, names, labels>>
    BY <1>13 DEF vars, DevicePath
  <2> QED BY <1>s, <2>1 DEF StrictSearchIsExact, Searching, Sources
<1> QED BY <1>1, <1>2, <1>3, <1>4, <1>5, <1>6, <1>7, <1>8, <1>9, <1>10, <1>11, <1>12, <1>13 DEF Next

LEMMA StrictIsInvariant == Spec => [](NamesInv /\ StrictSearchIsExact)
<1>1. Init => StrictSearchIsExact
  BY DEF Init, StrictSearchIsExact, Searching, Unnamed
<1>2. NamesInv /\ StrictSearchIsExact /\ [Next]_vars => (NamesInv /\ StrictSearchIsExact)'
  BY StepNames, StepStrict
<1> QED BY <1>1, <1>2, InitNames, PTL DEF Spec

\* A path of one instance begins another if its nodes do.
LEMMA SingleMatches ==
  ASSUME NEW multi \in Path, NEW single \in Path, \A n \in DOMAIN multi : multi[n] # Instance
  PROVE  Matches(multi, single) <=> Len(multi) <= Len(single) /\ multi = SubSeq(single, 1, Len(multi))
<1>0. Len(multi) \in Nat /\ DOMAIN multi = 1 .. Len(multi)
  BY DEF Path
<1>1. Starts(multi) = {1}
  BY DEF Starts
<1>2. InstanceAt(multi, 1) = multi
  <2>1. {j \in 1 .. Len(multi) : multi[j] = Instance} = {}
    BY <1>0
  <2>2. InstanceAt(multi, 1) = SubSeq(multi, 1, Len(multi))
    BY <2>1 DEF InstanceAt
  <2>3. SubSeq(multi, 1, Len(multi)) = multi
    BY DEF Path
  <2> QED BY <2>2, <2>3
<1> QED BY <1>1, <1>2 DEF Matches

\* The controller of a device on a PCI bus is looked for 8 bytes short of it.
LEMMA EightBytesShort ==
  ASSUME NEW path \in Path, OnPCI(path)
  PROVE  /\ Len(path) \in Nat /\ Len(path) >= 1
         /\ PathSize(path) = Sizes(path)[Len(path)] /\ ControllerPathSize(path) = PathSize(path) - 8
<1>1. Len(path) \in Nat /\ Len(path) >= 1
  BY DEF OnPCI, Path
<1>2. PathSize(path) = Sizes(path)[Len(path)] /\ PathSize(path) \in Nat
  BY <1>1, SizesOfPath, SizeOfPrefix
<1>3. ControllerPathSize(path) = PathSize(path) - 12 + 4
  BY DEF ControllerPathSize, OnPCI, EndLength
<1> QED BY <1>1, <1>2, <1>3

\* Only one beginning of a path is 8 bytes short of it: all but its last node, if
\* anything.
LEMMA OnlyParentIsShort ==
  ASSUME NodesCarryData, NEW path \in Path, OnPCI(path), \A n \in DOMAIN path : path[n] # Instance,
         NEW k \in 0 .. Len(path), Sizes(path)[k] = Sizes(path)[Len(path)] - 8
  PROVE  k = Len(path) - 1
<1> DEFINE N == Len(path)
           size == Sizes(path)
<1>1. N \in Nat /\ N >= 1 /\ \A n \in 0 .. N : size[n] \in Nat
  BY EightBytesShort, SizeOfPrefix
<1>2. \A n \in 1 .. N : NodeLength[path[n]] > 4 /\ NodeLength[path[n]] \in Nat /\ size[n] = size[n - 1] + NodeLength[path[n]]
  <2> TAKE n \in 1 .. N
  <2>1. path[n] \in Node /\ path[n] # Instance
    BY DEF Path
  <2> QED BY <2>1, SizeGrows DEF NodesCarryData, EndLength
<1>3. \A m \in 0 .. N : k <= m => size[k] <= size[m]
  BY SizesAscend
<1>s. size[k] = size[N] - 8
  OBVIOUS
<1> HIDE DEF size
<1>4. k # N
  BY <1>1, <1>s
<1>5. k < N - 1 => FALSE
  <2> SUFFICES ASSUME k < N - 1 PROVE FALSE
    OBVIOUS
  <2>1. N - 2 \in 0 .. N /\ N - 1 \in 1 .. N /\ N \in 1 .. N /\ (N - 1) - 1 = N - 2 /\ k <= N - 2
    BY <1>1
  <2>2. size[N] = size[N - 1] + NodeLength[path[N]] /\ size[N - 1] = size[N - 2] + NodeLength[path[N - 1]]
    BY <1>2, <2>1
  <2>3. NodeLength[path[N]] > 4 /\ NodeLength[path[N - 1]] > 4 /\ NodeLength[path[N]] \in Nat /\ NodeLength[path[N - 1]] \in Nat
    BY <1>2, <2>1
  <2>4. size[k] <= size[N - 2] /\ size[k] \in Nat /\ size[N - 2] \in Nat
    BY <1>1, <1>3, <2>1
  <2> QED BY <1>s, <2>2, <2>3, <2>4
<1> QED BY <1>1, <1>4, <1>5

\* On a machine without multi-instance paths, the strict search gives a device on
\* a PCI bus only the names of its own controller, and by the first driver that
\* manages that: there is no other handle on the way that is 8 bytes short.
THEOREM StrictNames ==
  ASSUME NodesCarryData
  PROVE  Spec => [](PathsAreSingle(machine) => StrictNamesAreTheParents)
<1>1. NamesInv /\ StrictSearchIsExact => (PathsAreSingle(machine) => StrictNamesAreTheParents)
  <2> SUFFICES ASSUME NamesInv, StrictSearchIsExact, PathsAreSingle(machine),
                      NEW d \in Device, labels[d].kind = "strict", OnPCI(machine.devices[d]),
                      NEW s \in Sources(d)
               PROVE  /\ machine.handles[s[2]].path = Parent(machine.devices[d])
                      /\ s \in machine.manages
                      /\ \A e \in 1 .. s[1] - 1 : <<e, s[2]>> \notin machine.manages
    BY DEF StrictNamesAreTheParents
  <2> DEFINE path == machine.devices[d]
             p == machine.handles[s[2]].path
  <2>1. IsNamedStrictly(s, path)
    BY DEF StrictSearchIsExact
  <2>2. Matches(p, path)
    BY DEF NamesInv, OneDriverNamesAll, Searched, BelongTo, OnTheWay, Sources
  <2>3. machine \in Machines
    BY DEF NamesInv, TypeOK
  <2>4. path \in Path
    <3>1. path \in Path \cup {NoPath}
      BY <2>3, MachineType DEF Device
    <3>2. path # NoPath
      BY DEF StrictSearchIsExact
    <3> QED BY <3>1, <3>2
  <2>5. s[2] \in DOMAIN machine.handles
    <3>1. labels[d].names \in Names
      BY DEF NamesInv, TypeOK, Label
    <3> QED BY <3>1 DEF Sources, SourcesOf, Names, Source
  <2>6. p \in Path
    <3>1. machine.handles \in Seq(Handle)
      BY <2>3, MachineType
    <3>2. machine.handles[s[2]] \in Handle
      BY <2>5, <3>1
    <3> QED BY <3>2 DEF Handle
  <2>7. Len(p) <= Len(path) /\ p = SubSeq(path, 1, Len(p))
    BY <2>2, <2>4, <2>5, <2>6, SingleMatches DEF PathsAreSingle
  <2>8. Len(p) \in 0 .. Len(path)
    BY <2>4, <2>6, <2>7 DEF Path
  <2>9. PathSize(p) = Sizes(path)[Len(p)]
    BY <2>4, <2>7, <2>8, SizeOfPrefix
  <2>10. Sizes(path)[Len(p)] = Sizes(path)[Len(path)] - 8
    BY <2>1, <2>4, <2>9, EightBytesShort DEF IsNamedStrictly
  <2>11. \A n \in DOMAIN path : path[n] # Instance
    BY DEF PathsAreSingle, Device
  <2>12. Len(p) = Len(path) - 1
    BY <2>4, <2>8, <2>10, <2>11, OnlyParentIsShort
  <2>13. p = Parent(path)
    BY <2>7, <2>12 DEF Parent
  <2> QED BY <2>1, <2>13 DEF IsNamedStrictly
<1> QED BY <1>1, StrictIsInvariant, PTL

\* The handle above an output of 8 bytes is the one the strict search looks for.
LEMMA ParentIsController ==
  ASSUME NEW path \in Path, SingleOutput(path)
  PROVE  Parent(path) \in Path /\ PathSize(Parent(path)) = ControllerPathSize(path) /\ Matches(Parent(path), path)
<1> DEFINE N == Len(path)
           p == Parent(path)
<1>1. N \in Nat /\ N > 1 /\ N - 1 \in 0 .. N
  BY DEF SingleOutput, Path
<1>2. p \in Path /\ Len(p) = N - 1 /\ PathSize(p) = Sizes(path)[N - 1]
  BY <1>1, SizeOfPrefix DEF Parent
<1>3. PathSize(p) = ControllerPathSize(path)
  <2>1. Sizes(path)[N] = Sizes(path)[N - 1] + 8
    BY <1>1, SizeGrows DEF SingleOutput
  <2>2. ControllerPathSize(path) = Sizes(path)[N] - 8 /\ Sizes(path)[N - 1] \in Nat
    BY <1>1, EightBytesShort, SizeOfPrefix DEF SingleOutput
  <2> QED BY <1>2, <2>1, <2>2
<1>4. Matches(p, path)
  <2> DEFINE ends == {j \in 1 .. Len(p) : p[j] = Instance}
             e == IF ends = {} THEN Len(p) ELSE Min(ends) - 1
  <2>1. e \in 0 .. N - 1
    <3>1. CASE ends = {}
      BY <1>1, <1>2, <3>1
    <3>2. CASE ends # {}
      <4>1. ends \in SUBSET Nat
        OBVIOUS
      <4>2. PICK x \in ends : \A y \in ends : x <= y
        <5> HIDE DEF ends
        <5> QED BY <3>2, <4>1, LeastInSet
      <4>3. Min(ends) \in ends
        BY <4>2 DEF Min
      <4> HIDE DEF ends
      <4>4. Min(ends) \in 1 .. Len(p)
        BY <4>3 DEF ends
      <4> QED BY <1>1, <1>2, <3>2, <4>4
    <3> QED BY <3>1, <3>2
  <2>2. InstanceAt(p, 1) = SubSeq(p, 1, e)
    BY DEF InstanceAt
  <2> HIDE DEF e
  <2>3. SubSeq(p, 1, e) = SubSeq(path, 1, e) /\ Len(SubSeq(p, 1, e)) = e
    <3>1. \A n \in 1 .. N - 1 : p[n] = path[n]
      BY <1>1 DEF Parent, Path
    <3> HIDE DEF p
    <3> QED BY <1>1, <1>2, <2>1, <3>1 DEF Path
  <2>4. e <= Len(path)
    BY <1>1, <2>1
  <2>5. 1 \in Starts(p)
    BY DEF Starts
  <2> QED BY <2>2, <2>3, <2>4, <2>5 DEF Matches
<1> QED BY <1>2, <1>3, <1>4

\* The strict search never passes by the controller of a single output.
THEOREM ParentsFound == Spec => ParentIsNotMissed
<1>1. NamesInv /\ [Next]_vars =>
        [step = "controller" /\ search = "strict" /\ cntlr' = cntlr + 1 /\ SingleOutput(DevicePath)
           => ~(machine.handles[cntlr].plain /\ machine.handles[cntlr].path = Parent(DevicePath))]_vars
  <2> SUFFICES ASSUME NamesInv, Next, step = "controller", search = "strict", cntlr' = cntlr + 1,
                      SingleOutput(DevicePath), machine.handles[cntlr].plain,
                      machine.handles[cntlr].path = Parent(DevicePath)
               PROVE  FALSE
    OBVIOUS
  <2>1. cntlr \in Nat /\ dev \in Device /\ DevicePath # NoPath /\ machine \in Machines
    BY MachineType DEF NamesInv, TypeOK, SearchIsOn, Searching
  <2>2. SkipHandle
    BY <2>1 DEF Next, LocatePC, LocateMac, BeginDevice, WeirdDevice, FindController, EndHandles, SkipDriver,
       NameStrictly, ShameDriver, NameFunkily, EndDrivers, TryFunkily, StoreName, FreeHandles, ServiceFails
  <2>3. DevicePath \in Path
    BY <2>1, MachineType DEF DevicePath, Device
  <2>4. IsController(cntlr)
    BY <2>3, ParentIsController DEF IsController
  <2> QED BY <2>2, <2>4 DEF SkipHandle
<1> QED BY <1>1, NamesAreInvariant, PTL DEF Spec, ParentIsNotMissed
=============================================================================
