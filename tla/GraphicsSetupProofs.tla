------------------------ MODULE GraphicsSetupProofs ------------------------
(* The set-up of the graphics devices, for any number of them, any modes   *)
(* and any keys typed: what it sets was offered, and what it tells the     *)
(* kernel is complete and true.                                            *)
EXTENDS GraphicsSetup, SequenceTheorems, TLAPS

Typed == [code : KeyCodes, at : Steps \cup Callers]

-----------------------------------------------------------------------------
(* Types.                                                                  *)

LEMMA InitTypes == Init => TypeOK /\ WayIsKnown
<1> SUFFICES ASSUME Init PROVE TypeOK /\ WayIsKnown
  OBVIOUS
<1> USE GraphicsAssumption DEF Init
<1>1. current \in [Device -> Nat] /\ pool \subseteq Pools
  BY DEF Pools
<1>2. typed \in Seq(Typed)
  BY DEF Typed
<1>3. gpuArray \in [Device -> Entry]
  BY DEF Entry, Unset
<1>4. step \in Steps /\ option \in 0 .. Single /\ dev \in Device /\ mode \in Nat
  BY DEF Steps, Menus, Single, Device
<1>5. /\ key \in Key /\ timeout \in 0 .. TimeoutSeconds /\ setOs \in 0 .. 1
      /\ typedCount \in 0 .. MaxTyped /\ frameBuffers \in 0 .. NumHandles
  BY DEF Key
<1>6. WayIsKnown
  BY DEF WayIsKnown, Single
<1> QED BY <1>1, <1>2, <1>3, <1>4, <1>5, <1>6 DEF TypeOK, Typed

\* A menu is answered by one of its digits.
LEMMA OfferedRange ==
  ASSUME TypeOK, Offered
  PROVE  /\ key \in Nat
         /\ step = "menu" => key \in 0 .. 3
         /\ step = "device" => key \in Device
         /\ step = "modes" => key \in 0 .. MaxMode[dev] - 1
<1>1. key \in Int
  BY GraphicsAssumption DEF TypeOK, Key, NoKey
<1>2. MaxMode[dev] \in Nat
  BY GraphicsAssumption DEF TypeOK
<1> QED BY <1>1, <1>2, GraphicsAssumption DEF Offered, Limit, Device

\* The modes picked without asking are the device's.
LEMMA AutomaticRange ==
  ASSUME TypeOK, NEW m \in AutomaticModes
  PROVE  m \in 0 .. MaxMode[dev] - 1
<1>1. MaxMode[dev] \in Nat \ {0} /\ Mode1024[dev] \subseteq 0 .. MaxMode[dev] - 1
  BY GraphicsAssumption DEF TypeOK
<1> QED BY <1>1 DEF AutomaticModes

LEMMA KeyRead ==
  ASSUME TypeOK, typed # <<>>
  PROVE  /\ Head(typed) \in Typed /\ Tail(typed) \in Seq(Typed)
         /\ Head(typed) = typed[1] /\ Len(typed) \in Nat /\ Len(typed) > 0
         /\ Len(Tail(typed)) = Len(typed) - 1
         /\ \A n \in 1 .. Len(Tail(typed)) : Tail(typed)[n] = typed[n + 1]
<1>1. typed \in Seq(Typed)
  BY DEF TypeOK, Typed
<1> QED BY <1>1, HeadTailProperties, LenProperties

LEMMA StepTypes ==
  ASSUME TypeOK, WayIsKnown, [Next]_vars
  PROVE  TypeOK' /\ WayIsKnown'
<1> USE GraphicsAssumption
    DEF TypeOK, WayIsKnown, userVars, menuVars, graphicsVars, Menus, Steps
<1>1. CASE ReadKey
  <2>1. key' \in Key /\ typed' \in Seq(Typed)
    BY <1>1, KeyRead DEF ReadKey, Typed, Key
  <2> QED BY <1>1, <2>1 DEF ReadKey, Typed
<1>2. CASE SecondPasses
  BY <1>2 DEF SecondPasses
<1>3. CASE ChooseOption
  BY <1>3, OfferedRange DEF ChooseOption, Single
<1>4. CASE DefaultOption
  BY <1>4 DEF DefaultOption
<1>5. CASE ResetInput
  BY <1>5 DEF ResetInput, Key
<1>6. CASE Setup
  <2>1. GpuArrayPool \in Pools
    BY DEF Pools
  <2> QED BY <1>6, <2>1 DEF Setup, FrameBufferCount, Device
<1>7. CASE ChooseDevice
  BY <1>7, OfferedRange DEF ChooseDevice, Key
<1>8. CASE OpenMenu
  BY <1>8 DEF OpenMenu
<1>9. CASE OpenAutomatic
  <2>1. mode' \in Nat
    BY <1>9, AutomaticRange DEF OpenAutomatic
  <2> QED BY <1>9, <2>1 DEF OpenAutomatic
<1>10. CASE ChooseMode
  BY <1>10, OfferedRange DEF ChooseMode, Key
<1>11. CASE DefaultMode
  BY <1>11 DEF DefaultMode, Key
<1>12. CASE SetMode
  BY <1>12 DEF SetMode
<1>13. CASE Store
  <2>1. dev' \in Device
    BY <1>13 DEF Store, IsLast, Device
  <2>2. Index \in Device
    BY DEF Index, Device
  <2>3. gpuArray' \in [Device -> Entry]
    BY <1>13, <2>2 DEF Store, Entry
  <2>4. pool' \subseteq Pools
    BY <1>13, <2>2 DEF Store, Pools, Infos
  <2> QED BY <1>13, <2>1, <2>3, <2>4 DEF Store
<1>14. CASE CleanUp
  BY <1>14 DEF CleanUp
<1>15. CASE Failure
  BY <1>15 DEF Failure, ReadKeyFails, CleanUpFails, ServiceFails, FrameBufferCount
<1>16. CASE User
  <2>1. PICK k \in KeyCodes : Types(k)
    BY <1>16 DEF User
  <2>2. typed' \in Seq(Typed)
    BY <2>1, AppendProperties DEF Types, Typed
  <2>3. typedCount' \in 0 .. MaxTyped
    BY <2>1 DEF Types
  <2> QED BY <2>1, <2>2, <2>3 DEF Types, Typed
<1>17. CASE UNCHANGED vars
  BY <1>17 DEF vars
<1> QED BY <1>1, <1>2, <1>3, <1>4, <1>5, <1>6, <1>7, <1>8, <1>9, <1>10, <1>11, <1>12,
           <1>13, <1>14, <1>15, <1>16, <1>17 DEF Next, Loader, TimeIsUp

-----------------------------------------------------------------------------
(* The array of framebuffers.                                              *)

\* The pools of one kind are not those of another.
LEMMA PoolsDiffer ==
  /\ \A d, i : NameOf(d) # InfoOf(i)
  /\ \A i : InfoOf(i) \notin Names \cup Buffers
  /\ GpuArrayPool \notin Names \cup Buffers
<1>1. \A d, i : NameOf(d)[1] = "name" /\ InfoOf(i)[1] = "info"
  BY DEF NameOf, InfoOf
<1>2. GpuArrayPool[1] = "GPUArray"
  BY DEF GpuArrayPool
<1>3. \A b \in Buffers : b[1] \in {"NameBuffer", "GraphicsHandles"}
  BY DEF Buffers
<1> QED BY <1>1, <1>2, <1>3 DEF Names

LEMMA InitArray == Init => SetupInv
<1> SUFFICES ASSUME Init PROVE SetupInv
  OBVIOUS
<1>1. TypeOK /\ WayIsKnown
  BY InitTypes
<1>2. \A i \in Device : ~Written(i)
  BY DEF Init, Written, Unset
<1>3. step \in {"menu", "setup"}
  BY DEF Init
<1>4. PoolIsKnown
  BY <1>2, <1>3 DEF Init, PoolIsKnown, Kept, BeforeArray
<1> QED BY <1>1, <1>2, <1>3, <1>4
        DEF SetupInv, ModeIsOffered, FilledInOrder, CountIsSet, EntriesAreReal,
            Written, Configuring, BeforeArray

\* Steps that touch neither the array nor the devices leave it as it was.
LEMMA ArrayKept ==
  ASSUME UNCHANGED gpuArray
  PROVE  \A i \in Device : Written(i)' <=> Written(i)
BY DEF Written

LEMMA StepMode ==
  ASSUME TypeOK, ModeIsOffered, [Next]_vars
  PROVE  ModeIsOffered'
<1> USE DEF ModeIsOffered, userVars, menuVars, graphicsVars
<1>1. CASE OpenAutomatic
  BY <1>1, AutomaticRange DEF OpenAutomatic
<1>2. CASE ChooseMode
  BY <1>2, OfferedRange DEF ChooseMode
<1>3. CASE DefaultMode
  <2>1. MaxMode[dev] \in Nat \ {0}
    BY GraphicsAssumption DEF TypeOK
  <2> QED BY <1>3, <2>1 DEF DefaultMode
<1>4. CASE ReadKey \/ SecondPasses \/ ChooseOption \/ DefaultOption \/ ResetInput \/ Setup
             \/ ChooseDevice \/ OpenMenu \/ SetMode \/ Store \/ CleanUp
  BY <1>4 DEF Menus, ReadKey, SecondPasses, ChooseOption, DefaultOption, ResetInput, Setup,
           ChooseDevice, OpenMenu, SetMode, Store, CleanUp
<1>5. CASE Failure
  BY <1>5 DEF Failure, ReadKeyFails, CleanUpFails, ServiceFails
<1>6. CASE User
  BY <1>6 DEF User, Types
<1>7. CASE UNCHANGED vars
  BY <1>7 DEF vars
<1> QED BY <1>1, <1>2, <1>3, <1>4, <1>5, <1>6, <1>7 DEF Next, Loader, TimeIsUp

LEMMA StepFilled ==
  ASSUME SetupInv, [Next]_vars
  PROVE  FilledInOrder' /\ CountIsSet'
<1> TypeOK /\ WayIsKnown /\ FilledInOrder /\ CountIsSet
  BY DEF SetupInv
<1> USE DEF userVars, menuVars, graphicsVars, BeforeArray, Configuring, ForOne, FrameBufferCount, Menus
<1>1. CASE ReadKey
  BY <1>1 DEF ReadKey, FilledInOrder, CountIsSet, Written
<1>2. CASE SecondPasses
  BY <1>2 DEF SecondPasses, FilledInOrder, CountIsSet, Written
<1>3. CASE ChooseOption \/ DefaultOption \/ ResetInput
  BY <1>3 DEF ChooseOption, DefaultOption, ResetInput, FilledInOrder, CountIsSet, Written
<1>4. CASE Setup
  BY <1>4, GraphicsAssumption DEF Setup, FilledInOrder, CountIsSet, Written, Device
<1>5. CASE ChooseDevice
  BY <1>5 DEF ChooseDevice, FilledInOrder, CountIsSet, Written, WayIsKnown
<1>6. CASE OpenMenu \/ OpenAutomatic \/ ChooseMode \/ DefaultMode \/ SetMode
  BY <1>6 DEF OpenMenu, OpenAutomatic, ChooseMode, DefaultMode, SetMode, FilledInOrder,
           CountIsSet, Written
<1>7. CASE Store
  <2>1. Index \in Device /\ dev \in Device /\ NoGpu \notin Device
    BY GraphicsAssumption DEF TypeOK, Index, Device, NoGpu
  <2>2. \A i \in Device : Written(i)' <=> Written(i) \/ i = Index
    BY <1>7, <2>1 DEF Store, Written, TypeOK
  <2>3. CountIsSet'
    BY <1>7 DEF Store, CountIsSet
  <2>4. CASE ForOne
    <3>1. frameBuffers' = 1 /\ step' = "cleanup" /\ Index = 0 /\ option' = option
      BY <1>7, <2>4 DEF Store, CountIsSet, Index, IsLast
    <3>2. \A i \in Device : Written(i)' <=> i = 0
      BY <1>7, <2>2, <2>4, <3>1 DEF Store, FilledInOrder
    <3> QED BY <2>3, <2>4, <3>1, <3>2, GraphicsAssumption DEF FilledInOrder, Device
  <2>5. CASE ~ForOne
    <3>1. Index = dev /\ option' = option /\ frameBuffers' = NumHandles
      BY <1>7, <2>5 DEF Store, Index, CountIsSet
    <3>2. \A i \in Device : Written(i)' <=> i < dev + 1
      BY <1>7, <2>1, <2>2, <2>5, <3>1 DEF Store, FilledInOrder, Device
    <3>3. \A i \in Device : Written(i)' => gpuArray'[i].gpu = i
      BY <1>7, <2>1, <2>2, <2>5, <3>1 DEF Store, FilledInOrder, TypeOK
    <3>4. CASE dev + 1 = NumHandles
      <4>1. step' = "cleanup"
        BY <1>7, <3>4 DEF Store, IsLast
      <4> QED BY <2>3, <2>5, <3>1, <3>2, <3>3, <3>4, <4>1, GraphicsAssumption DEF FilledInOrder, Device
    <3>5. CASE dev + 1 # NumHandles
      <4>1. step' = "open" /\ dev' = dev + 1
        BY <1>7, <2>5, <3>5 DEF Store, IsLast
      <4> QED BY <2>3, <2>5, <3>1, <3>2, <3>3, <4>1 DEF FilledInOrder
    <3> QED BY <3>4, <3>5
  <2> QED BY <2>3, <2>4, <2>5
<1>8. CASE CleanUp
  BY <1>8 DEF CleanUp, FilledInOrder, CountIsSet, Written
<1>9. CASE Failure
  BY <1>9 DEF Failure, ReadKeyFails, CleanUpFails, ServiceFails, FilledInOrder, CountIsSet, Written
<1>10. CASE User
  BY <1>10 DEF User, Types, FilledInOrder, CountIsSet, Written
<1>11. CASE UNCHANGED vars
  BY <1>11 DEF vars, FilledInOrder, CountIsSet, Written
<1> QED BY <1>1, <1>2, <1>3, <1>4, <1>5, <1>6, <1>7, <1>8, <1>9, <1>10, <1>11 DEF Next, Loader, TimeIsUp

LEMMA StepEntries ==
  ASSUME SetupInv, [Next]_vars
  PROVE  EntriesAreReal'
<1> TypeOK /\ FilledInOrder /\ CountIsSet /\ EntriesAreReal
  BY DEF SetupInv
<1> USE DEF userVars, menuVars, graphicsVars
<1>1. CASE ReadKey \/ SecondPasses \/ ChooseOption \/ DefaultOption \/ ResetInput
             \/ ChooseDevice \/ OpenMenu \/ OpenAutomatic \/ ChooseMode \/ DefaultMode
  BY <1>1 DEF EntriesAreReal, ReadKey, SecondPasses, ChooseOption, DefaultOption, ResetInput,
           ChooseDevice, OpenMenu, OpenAutomatic, ChooseMode, DefaultMode
<1>2. CASE Setup
  BY <1>2 DEF Setup, EntriesAreReal, FilledInOrder, BeforeArray, Written
<1>3. CASE SetMode
  <2>1. \A i \in Device : Written(i) => gpuArray[i].gpu \in Device /\ gpuArray[i].gpu # dev
    BY <1>3 DEF SetMode, FilledInOrder, Configuring, TypeOK, Written, Device
  <2> QED BY <1>3, <2>1 DEF SetMode, EntriesAreReal, TypeOK, Written
<1>4. CASE Store
  <2>1. Index \in Device /\ dev \in Device /\ Index < frameBuffers
    BY <1>4, GraphicsAssumption
       DEF Store, TypeOK, Index, Device, CountIsSet, FrameBufferCount, Configuring
  <2>2. gpuArray'[Index] = [gpu |-> dev, mode |-> current[dev]]
    BY <1>4, <2>1 DEF Store, TypeOK
  <2>3. \A i \in Device : i # Index => gpuArray'[i] = gpuArray[i]
    BY <1>4 DEF Store, TypeOK
  <2>4. frameBuffers' = frameBuffers /\ current' = current /\ pool' = pool \cup {InfoOf(Index)}
    BY <1>4 DEF Store
  <2> QED BY <2>1, <2>2, <2>3, <2>4 DEF EntriesAreReal
<1>5. CASE CleanUp
  BY <1>5, PoolsDiffer DEF CleanUp, EntriesAreReal
<1>6. CASE CleanUpFails
  <2>1. \A i : InfoOf(i) \in pool => InfoOf(i) \in pool'
    <3>1. PICK n \in 0 .. NumHandles + 1 :
            pool' = pool \ ({NameOf(d) : d \in {e \in Device : e < n}}
                              \cup IF n > NumHandles THEN {<<"NameBuffer", 0>>} ELSE {})
      BY <1>6 DEF CleanUpFails
    <3> QED BY <3>1, PoolsDiffer DEF Buffers
  <2> QED BY <1>6, <2>1 DEF CleanUpFails, EntriesAreReal
<1>7. CASE ReadKeyFails
  BY <1>7 DEF ReadKeyFails, EntriesAreReal
<1>8. CASE ServiceFails
  <2>1. CASE step = "setup"
    BY <1>8, <2>1 DEF ServiceFails, EntriesAreReal, FilledInOrder, BeforeArray, Written
  <2>2. CASE step # "setup"
    BY <1>8, <2>2 DEF ServiceFails, EntriesAreReal
  <2> QED BY <2>1, <2>2
<1>9. CASE User
  BY <1>9 DEF User, Types, EntriesAreReal
<1>10. CASE UNCHANGED vars
  BY <1>10 DEF vars, EntriesAreReal
<1> QED BY <1>1, <1>2, <1>3, <1>4, <1>5, <1>6, <1>7, <1>8, <1>9, <1>10 DEF Next, Loader, TimeIsUp, Failure

LEMMA StepPool ==
  ASSUME SetupInv, [Next]_vars
  PROVE  PoolIsKnown'
<1> TypeOK /\ PoolIsKnown /\ FilledInOrder
  BY DEF SetupInv
<1> USE DEF userVars, menuVars, graphicsVars
<1>1. CASE ReadKey \/ SecondPasses \/ ChooseOption \/ DefaultOption \/ ResetInput
             \/ ChooseDevice \/ OpenMenu \/ OpenAutomatic \/ ChooseMode \/ DefaultMode
             \/ SetMode \/ User
  <2>1. UNCHANGED <<gpuArray, pool>>
    BY <1>1 DEF ReadKey, SecondPasses, ChooseOption, DefaultOption, ResetInput, ChooseDevice,
             OpenMenu, OpenAutomatic, ChooseMode, DefaultMode, SetMode, User, Types
  <2>2. /\ step \notin {"done", "returned"} /\ step' \notin {"done", "returned"}
        /\ step \in BeforeArray <=> step' \in BeforeArray
    <3> USE DEF BeforeArray, Menus, HasTimer
    <3>1. CASE ReadKey \/ SecondPasses \/ User
      BY <3>1 DEF ReadKey, SecondPasses, User, Types
    <3>2. CASE ~(ReadKey \/ SecondPasses \/ User)
      BY <1>1, <3>2 DEF ChooseOption, DefaultOption, ResetInput, ChooseDevice, OpenMenu,
               OpenAutomatic, ChooseMode, DefaultMode, SetMode
    <3> QED BY <3>1, <3>2
  <2> QED BY <2>1, <2>2, ArrayKept DEF PoolIsKnown, Kept
<1>2. CASE Setup
  <2>1. step = "setup" /\ step' \in {"device", "open"} /\ pool' = pool \cup {GpuArrayPool}
    BY <1>2 DEF Setup
  <2>2. Kept = {} /\ Kept' = {GpuArrayPool}
    BY <1>2, <2>1, ArrayKept DEF Setup, Kept, FilledInOrder, BeforeArray
  <2> QED BY <2>1, <2>2 DEF PoolIsKnown
<1>3. CASE Store
  <2>1. step = "store" /\ step' \in {"open", "cleanup"} /\ pool' = pool \cup {InfoOf(Index)}
    BY <1>3 DEF Store
  <2>2. Index \in Device /\ NoGpu \notin Device /\ dev \in Device
    BY GraphicsAssumption DEF TypeOK, Index, Device, NoGpu
  <2>3. \A i \in Device : Written(i)' <=> Written(i) \/ i = Index
    BY <1>3, <2>2 DEF Store, Written, TypeOK
  <2>4. Kept' = Kept \cup {InfoOf(Index)}
    BY <2>1, <2>2, <2>3 DEF Kept, BeforeArray
  <2> QED BY <2>1, <2>4 DEF PoolIsKnown
<1>4. CASE CleanUp
  <2>1. step = "cleanup" /\ step' = "done" /\ pool' = pool \ (Names \cup Buffers)
    BY <1>4 DEF CleanUp
  <2>2. Kept' = Kept /\ Kept \cap (Names \cup Buffers) = {}
    BY <1>4, <2>1, ArrayKept, PoolsDiffer DEF CleanUp, Kept, BeforeArray
  <2> QED BY <2>1, <2>2 DEF PoolIsKnown
<1>5. CASE Failure
  BY <1>5 DEF Failure, ReadKeyFails, CleanUpFails, ServiceFails, PoolIsKnown
<1>6. CASE UNCHANGED vars
  <2>1. Kept' = Kept
    BY <1>6, ArrayKept DEF vars, Kept
  <2> QED BY <1>6, <2>1 DEF vars, PoolIsKnown
<1> QED BY <1>1, <1>2, <1>3, <1>4, <1>5, <1>6 DEF Next, Loader, TimeIsUp

LEMMA InvGivesProperties ==
  ASSUME SetupInv
  PROVE  ArrayIsComplete /\ PoolIsReturned
<1> TypeOK /\ WayIsKnown /\ FilledInOrder /\ CountIsSet /\ PoolIsKnown
  BY DEF SetupInv
<1> SUFFICES ASSUME step = "done" PROVE ArrayIsComplete /\ PoolIsReturned
  BY DEF ArrayIsComplete, PoolIsReturned
<1>1. frameBuffers = (IF ForOne THEN 1 ELSE NumHandles) /\ frameBuffers \in 0 .. NumHandles
  BY DEF CountIsSet, FrameBufferCount, TypeOK
<1>2. \A i \in Device : Written(i) <=> i < frameBuffers
  BY DEF FilledInOrder
<1>3. 0 .. frameBuffers - 1 = {i \in Device : Written(i)}
  BY <1>1, <1>2, GraphicsAssumption DEF Device
<1>4. ArrayIsComplete
  BY <1>1, <1>3, <1>2, GraphicsAssumption
     DEF ArrayIsComplete, Written, FilledInOrder, ForOne, Single, Device
<1>5. PoolIsReturned
  BY <1>3 DEF PoolIsReturned, PoolIsKnown, Kept, BeforeArray
<1> QED BY <1>4, <1>5

LEMMA StepSetup == ASSUME SetupInv, [Next]_vars PROVE SetupInv'
BY StepTypes, StepMode, StepFilled, StepEntries, StepPool DEF SetupInv

\* What happens to the keys elsewhere does not matter to it.
LEMMA ConsoleStep ==
  ASSUME SetupInv, UNCHANGED <<step, menuVars, graphicsVars>>,
         typed' \in Seq(Typed), typedCount' \in 0 .. MaxTyped
  PROVE  SetupInv'
<1> USE DEF menuVars, graphicsVars, SetupInv
<1>1. TypeOK' /\ WayIsKnown' /\ ModeIsOffered'
  BY DEF TypeOK, Typed, WayIsKnown, ModeIsOffered
<1>2. FilledInOrder' /\ CountIsSet'
  BY DEF FilledInOrder, CountIsSet, Written, ForOne, FrameBufferCount
<1>3. EntriesAreReal' /\ PoolIsKnown'
  BY ArrayKept DEF EntriesAreReal, PoolIsKnown, Kept
<1> QED BY <1>1, <1>2, <1>3

\* The following hold whatever the machine's devices and modes, the keys and the
\* failing calls.
LEMMA SetupIsSafe ==
  Spec => [](TypeOK /\ ModeIsOffered /\ EntriesAreReal /\ ArrayIsComplete /\ PoolIsReturned)
<1>1. SetupInv /\ [Next]_vars => SetupInv'
  BY StepSetup
<1>2. SetupInv => TypeOK /\ ModeIsOffered /\ EntriesAreReal /\ ArrayIsComplete /\ PoolIsReturned
  BY InvGivesProperties DEF SetupInv
<1> QED BY <1>1, <1>2, InitArray, PTL DEF Spec

\* The variables of InitUEFI_GOP keep to their types.
THEOREM SetupTypes == Spec => []TypeOK
BY SetupIsSafe, PTL

\* SetMode is only called with a mode the device has.
THEOREM OnlyOfferedModes == Spec => []ModeIsOffered
BY SetupIsSafe, PTL

\* An entry of GPUArray lies in the array and tells the mode its device is in.
THEOREM RealEntries == Spec => []EntriesAreReal
BY SetupIsSafe, PTL

\* Every framebuffer counted has its entry when the set-up succeeds.
THEOREM CompleteArray == Spec => []ArrayIsComplete
BY SetupIsSafe, PTL

\* A set-up that succeeds frees every pool that is not the kernel's.
THEOREM PoolsReturned == Spec => []PoolIsReturned
BY SetupIsSafe, PTL

-----------------------------------------------------------------------------
(* The keys.                                                               *)

LEMMA StepKeys ==
  ASSUME TypeOK, KeysAreSpent, [Next]_vars
  PROVE  KeysAreSpent'
<1> USE DEF userVars, menuVars, graphicsVars, Configuring, Menus
<1>1. CASE ReadKey
  <2>1. typed # <<>> /\ typed' = Tail(typed) /\ step' = step /\ step \in Menus
    BY <1>1 DEF ReadKey
  <2>2. \A n \in 1 .. Len(typed') : n + 1 \in 1 .. Len(typed) /\ typed'[n] = typed[n + 1]
    BY <2>1, KeyRead
  <2> QED BY <2>1, <2>2 DEF KeysAreSpent
<1>2. CASE ResetInput
  BY <1>2 DEF ResetInput, KeysAreSpent
<1>3. CASE ChooseOption \/ DefaultOption \/ SecondPasses \/ ChooseDevice \/ OpenMenu
             \/ OpenAutomatic \/ ChooseMode \/ DefaultMode
  BY <1>3 DEF ChooseOption, DefaultOption, SecondPasses, ChooseDevice, OpenMenu, OpenAutomatic,
           ChooseMode, DefaultMode, KeysAreSpent
<1>4. CASE Setup \/ SetMode \/ Store \/ CleanUp
  BY <1>4 DEF Setup, SetMode, Store, CleanUp, KeysAreSpent
<1>5. CASE Failure
  BY <1>5 DEF Failure, ReadKeyFails, CleanUpFails, ServiceFails, KeysAreSpent
<1>6. CASE User
  <2>1. PICK k \in KeyCodes : Types(k)
    BY <1>6 DEF User
  <2>2. typed \in Seq(Typed) /\ step \in Steps
    BY DEF TypeOK, Typed
  <2> DEFINE new == [code |-> k, at |-> step]
  <2>3. /\ Len(typed') = Len(typed) + 1 /\ Len(typed) \in Nat
        /\ \A n \in 1 .. Len(typed) : typed'[n] = typed[n]
        /\ typed'[Len(typed) + 1] = new
    BY <2>1, <2>2, AppendProperties, LenProperties DEF Types, Typed
  <2>4. step' = step /\ key' = key
    BY <2>1 DEF Types
  <2> QED BY <2>3, <2>4 DEF KeysAreSpent
<1>7. CASE UNCHANGED vars
  BY <1>7 DEF vars, KeysAreSpent
<1> QED BY <1>1, <1>2, <1>3, <1>4, <1>5, <1>6, <1>7 DEF Next, Loader, TimeIsUp

LEMMA KeysSpent == Spec => [](TypeOK /\ WayIsKnown /\ KeysAreSpent)
<1>1. Init => KeysAreSpent
  BY DEF Init, KeysAreSpent, Configuring
<1>2. TypeOK /\ WayIsKnown /\ KeysAreSpent /\ [Next]_vars => (TypeOK /\ WayIsKnown /\ KeysAreSpent)'
  BY StepTypes, StepKeys
<1> QED BY <1>1, <1>2, InitTypes, PTL DEF Spec

\* No menu opens with the answer to an earlier one in Key.
LEMMA MenusUnanswered == Spec => MenuOpensUnanswered
<1>1. TypeOK /\ WayIsKnown /\ KeysAreSpent /\ [Next]_vars
        => [step' \in Menus /\ step' # step => ~Offered']_vars
  <2> SUFFICES ASSUME KeysAreSpent, Next, step' \in Menus, step' # step
               PROVE  ~Offered'
    OBVIOUS
  <2>1. Setup \/ OpenMenu
    BY DEF Next, Loader, TimeIsUp, Failure, User, Menus, userVars, menuVars, graphicsVars,
           ReadKey, SecondPasses, ChooseOption, DefaultOption, ResetInput, ChooseDevice,
           OpenAutomatic, ChooseMode, DefaultMode, SetMode, Store, CleanUp, ReadKeyFails,
           CleanUpFails, ServiceFails, Types
  <2>2. key' = NoKey
    BY <2>1 DEF Setup, OpenMenu, KeysAreSpent
  <2> QED BY <2>2 DEF Offered, NoKey
<1> QED BY <1>1, KeysSpent, PTL DEF Spec, MenuOpensUnanswered

\* No key typed at the first menu picks a device or a mode.
LEMMA FirstMenuKeys == Spec => NoKeyFromFirstMenu
<1>1. TypeOK /\ WayIsKnown /\ KeysAreSpent /\ [Next]_vars
        => [Len(typed') < Len(typed) /\ step \in {"device", "modes"} => Head(typed).at # "menu"]_vars
  <2> SUFFICES ASSUME TypeOK, WayIsKnown, KeysAreSpent, Next, step \in {"device", "modes"},
                      Len(typed') < Len(typed)
               PROVE  Head(typed).at # "menu"
    OBVIOUS
  <2>1. typed # <<>>
    <3> SUFFICES ASSUME typed = <<>> PROVE FALSE
      OBVIOUS
    <3>1. typed \in Seq(Typed) /\ typed' \in Seq(Typed)
      BY StepTypes DEF TypeOK, Typed
    <3> QED BY <3>1, LenProperties
  <2>2. Head(typed) = typed[1] /\ 1 \in 1 .. Len(typed)
    BY <2>1, KeyRead
  <2> QED BY <2>2 DEF KeysAreSpent, Configuring
<1> QED BY <1>1, KeysSpent, PTL DEF Spec, NoKeyFromFirstMenu

\* Each menu is answered by keys of its own: not by what Key still holds, nor by
\* what the first menu left in the console's buffer.
THEOREM MenusAnswered == Spec => MenusAskAnew
BY MenusUnanswered, FirstMenuKeys, PTL DEF MenusAskAnew

-----------------------------------------------------------------------------
(* Nobody at the keyboard.                                                 *)

\* No menu is answered without a key.
LEMMA NotOffered == key = NoKey => ~Offered
BY DEF Offered, NoKey

LEMMA StepDefaults ==
  ASSUME SetupInv, DefaultsAreTaken, [Next]_vars
  PROVE  DefaultsAreTaken'
<1> USE DEF DefaultsAreTaken, userVars, menuVars, graphicsVars
<1> TypeOK /\ WayIsKnown /\ FilledInOrder
  BY DEF SetupInv
<1>1. CASE User
  <2>1. typedCount \in Nat /\ typedCount' = typedCount + 1
    BY <1>1, GraphicsAssumption DEF User, Types, TypeOK
  <2> QED BY <2>1
<1>2. CASE ReadKey
  BY <1>2 DEF ReadKey
<1>3. CASE ChooseOption \/ ChooseDevice \/ ChooseMode
  BY <1>3, NotOffered DEF ChooseOption, ChooseDevice, ChooseMode
<1>4. CASE SecondPasses \/ DefaultOption \/ OpenMenu
  BY <1>4 DEF SecondPasses, DefaultOption, OpenMenu, Written, Menus, HasTimer
<1>5. CASE ResetInput
  BY <1>5 DEF ResetInput, Written
<1>6. CASE Setup
  BY <1>6 DEF Setup, Written
<1>7. CASE OpenAutomatic
  <2>1. mode' \in AutomaticModes /\ step' = "set"
    BY <1>7 DEF OpenAutomatic
  <2>2. option # 3 => mode' = 0
    BY <2>1 DEF AutomaticModes
  <2> QED BY <1>7, <2>1, <2>2 DEF OpenAutomatic, Written, Single
<1>8. CASE DefaultMode
  BY <1>8 DEF DefaultMode, Written
<1>9. CASE SetMode
  BY <1>9 DEF SetMode, Written, TypeOK
<1>10. CASE Store
  <2>1. Index \in Device
    BY GraphicsAssumption DEF TypeOK, Index, Device
  <2>2. gpuArray' = [gpuArray EXCEPT ![Index] = [gpu |-> dev, mode |-> current[dev]]]
    BY <1>10 DEF Store
  <2>3. /\ \A i \in Device : i # Index => gpuArray'[i] = gpuArray[i]
        /\ gpuArray'[Index].mode = current[dev]
    BY <2>1, <2>2 DEF TypeOK
  <2>4. step = "store" /\ step' \in {"open", "cleanup"}
        /\ UNCHANGED <<option, key, typed, typedCount>>
    BY <1>10 DEF Store
  <2> QED BY <2>3, <2>4 DEF Written
<1>11. CASE CleanUp
  BY <1>11 DEF CleanUp, Written
<1>12. CASE Failure
  BY <1>12 DEF Failure, ReadKeyFails, CleanUpFails, ServiceFails, Written
<1>13. CASE UNCHANGED vars
  BY <1>13 DEF vars, Written
<1> QED BY <1>1, <1>2, <1>3, <1>4, <1>5, <1>6, <1>7, <1>8, <1>9, <1>10, <1>11, <1>12, <1>13
        DEF Next, Loader, TimeIsUp

\* Nor do steps elsewhere matter, as long as there too no key comes from nowhere.
LEMMA ConsoleDefaults ==
  ASSUME DefaultsAreTaken, UNCHANGED <<step, menuVars, graphicsVars>>,
         typedCount' = 0 => typedCount = 0 /\ typed' = typed
  PROVE  DefaultsAreTaken'
BY DEF DefaultsAreTaken, Written, menuVars, graphicsVars

LEMMA InitDefaults == Init => DefaultsAreTaken
BY DEF Init, DefaultsAreTaken, Written, Unset

\* Every device has an entry, and it is true.
LEMMA DefaultsReached ==
  ASSUME SetupInv, DefaultsAreTaken
  PROVE  UntouchedIsDefault
<1> SUFFICES ASSUME typedCount = 0, step = "done", NEW d \in Device PROVE current[d] = 0
  BY DEF UntouchedIsDefault
<1> TypeOK /\ WayIsKnown /\ FilledInOrder /\ CountIsSet /\ EntriesAreReal
  BY DEF SetupInv
<1>1. frameBuffers = NumHandles
  BY DEF CountIsSet, FrameBufferCount, ForOne, WayIsKnown, DefaultsAreTaken, Single
<1>2. \A i \in Device : Written(i)
  BY <1>1, GraphicsAssumption DEF FilledInOrder, Device
<1>3. gpuArray[d].gpu = d
  <2>1. CASE option = 2
    BY <2>1, <1>2 DEF FilledInOrder, ForOne, Single
  <2>2. CASE option = Single
    <3>1. Device = {0}
      BY <2>2, GraphicsAssumption DEF WayIsKnown, Device
    <3>2. gpuArray[d] \in Entry
      BY DEF TypeOK
    <3> QED BY <3>1, <3>2, <1>2 DEF Entry, Written
  <2> QED BY <2>1, <2>2 DEF DefaultsAreTaken
<1> QED BY <1>2, <1>3 DEF EntriesAreReal, DefaultsAreTaken, Written

\* Without a key no timer, default or skipped menu leads to another mode than
\* the default one.
THEOREM UntouchedDefaults == Spec => []UntouchedIsDefault
<1>1. SetupInv /\ DefaultsAreTaken /\ [Next]_vars => (SetupInv /\ DefaultsAreTaken)'
  BY StepSetup, StepDefaults
<1>2. SetupInv /\ DefaultsAreTaken => UntouchedIsDefault
  BY DefaultsReached
<1> QED BY <1>1, <1>2, InitArray, InitDefaults, PTL DEF Spec
=============================================================================
