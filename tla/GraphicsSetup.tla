--------------------------- MODULE GraphicsSetup ---------------------------
(***************************************************************************)
(* Graphics.c: InitUEFI_GOP, from the naming of the devices on: let the    *)
(* user pick devices and modes, set the modes, and describe the resulting  *)
(* framebuffers for the kernel in Graphics->GPUArray.                      *)
(*                                                                         *)
(* With several devices a timed menu asks how to configure them: each      *)
(* (option 0), one (1), all to mode 0 (2, the default), or all to 1024x768 *)
(* (3).  Options 0 and 1 then ask for modes in menus without a timer; a    *)
(* single device has a timed menu of modes.                                *)
(*                                                                         *)
(* Keys arrive in the console's own buffer at any moment, and are read     *)
(* from it later.  A key is its distance from '0'.                         *)
(***************************************************************************)
EXTENDS Integers, Sequences

CONSTANTS
  NumHandles,       \* NumHandlesInHandleBuffer
  MaxMode,          \* GOPTable->Mode->MaxMode of each device
  Mode1024,         \* the modes of each device that are 1024x768
  InitialModes,     \* the modes the firmware may have set before
  IsApple,          \* is this a Mac?
  TimeoutSeconds,   \* GPU_MENU_TIMEOUT_SECONDS
  KeyCodes,         \* the keys users press
  Callers,          \* steps of the caller, whose keys may be in the buffer, too
  MaxTyped,         \* bound on the keys they press
  SpuriousWakeups,  \* may WaitForKey be signalled for a key that cannot be read?
  ServicesMayFail   \* may a firmware call fail?

Menus == {"menu", "device", "modes"}
Steps == Menus \cup {"reset", "setup", "open", "set", "store", "cleanup", "done", "returned"}
Device == 0 .. NumHandles - 1
NoKey == -48              \* Key.UnicodeChar = 0; arrows and the like read so too
Dot == -2                 \* the . key
Single == 4               \* not an option of the menu: there is one device

ASSUME GraphicsAssumption ==
  /\ NumHandles \in Nat \ {0}
  /\ MaxMode \in [Device -> Nat \ {0}]
  /\ Mode1024 \in [Device -> SUBSET Nat]
  /\ \A d \in Device : Mode1024[d] \subseteq 0 .. MaxMode[d] - 1
  /\ InitialModes \subseteq [Device -> Nat]
  /\ IsApple \in BOOLEAN
  /\ TimeoutSeconds \in Nat \ {0}
  /\ KeyCodes \subseteq Int
  /\ MaxTyped \in Nat
  /\ SpuriousWakeups \in BOOLEAN
  /\ ServicesMayFail \in BOOLEAN

VARIABLES
  step,          \* where InitUEFI_GOP is
  option,        \* DevNum, as the choice of the first menu
  dev,           \* DevNum, as a device
  mode,          \* mode
  key,           \* Key.UnicodeChar - 0x30
  timeout,       \* timeout_seconds
  setOs,         \* already_set_os
  typed,         \* keys typed and not read, each with the step it was typed in
  typedCount,    \* keys typed so far
  current,       \* GOPTable->Mode->Mode of each device
  frameBuffers,  \* Graphics->NumberOfFrameBuffers
  gpuArray,      \* Graphics->GPUArray: which device, in which mode
  pool           \* pools allocated and not freed

vars == <<step, option, dev, mode, key, timeout, setOs, typed, typedCount,
          current, frameBuffers, gpuArray, pool>>
userVars == <<typed, typedCount>>
menuVars == <<option, dev, mode, key, timeout, setOs>>
graphicsVars == <<current, frameBuffers, gpuArray, pool>>

Key == KeyCodes \cup {NoKey}

NameOf(d) == <<"name", d>>
InfoOf(i) == <<"info", i>>
GpuArrayPool == <<"GPUArray", 0>>
Names == {NameOf(d) : d \in Device}
Infos == {InfoOf(i) : i \in Device}
Buffers == {<<"NameBuffer", 0>>, <<"GraphicsHandles", 0>>}
Pools == Names \cup Infos \cup Buffers \cup {GpuArrayPool}

NoGpu == -1
Unset == [gpu |-> NoGpu, mode |-> 0]
Entry == [gpu : Device \cup {NoGpu}, mode : Nat]

TypeOK ==
  /\ step \in Steps
  /\ option \in 0 .. Single
  /\ dev \in Device
  /\ mode \in Nat
  /\ key \in Key
  /\ timeout \in 0 .. TimeoutSeconds
  /\ setOs \in 0 .. 1
  /\ typed \in Seq([code : KeyCodes, at : Steps \cup Callers])
  /\ typedCount \in 0 .. MaxTyped
  /\ current \in [Device -> Nat]
  /\ frameBuffers \in 0 .. NumHandles
  /\ gpuArray \in [Device -> Entry]
  /\ pool \subseteq Pools

Init ==
  /\ step = IF NumHandles > 1 THEN "menu" ELSE "setup"
  /\ option = IF NumHandles > 1 THEN 2 ELSE Single
  /\ dev = 0 /\ mode = 0
  /\ key = NoKey /\ timeout = TimeoutSeconds
  /\ setOs = 0
  /\ typed = <<>> /\ typedCount = 0
  /\ current \in InitialModes
  /\ frameBuffers = 0
  /\ gpuArray = [i \in Device |-> Unset]
  /\ pool = Names \cup Buffers

-----------------------------------------------------------------------------
(* Reading keys.                                                           *)

\* How many digits the menu offers.
Limit ==
  CASE step = "menu" -> 4
    [] step = "device" -> NumHandles
    [] OTHER -> MaxMode[dev]

\* (A name with Bug in it is a mutant of the definition after it: what the
\* code could have done wrong, for the runs to notice.)
OfferedBugOneMore == 0 <= key /\ key <= Limit
Offered == 0 <= key /\ key < Limit

HasTimer == step = "menu" \/ (step = "modes" /\ option = Single)

ReadKey ==
  /\ step \in Menus /\ ~Offered
  /\ HasTimer => timeout > 0
  /\ typed # <<>>
  /\ key' = Head(typed).code
  /\ typed' = Tail(typed)
  /\ setOs' = IF step = "menu" /\ IsApple /\ key' = Dot THEN 1 ELSE setOs
  /\ UNCHANGED <<step, option, dev, mode, timeout, typedCount, graphicsVars>>

\* WaitForSingleEvent comes back for a key but ReadKeyStroke finds none.
ReadKeyFails ==
  /\ HasTimer /\ ~Offered /\ timeout > 0
  /\ SpuriousWakeups
  /\ step' = "returned"
  /\ UNCHANGED <<userVars, menuVars, graphicsVars>>

SecondPassesBugNotCounted ==
  /\ HasTimer /\ ~Offered /\ timeout > 0
  /\ typed = <<>>
  /\ UNCHANGED vars

SecondPasses ==
  /\ HasTimer /\ ~Offered /\ timeout > 0
  /\ typed = <<>>
  /\ timeout' = timeout - 1
  /\ UNCHANGED <<step, option, dev, mode, key, setOs, userVars, graphicsVars>>

-----------------------------------------------------------------------------
(* The three menus.                                                        *)

ChooseOption ==
  /\ step = "menu" /\ Offered
  /\ option' = key
  /\ step' = "reset"
  /\ UNCHANGED <<dev, mode, key, timeout, setOs, userVars, graphicsVars>>

DefaultOption ==
  /\ step = "menu" /\ ~Offered /\ timeout = 0
  /\ step' = "reset"
  /\ UNCHANGED <<userVars, menuVars, graphicsVars>>

ResetInputBugKeysStay ==
  /\ step = "reset"
  /\ key' = NoKey
  /\ step' = "setup"
  /\ UNCHANGED <<userVars, option, dev, mode, timeout, setOs, graphicsVars>>

\* Key.UnicodeChar = 0 and ConIn->Reset.
ResetInput ==
  /\ step = "reset"
  /\ key' = NoKey
  /\ typed' = <<>>
  /\ step' = "setup"
  /\ UNCHANGED <<option, dev, mode, timeout, setOs, typedCount, graphicsVars>>

ForOne == option \in {1, Single}
FrameBufferCount == IF ForOne THEN 1 ELSE NumHandles

SetupBugCount ==
  /\ step = "setup"
  /\ frameBuffers' = IF option = Single THEN 1 ELSE NumHandles
  /\ pool' = pool \cup {GpuArrayPool}
  /\ dev' = 0
  /\ step' = IF option = 1 THEN "device" ELSE "open"
  /\ UNCHANGED <<option, mode, key, timeout, setOs, userVars, current, gpuArray>>

\* GPUArray for one device or for all of them.
Setup ==
  /\ step = "setup"
  /\ frameBuffers' = FrameBufferCount
  /\ pool' = pool \cup {GpuArrayPool}
  /\ dev' = 0
  /\ step' = IF option = 1 THEN "device" ELSE "open"
  /\ UNCHANGED <<option, mode, key, timeout, setOs, userVars, current, gpuArray>>

ChooseDevice ==
  /\ step = "device" /\ Offered
  /\ dev' = key
  /\ key' = NoKey
  /\ step' = "open"
  /\ UNCHANGED <<option, mode, timeout, setOs, userVars, graphicsVars>>

\* Options 2 and 3 pick the mode themselves, and so does a device with one.
HasMenu == option \in {0, 1, Single} /\ MaxMode[dev] > 1

AutomaticModes ==
  IF option = 3 /\ Mode1024[dev] # {}
  THEN {m \in Mode1024[dev] : \A n \in Mode1024[dev] : m <= n}
  ELSE {0}

\* OpenProtocol.
OpenMenu ==
  /\ step = "open" /\ HasMenu
  /\ timeout' = IF option = Single THEN TimeoutSeconds ELSE timeout
  /\ step' = "modes"
  /\ UNCHANGED <<option, dev, mode, key, setOs, userVars, graphicsVars>>

OpenAutomatic ==
  /\ step = "open" /\ ~HasMenu
  /\ mode' \in AutomaticModes
  /\ step' = "set"
  /\ UNCHANGED <<option, dev, key, timeout, setOs, userVars, graphicsVars>>

ChooseModeBugFromOne ==
  /\ step = "modes" /\ Offered
  /\ mode' = key + 1
  /\ key' = NoKey
  /\ step' = "set"
  /\ UNCHANGED <<option, dev, timeout, setOs, userVars, graphicsVars>>

ChooseMode ==
  /\ step = "modes" /\ Offered
  /\ mode' = key
  /\ key' = NoKey
  /\ step' = "set"
  /\ UNCHANGED <<option, dev, timeout, setOs, userVars, graphicsVars>>

DefaultModeBugKey ==
  /\ step = "modes" /\ HasTimer /\ ~Offered /\ timeout = 0
  /\ mode' = key
  /\ key' = NoKey
  /\ step' = "set"
  /\ UNCHANGED <<option, dev, timeout, setOs, userVars, graphicsVars>>

DefaultMode ==
  /\ step = "modes" /\ HasTimer /\ ~Offered /\ timeout = 0
  /\ mode' = 0
  /\ key' = NoKey
  /\ step' = "set"
  /\ UNCHANGED <<option, dev, timeout, setOs, userVars, graphicsVars>>

\* WaitForSingleEvent times out for the last time, at the first menu of several
\* devices or the only menu of a single one.
TimeIsUp == timeout = 0 /\ IF step = "menu" THEN DefaultOption ELSE DefaultMode

-----------------------------------------------------------------------------
(* Setting modes and describing them.                                      *)

SetMode ==
  /\ step = "set"
  /\ current' = [current EXCEPT ![dev] = mode]
  /\ step' = "store"
  /\ UNCHANGED <<userVars, menuVars, frameBuffers, gpuArray, pool>>

\* Where the device's entry goes: options for one device have one entry.
IndexBugOption1 == IF option = Single THEN 0 ELSE dev
Index == IF ForOne THEN 0 ELSE dev
IsLast == ForOne \/ dev + 1 = NumHandles

\* The entry and the pool for its Info, and on to the next device.  (After the
\* last one DevNum is not used again.)
Store ==
  /\ step = "store"
  /\ pool' = pool \cup {InfoOf(Index)}
  /\ gpuArray' = [gpuArray EXCEPT ![Index] = [gpu |-> dev, mode |-> current[dev]]]
  /\ dev' = IF IsLast THEN dev ELSE dev + 1
  /\ step' = IF IsLast THEN "cleanup" ELSE "open"
  /\ UNCHANGED <<option, mode, key, timeout, setOs, userVars, current, frameBuffers>>

CleanUpBugFrameBuffers ==
  /\ step = "cleanup"
  /\ pool' = pool \ ({NameOf(d) : d \in 0 .. frameBuffers - 1} \cup Buffers)
  /\ step' = "done"
  /\ UNCHANGED <<userVars, menuVars, current, frameBuffers, gpuArray>>

CleanUp ==
  /\ step = "cleanup"
  /\ pool' = pool \ (Names \cup Buffers)
  /\ step' = "done"
  /\ UNCHANGED <<userVars, menuVars, current, frameBuffers, gpuArray>>

\* FreePool refuses; what was freed before it stays freed.
CleanUpFails ==
  /\ step = "cleanup"
  /\ ServicesMayFail
  /\ \E n \in 0 .. NumHandles + 1 :
       pool' = pool \ ({NameOf(d) : d \in {e \in Device : e < n}}
                         \cup IF n > NumHandles THEN {<<"NameBuffer", 0>>} ELSE {})
  /\ step' = "returned"
  /\ UNCHANGED <<userVars, menuVars, current, frameBuffers, gpuArray>>

\* Any other call fails: InitUEFI_GOP returns its error at once.
ServiceFails ==
  /\ step \in {"menu", "reset", "setup", "open", "modes", "set", "store"}
  /\ ServicesMayFail
  /\ frameBuffers' = IF step = "setup" THEN FrameBufferCount ELSE frameBuffers
  /\ step' = "returned"
  /\ UNCHANGED <<userVars, menuVars, current, gpuArray, pool>>

-----------------------------------------------------------------------------
\* The user, at any moment, whatever is on the screen.
Types(k) ==
  /\ step \notin {"done", "returned"}
  /\ typedCount < MaxTyped
  /\ typed' = Append(typed, [code |-> k, at |-> step])
  /\ typedCount' = typedCount + 1
  /\ UNCHANGED <<step, menuVars, graphicsVars>>

Loader ==
  \/ ReadKey \/ SecondPasses \/ TimeIsUp
  \/ ChooseOption \/ ResetInput \/ Setup \/ ChooseDevice
  \/ OpenMenu \/ OpenAutomatic \/ ChooseMode
  \/ SetMode \/ Store \/ CleanUp

Failure == ReadKeyFails \/ CleanUpFails \/ ServiceFails

User == \E k \in KeyCodes : Types(k)

Next == Loader \/ Failure \/ User
Spec == Init /\ [][Next]_vars

\* InitUEFI_GOP never stops by itself, and its timers go on.  No call is
\* obliged to fail: a menu is not left by a failure that has to come.
FairSpec == Spec /\ WF_vars(Loader)
-----------------------------------------------------------------------------
(* Properties.                                                             *)

\* SetMode is called only with a mode the device has, whichever of the menus,
\* timers and defaults it comes from.
ModeIsOffered == step = "set" => mode \in 0 .. MaxMode[dev] - 1

\* Every menu asks its own question: none opens with an answer already in
\* Key, left there by the menu before.
MenuOpensUnanswered == [][step' \in Menus /\ step' # step => ~Offered']_vars

\* What was typed at the first menu and not read by it picks no device and no
\* mode ("Reset input buffer").
NoKeyFromFirstMenu ==
  [][Len(typed') < Len(typed) /\ step \in {"device", "modes"} => Head(typed).at # "menu"]_vars

\* A menu is answered neither with the last menu's answer nor with keys that
\* were meant for the first.
MenusAskAnew == MenuOpensUnanswered /\ NoKeyFromFirstMenu

\* Each entry written lies in the array that was allocated, has a pool for its
\* Info, and tells the mode its device is really in, to the end of the set-up:
\* no device is set again once described.
EntriesAreReal ==
  \A i \in Device : gpuArray[i].gpu # NoGpu =>
    /\ i < frameBuffers
    /\ gpuArray[i].mode = current[gpuArray[i].gpu]
    /\ InfoOf(i) \in pool

\* The kernel is given an entry for each framebuffer counted, each for a
\* device of its own, and when all devices are configured, device by device.
ArrayIsComplete ==
  step = "done" =>
    /\ \A i \in 0 .. frameBuffers - 1 : gpuArray[i].gpu # NoGpu
    /\ option \in {0, 2, 3} =>
         frameBuffers = NumHandles /\ \A i \in Device : gpuArray[i].gpu = i

\* When the set-up succeeds, the pools left are those the kernel is given.
PoolIsReturned ==
  step = "done" => pool = {GpuArrayPool} \cup {InfoOf(i) : i \in 0 .. frameBuffers - 1}

\* With nobody at the keyboard, and no failing call, the machine still boots,
\* every device in its default mode ("Configure all to use default resolutions").
UnattendedSetup ==
  [](typed = <<>> /\ step # "returned")
    => <>(step = "done" /\ \A d \in Device : current[d] = 0)

\* What UnattendedSetup says but for the time it takes: where no key has been
\* typed, the set-up ends with every device in its default mode.
UntouchedIsDefault ==
  typedCount = 0 /\ step = "done" => \A d \in Device : current[d] = 0

-----------------------------------------------------------------------------
(* Strengthenings for the proofs.                                          *)

\* Which way through the set-up: option 4 stands for a machine with one device.
WayIsKnown ==
  /\ option = Single <=> NumHandles = 1
  /\ step \in {"menu", "reset"} => option # Single
  /\ step = "device" => option = 1

Written(i) == gpuArray[i].gpu # NoGpu
BeforeArray == {"menu", "reset", "setup"}
Configuring == {"open", "modes", "set", "store"}

\* The array is filled from its first entry on, in the order of the devices.
FilledInOrder ==
  /\ step \in BeforeArray \cup {"device"} => \A i \in Device : ~Written(i)
  /\ step \in Configuring => \A i \in Device : Written(i) <=> ~ForOne /\ i < dev
  /\ step \in {"cleanup", "done"} => \A i \in Device : Written(i) <=> i < frameBuffers
  /\ ~ForOne => \A i \in Device : Written(i) => gpuArray[i].gpu = i

CountIsSet ==
  step \in Configuring \cup {"device", "cleanup", "done"} =>
    frameBuffers = FrameBufferCount

Kept ==
  (IF step \in BeforeArray THEN {} ELSE {GpuArrayPool})
    \cup {InfoOf(i) : i \in {d \in Device : Written(d)}}

\* The pools allocated so far.
PoolIsKnown ==
  /\ step \notin {"done", "returned"} => pool = Names \cup Buffers \cup Kept
  /\ step = "done" => pool = Kept

SetupInv ==
  /\ TypeOK /\ WayIsKnown /\ ModeIsOffered /\ FilledInOrder /\ CountIsSet /\ EntriesAreReal
  /\ PoolIsKnown

\* Between two menus no key is held, and after the reset none is waiting that
\* was typed at the first menu.
KeysAreSpent ==
  /\ step \in {"setup", "open", "set", "store"} => key = NoKey
  /\ step \in Configuring \cup {"setup", "device"} =>
       \A n \in 1 .. Len(typed) : typed[n].at # "menu"

\* Without keys the timers and defaults choose, and what has been described so
\* far was set to mode 0.
DefaultsAreTaken ==
  typedCount = 0 =>
    /\ typed = <<>> /\ key = NoKey
    /\ option \in {2, Single}
    /\ step = "set" => mode = 0
    /\ step = "store" => current[dev] = 0
    /\ \A i \in Device : Written(i) => gpuArray[i].mode = 0
=============================================================================
