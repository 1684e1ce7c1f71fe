------------------------------ MODULE Handoff ------------------------------
(***************************************************************************)
(* Loader.c, the end of GoTime: take the system's memory map, leave the    *)
(* boot services with its key, and jump to the kernel with the map in its  *)
(* loader block.                                                           *)
(*                                                                         *)
(* The firmware's map changes behind the loader's back, at every           *)
(* allocation and in the firmware's own timers, and its key with it.  A    *)
(* map is a version number here (its key) and a number of descriptors.     *)
(* The buffer for it is one descriptor larger than GetMemoryMap asked for. *)
(* ExitBootServices refuses a key that is not the current one; the code    *)
(* then frees the map, takes it again and tries once more.  It goes on     *)
(* when the map cannot be freed, and the buffer is lost.  UEFI lets the    *)
(* firmware shut down in part, its timers first, on the refused call.      *)
(***************************************************************************)
EXTENDS Integers

CONSTANTS
  PoolGrowth,      \* descriptors a call of AllocatePool or FreePool can add
  FirmwareGrowth,  \* descriptors a change by the firmware can add
  MaxDescriptors,  \* bound on the descriptors of the map
  MaxChanges,      \* bound on the changes the firmware makes by itself
  KeyWhenTooSmall, \* does GetMemoryMap set the key when the buffer is too small?
  PartialShutdown, \* does a refused ExitBootServices stop the timers?
  PoolMayFail,     \* may AllocatePool and FreePool fail?
  PausesOnFailure  \* FINAL_LOADER_DEBUG_ENABLED: Keywait after a failed exit

ASSUME HandoffAssumption ==
  /\ PoolGrowth \in Nat
  /\ FirmwareGrowth \in Nat
  /\ MaxDescriptors \in Nat \ {0}
  /\ MaxChanges \in Nat
  /\ KeyWhenTooSmall \in BOOLEAN
  /\ PartialShutdown \in BOOLEAN
  /\ PoolMayFail \in BOOLEAN
  /\ PausesOnFailure \in BOOLEAN

VARIABLES
  version,      \* the key of the firmware's map
  descriptors,  \* how many descriptors it has
  services,     \* "boot", "partial" (no timers), or "ended"
  changes,      \* changes the firmware made by itself
  step,         \* the call GoTime makes next
  attempt,      \* 1, or 2 after ExitBootServices #1 failed
  memMap,       \* MemMap: "null", "owned" or "freed"
  capacity,     \* descriptors that fit in the buffer
  mapSize,      \* MemMapSize, in descriptors
  mapKey,       \* MemMapKey
  mapVersion,   \* the map in the buffer; 0 is none
  status,       \* GoTimeStatus
  buffers,      \* buffers for the map that are allocated, MemMap's or not
  unfreed       \* buffers FreePool would not free (both only for MapIsLive)

vars == <<version, descriptors, services, changes, step, attempt, memMap,
          capacity, mapSize, mapKey, mapVersion, status, buffers, unfreed>>
firmwareVars == <<version, descriptors, services, changes>>
mapVars == <<memMap, capacity, mapSize, mapKey, mapVersion>>
poolVars == <<buffers, unfreed>>

Version == Nat \ {0}
Size == 0 .. MaxDescriptors + 1

TypeOK ==
  /\ version \in Version
  /\ descriptors \in 1 .. MaxDescriptors
  /\ services \in {"boot", "partial", "ended"}
  /\ changes \in 0 .. MaxChanges
  /\ step \in {"query", "allocate", "fetch", "exit", "free", "keptPause", "pause",
               "giveUp", "jump", "jumped", "returned"}
  /\ attempt \in {1, 2}
  /\ memMap \in {"null", "owned", "freed"}
  /\ capacity \in Size
  /\ mapSize \in Size
  /\ mapKey \in Version \cup {0}
  /\ mapVersion \in Version \cup {0}
  /\ status \in {"SUCCESS", "BUFFER_TOO_SMALL", "OUT_OF_RESOURCES", "INVALID_PARAMETER"}
  /\ buffers \in 0 .. 2 /\ unfreed \in 0 .. 2

Init ==
  /\ version = 1
  /\ descriptors \in 1 .. MaxDescriptors
  /\ services = "boot"
  /\ changes = 0
  /\ step = "query" /\ attempt = 1
  /\ memMap = "null" /\ capacity = 0
  /\ mapSize = 0 /\ mapVersion = 0
  /\ mapKey \in {0, 1}     \* MemMapKey is not initialized
  /\ status = "SUCCESS"
  /\ buffers = 0 /\ unfreed = 0

-----------------------------------------------------------------------------
\* A change of the firmware's map: a new key, and descriptors split or merged.
MapChanges(growth) ==
  /\ version' = version + 1
  /\ descriptors' \in 1 .. MaxDescriptors
  /\ descriptors' <= descriptors + growth

\* What GetMemoryMap leaves in MemMapKey.
KeyAfter(tooSmall) == IF tooSmall /\ ~KeyWhenTooSmall THEN mapKey ELSE version

\* (Names with Bug in them are mutants of the definition after them: what the
\* code could have done wrong, for the runs to notice.)
QueryBugNoSlack ==
  /\ step = "query"
  /\ mapKey' = KeyAfter(TRUE)
  /\ mapSize' = descriptors
  /\ status' = "BUFFER_TOO_SMALL"
  /\ step' = "allocate"
  /\ UNCHANGED <<firmwareVars, attempt, memMap, capacity, mapVersion, poolVars>>

\* GetMemoryMap with MemMapSize = 0: always EFI_BUFFER_TOO_SMALL.  The code
\* adds one descriptor to the size it is told.
Query ==
  /\ step = "query"
  /\ mapKey' = KeyAfter(TRUE)
  /\ mapSize' = descriptors + 1
  /\ status' = "BUFFER_TOO_SMALL"
  /\ step' = "allocate"
  /\ UNCHANGED <<firmwareVars, attempt, memMap, capacity, mapVersion, poolVars>>

AllocateBugSize ==
  /\ step = "allocate"
  /\ MapChanges(PoolGrowth)
  /\ memMap' = "owned" /\ capacity' = mapSize + 1 /\ mapVersion' = 0
  /\ status' = "SUCCESS"
  /\ step' = "fetch"
  /\ buffers' = buffers + 1
  /\ UNCHANGED <<services, changes, attempt, mapSize, mapKey, unfreed>>

Allocate ==
  /\ step = "allocate"
  /\ MapChanges(PoolGrowth)
  /\ memMap' = "owned" /\ capacity' = mapSize /\ mapVersion' = 0
  /\ status' = "SUCCESS"
  /\ step' = "fetch"
  /\ buffers' = buffers + 1
  /\ UNCHANGED <<services, changes, attempt, mapSize, mapKey, unfreed>>

AllocateFails ==
  /\ step = "allocate"
  /\ PoolMayFail
  /\ status' = "OUT_OF_RESOURCES"
  /\ step' = "returned"
  /\ UNCHANGED <<firmwareVars, attempt, mapVars, poolVars>>

FetchBugKey ==
  /\ step = "fetch"
  /\ mapSize' = descriptors
  /\ mapVersion' = IF descriptors > capacity THEN mapVersion ELSE version
  /\ status' = IF descriptors > capacity THEN "BUFFER_TOO_SMALL" ELSE "SUCCESS"
  /\ step' = "exit"
  /\ UNCHANGED <<firmwareVars, attempt, memMap, capacity, mapKey, poolVars>>

\* The second GetMemoryMap; what it returns is not looked at.
Fetch ==
  /\ step = "fetch"
  /\ mapKey' = KeyAfter(descriptors > capacity)
  /\ mapSize' = descriptors
  /\ mapVersion' = IF descriptors > capacity THEN mapVersion ELSE version
  /\ status' = IF descriptors > capacity THEN "BUFFER_TOO_SMALL" ELSE "SUCCESS"
  /\ step' = "exit"
  /\ UNCHANGED <<firmwareVars, attempt, memMap, capacity, poolVars>>

ExitBugFreesMap ==
  /\ step = "exit"
  /\ mapKey = version
  /\ services' = "ended"
  /\ status' = "SUCCESS"
  /\ step' = "free"
  /\ UNCHANGED <<version, descriptors, changes, attempt, mapVars, poolVars>>

Exit ==
  /\ step = "exit"
  /\ mapKey = version
  /\ services' = "ended"
  /\ status' = "SUCCESS"
  /\ step' = "jump"
  /\ UNCHANGED <<version, descriptors, changes, attempt, mapVars, poolVars>>

ExitFailsBugNoRetry ==
  /\ step = "exit"
  /\ mapKey # version
  /\ status' = "INVALID_PARAMETER"
  /\ services' = IF PartialShutdown THEN "partial" ELSE services
  /\ step' = "giveUp"
  /\ UNCHANGED <<version, descriptors, changes, attempt, mapVars, poolVars>>

ExitFails ==
  /\ step = "exit"
  /\ mapKey # version
  /\ status' = "INVALID_PARAMETER"
  /\ services' = IF PartialShutdown THEN "partial" ELSE services
  /\ step' = IF attempt = 1 THEN "free" ELSE "giveUp"
  /\ UNCHANGED <<version, descriptors, changes, attempt, mapVars, poolVars>>

FreeBugNotCalled ==
  /\ step = "free"
  /\ mapSize' = 0
  /\ attempt' = 2
  /\ step' = IF PausesOnFailure THEN "pause" ELSE "query"
  /\ UNCHANGED <<firmwareVars, memMap, capacity, mapKey, mapVersion, status, poolVars>>

\* After the first failure: FreePool(MemMap), a pause in debug builds, and
\* MemMapSize = 0 for the second attempt.
Free ==
  /\ step = "free"
  /\ MapChanges(PoolGrowth)
  /\ memMap' = "freed" /\ mapVersion' = 0
  /\ status' = "SUCCESS"
  /\ mapSize' = 0
  /\ attempt' = 2
  /\ step' = IF PausesOnFailure THEN "pause" ELSE "query"
  /\ buffers' = buffers - 1
  /\ UNCHANGED <<services, changes, capacity, mapKey, unfreed>>

\* FreePool fails: a pause in every build, and the second attempt all the same,
\* with the buffer still in MemMap.
FreeFails ==
  /\ step = "free"
  /\ PoolMayFail
  /\ status' = "INVALID_PARAMETER"
  /\ mapSize' = 0
  /\ attempt' = 2
  /\ step' = "keptPause"
  /\ unfreed' = unfreed + 1
  /\ UNCHANGED <<firmwareVars, memMap, capacity, mapKey, mapVersion, buffers>>

\* Keywait polls for a key; keyboards are read in the firmware's timers.
KeyPressed ==
  /\ step \in {"keptPause", "pause"}
  /\ services = "boot"
  /\ step' = IF step = "keptPause" /\ PausesOnFailure THEN "pause" ELSE "query"
  /\ UNCHANGED <<firmwareVars, attempt, mapVars, status, poolVars>>

\* After the second: GoTimeStatus = FreePool(MemMap), and return it.
GiveUp ==
  /\ step = "giveUp"
  /\ MapChanges(PoolGrowth)
  /\ memMap' = "freed" /\ mapVersion' = 0
  /\ status' = "SUCCESS"
  /\ step' = "returned"
  /\ buffers' = buffers - 1
  /\ UNCHANGED <<services, changes, attempt, capacity, mapSize, mapKey, unfreed>>

GiveUpFails ==
  /\ step = "giveUp"
  /\ PoolMayFail
  /\ status' = "INVALID_PARAMETER"
  /\ step' = "returned"
  /\ unfreed' = unfreed + 1
  /\ UNCHANGED <<firmwareVars, attempt, mapVars, buffers>>

\* The loader block gets MemMap and MemMapSize; the kernel runs.
Jump ==
  /\ step = "jump"
  /\ step' = "jumped"
  /\ UNCHANGED <<firmwareVars, attempt, mapVars, status, poolVars>>

\* The firmware's own timers, while it has the machine.
FirmwareChanges ==
  /\ services = "boot" /\ step # "returned"
  /\ changes < MaxChanges
  /\ MapChanges(FirmwareGrowth)
  /\ changes' = changes + 1
  /\ UNCHANGED <<services, step, attempt, mapVars, status, poolVars>>

Loader ==
  \/ Query \/ Allocate \/ AllocateFails \/ Fetch \/ Exit \/ ExitFails
  \/ Free \/ FreeFails \/ GiveUp \/ GiveUpFails \/ Jump

Next == Loader \/ KeyPressed \/ FirmwareChanges
Spec == Init /\ [][Next]_vars

\* The loader never waits but for a key, and the user presses one.
FairSpec == Spec /\ WF_vars(Loader) /\ WF_vars(KeyPressed)
-----------------------------------------------------------------------------
(* Properties.                                                             *)

\* The kernel gets the memory map of the moment boot services ended, all of
\* it and nothing beyond the buffer: "The system memory map as an array of
\* EFI_MEMORY_DESCRIPTOR structs".
MapIsHandedOver ==
  step \in {"jump", "jumped"} =>
    mapVersion = version /\ mapSize = descriptors /\ mapSize <= capacity

\* MemMap is written, tried and freed only while it is a live buffer, though
\* the first attempt leaves the pointer to a freed one in it.  No buffer is lost
\* or freed twice but by FreePool's own failure: besides the one in use, only
\* those FreePool was called for and refused stay allocated, for the kernel or
\* when GoTime returns.
MapIsLive ==
  /\ step \in {"fetch", "exit", "free", "giveUp", "jump", "jumped"} =>
       memMap = "owned" /\ buffers = unfreed + 1
  /\ step = "returned" => buffers = unfreed

\* Once ExitBootServices succeeds no boot service is called any more, and
\* GoTime returns to efi_main, which waits for a key, only before that.
NoServiceAfterExit ==
  services = "ended" <=> step \in {"jump", "jumped"}

\* A hand-off that failed is reported to efi_main ("Pause to evaluate any
\* errors").
FailureIsReported == step = "returned" => status # "SUCCESS"

\* The key tried is never that of a map the loader has since disturbed
\* itself: only the firmware makes ExitBootServices fail.
OnlyFirmwareSpoilsTheKey ==
  [][step = "exit" /\ step' \in {"free", "giveUp"} /\ KeyWhenTooSmall => changes > 0]_vars

\* One retry is enough: the kernel runs if the firmware disturbs the map no
\* more than once ("apparently some systems need a second call"), whether the
\* first attempt's buffer can be freed or not.
HandoffSucceeds ==
  [](changes <= 1 /\ status # "OUT_OF_RESOURCES") => <>(step = "jumped")

-----------------------------------------------------------------------------
(* Strengthenings for the proofs.                                          *)

\* The key held is never of a map to come, and from the moment the buffer is
\* allocated it is out of date until the next GetMemoryMap.
KeyIsOld ==
  /\ mapKey <= version
  /\ step = "fetch" => mapKey < version /\ mapVersion = 0
  /\ step = "exit" /\ KeyWhenTooSmall /\ changes = 0 => mapKey = version

\* Until the buffer is allocated there is none but those FreePool would not free,
\* one for each attempt that is over.
BuffersAreCounted ==
  /\ step \in {"query", "allocate", "keptPause", "pause"} => buffers = unfreed
  /\ step = "fetch" => capacity = mapSize
  /\ unfreed < attempt \/ step = "returned"
  /\ step = "free" => attempt = 1

\* The one descriptor of slack takes what the loader's own call adds.
SlackIsEnough == KeyWhenTooSmall => PoolGrowth <= 1 /\ FirmwareGrowth = 0
SlackInv ==
  KeyWhenTooSmall => /\ step = "allocate" => descriptors < mapSize
                     /\ step = "fetch" => descriptors <= capacity

\* A key that will be accepted stands for the map in the buffer.
KeyMatchesMap ==
  step = "exit" /\ mapKey = version =>
    mapVersion = version /\ mapSize = descriptors /\ mapSize <= capacity

\* The safety half of HandoffSucceeds: ExitBootServices is given up only after the
\* firmware has disturbed the map twice.
GivenUpForCause == step = "giveUp" => changes > 1

\* That needs a key from every second GetMemoryMap the firmware leaves alone.
KeyComesWithMap == KeyWhenTooSmall \/ PoolGrowth <= 1

\* Each attempt takes a change of the firmware's to fail; until it comes, the
\* buffer will do and the key is good.
AttemptInv ==
  /\ attempt = 2 => changes > 0
  /\ step = "free" => attempt = 1 /\ changes > 0
  /\ GivenUpForCause
  /\ changes < attempt =>
       /\ step = "allocate" => KeyWhenTooSmall \/ descriptors < mapSize
       /\ step = "fetch" => KeyWhenTooSmall \/ descriptors <= capacity
       /\ step = "exit" => mapKey = version

CallsInv == TypeOK /\ MapIsLive /\ NoServiceAfterExit /\ KeyIsOld /\ BuffersAreCounted
HandoffInv == CallsInv /\ SlackInv /\ KeyMatchesMap /\ MapIsHandedOver
=============================================================================
