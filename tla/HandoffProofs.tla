--------------------------- MODULE HandoffProofs ---------------------------
(* The hand-off keeps its buffer, its key and the boot services in step,   *)
(* however often the firmware changes the map and whatever the growth.     *)
EXTENDS Handoff, TLAPS

LEMMA InitCalls == Init => CallsInv
BY HandoffAssumption
   DEF Init, CallsInv, TypeOK, Version, Size, MapIsLive, NoServiceAfterExit, KeyIsOld, BuffersAreCounted

\* A change of the map is a new version with a number of descriptors.
LEMMA ChangedMap ==
  ASSUME TypeOK, NEW growth, MapChanges(growth)
  PROVE  /\ version' = version + 1 /\ version' \in Version /\ version' > version
         /\ descriptors' \in 1 .. MaxDescriptors
BY DEF TypeOK, MapChanges, Version

LEMMA StepCalls == CallsInv /\ [Next]_vars => CallsInv'
<1> SUFFICES ASSUME CallsInv, [Next]_vars PROVE CallsInv'
  OBVIOUS
<1> USE HandoffAssumption
    DEF CallsInv, TypeOK, Version, Size, MapIsLive, NoServiceAfterExit, KeyIsOld, BuffersAreCounted,
        firmwareVars, mapVars, poolVars
<1>1. CASE Query
  BY <1>1 DEF Query, KeyAfter
<1>2. CASE Allocate
  BY <1>2, ChangedMap DEF Allocate
<1>3. CASE AllocateFails
  BY <1>3 DEF AllocateFails
<1>4. CASE Fetch
  BY <1>4 DEF Fetch, KeyAfter
<1>5. CASE Exit
  BY <1>5 DEF Exit
<1>6. CASE ExitFails
  BY <1>6 DEF ExitFails
<1>7. CASE Free
  BY <1>7, ChangedMap DEF Free
<1>8. CASE KeyPressed
  BY <1>8 DEF KeyPressed
<1>9. CASE GiveUp
  BY <1>9, ChangedMap DEF GiveUp
<1>10. CASE Jump
  BY <1>10 DEF Jump
<1>11. CASE FirmwareChanges
  BY <1>11, ChangedMap DEF FirmwareChanges
<1>12. CASE FreeFails
  BY <1>12 DEF FreeFails
<1>13. CASE GiveUpFails
  BY <1>13 DEF GiveUpFails
<1>14. CASE UNCHANGED vars
  BY <1>14 DEF vars
<1> QED BY <1>1, <1>2, <1>3, <1>4, <1>5, <1>6, <1>7, <1>8, <1>9, <1>10, <1>11, <1>12, <1>13, <1>14
        DEF Next, Loader

LEMMA CallsAreSafe == Spec => [](TypeOK /\ MapIsLive /\ NoServiceAfterExit)
<1>1. CallsInv => TypeOK /\ MapIsLive /\ NoServiceAfterExit
  BY DEF CallsInv
<1> QED BY <1>1, InitCalls, StepCalls, PTL DEF Spec

\* The variables of the hand-off keep to their types.
THEOREM HandoffTypes == Spec => []TypeOK
BY CallsAreSafe, PTL

\* Whichever of AllocatePool and FreePool fail, the buffer in use is a live one,
\* and the buffers that stay allocated besides are those FreePool refused to free.
THEOREM LiveMap == Spec => []MapIsLive
BY CallsAreSafe, PTL

\* No boot service is called after ExitBootServices succeeded.
THEOREM Calls == Spec => []NoServiceAfterExit
BY CallsAreSafe, PTL

\* On firmware that always sets the key, ExitBootServices is refused only
\* when the firmware changed the map by itself.
THEOREM KeySpoiled == Spec => OnlyFirmwareSpoilsTheKey
<1>1. CallsInv /\ [Next]_vars
        => [step = "exit" /\ step' \in {"free", "giveUp"} /\ KeyWhenTooSmall => changes > 0]_vars
  <2> SUFFICES ASSUME CallsInv, Next, step = "exit", step' \in {"free", "giveUp"},
                      KeyWhenTooSmall
               PROVE  changes > 0
    BY DEF vars
  <2>1. ExitFails
    BY DEF Next, Loader, Query, Allocate, AllocateFails, Fetch, Exit, Free, FreeFails, GiveUp,
           GiveUpFails, Jump, KeyPressed, FirmwareChanges
  <2> QED BY <2>1, HandoffAssumption DEF ExitFails, CallsInv, TypeOK, KeyIsOld
<1> QED BY <1>1, InitCalls, StepCalls, PTL DEF Spec, OnlyFirmwareSpoilsTheKey

-----------------------------------------------------------------------------
LEMMA StepHandoff ==
  ASSUME SlackIsEnough, HandoffInv, [Next]_vars
  PROVE  HandoffInv'
<1>1. CallsInv'
  BY StepCalls DEF HandoffInv
<1>2. CallsInv /\ TypeOK
  BY DEF HandoffInv, CallsInv
<1> USE HandoffAssumption, <1>1, <1>2
    DEF HandoffInv, TypeOK, Version, Size, SlackInv, KeyMatchesMap, MapIsHandedOver,
        firmwareVars, mapVars, poolVars
<1>3. CASE Query
  BY <1>3 DEF Query
<1>4. CASE Allocate
  BY <1>4 DEF Allocate, MapChanges, SlackIsEnough, CallsInv, BuffersAreCounted
<1>5. CASE Fetch
  BY <1>5 DEF Fetch, KeyAfter, CallsInv, KeyIsOld
<1>6. CASE Exit
  BY <1>6 DEF Exit
<1>7. CASE FirmwareChanges
  <2>1. version' > mapKey /\ mapKey' = mapKey
    BY <1>7, ChangedMap DEF FirmwareChanges, CallsInv, KeyIsOld
  <2>2. step' \notin {"jump", "jumped"}
    BY <1>7 DEF FirmwareChanges, CallsInv, NoServiceAfterExit
  <2>3. SlackInv'
    BY <1>7 DEF FirmwareChanges, MapChanges, SlackIsEnough, CallsInv
  <2>4. KeyMatchesMap'
    BY <2>1
  <2> QED BY <2>2, <2>3, <2>4
<1>8. CASE AllocateFails \/ ExitFails \/ Free \/ FreeFails \/ KeyPressed \/ GiveUp \/ GiveUpFails \/ Jump
  BY <1>8 DEF AllocateFails, ExitFails, Free, FreeFails, KeyPressed, GiveUp, GiveUpFails, Jump
<1>9. CASE UNCHANGED vars
  BY <1>9 DEF vars
<1> QED BY <1>3, <1>4, <1>5, <1>6, <1>7, <1>8, <1>9 DEF Next, Loader

\* The map the kernel gets is whole and current, if GetMemoryMap leaves the
\* key alone when the buffer is too small, or if between its two calls the
\* map grows by no more than the descriptor the loader adds to the buffer.
THEOREM MapHandedOver ==
  ASSUME SlackIsEnough
  PROVE  Spec => []MapIsHandedOver
<1>1. Init => HandoffInv
  BY InitCalls DEF Init, HandoffInv, SlackInv, KeyMatchesMap, MapIsHandedOver
<1>2. HandoffInv /\ [Next]_vars => HandoffInv'
  BY StepHandoff
<1>3. HandoffInv => MapIsHandedOver
  BY DEF HandoffInv
<1> QED BY <1>1, <1>2, <1>3, PTL DEF Spec

-----------------------------------------------------------------------------
LEMMA StepAttempt ==
  ASSUME KeyComesWithMap, CallsInv, AttemptInv, [Next]_vars
  PROVE  AttemptInv'
<1> USE HandoffAssumption
    DEF AttemptInv, GivenUpForCause, KeyComesWithMap, TypeOK, Version, Size, firmwareVars, mapVars,
        poolVars
<1>0. TypeOK
  BY DEF CallsInv
<1>1. CASE Query
  BY <1>0, <1>1 DEF Query
<1>2. CASE Allocate
  BY <1>0, <1>2 DEF Allocate, MapChanges
<1>3. CASE Fetch
  BY <1>0, <1>3 DEF Fetch, KeyAfter
<1>4. CASE Exit \/ ExitFails
  BY <1>0, <1>4 DEF Exit, ExitFails
<1>5. CASE Free \/ FreeFails \/ GiveUp \/ GiveUpFails
  BY <1>0, <1>5 DEF Free, FreeFails, GiveUp, GiveUpFails
<1>6. CASE FirmwareChanges
  BY <1>0, <1>6 DEF FirmwareChanges
<1>7. CASE AllocateFails \/ KeyPressed \/ Jump
  BY <1>0, <1>7 DEF AllocateFails, KeyPressed, Jump
<1>8. CASE UNCHANGED vars
  BY <1>8 DEF vars
<1> QED BY <1>1, <1>2, <1>3, <1>4, <1>5, <1>6, <1>7, <1>8 DEF Next, Loader

\* One retry is enough for one change by the firmware, at whatever moment it
\* comes: what HandoffSucceeds promises, but for the fairness it takes to get
\* there.  Firmware that leaves the key alone when the buffer is too small must
\* not need more than the descriptor of slack for the loader's own pool.
THEOREM OneRetry ==
  ASSUME KeyComesWithMap
  PROVE  Spec => []GivenUpForCause
<1>1. Init => AttemptInv
  BY DEF Init, AttemptInv, GivenUpForCause
<1>2. CallsInv /\ AttemptInv /\ [Next]_vars => (CallsInv /\ AttemptInv)'
  BY StepCalls, StepAttempt
<1>3. AttemptInv => GivenUpForCause
  BY DEF AttemptInv
<1> QED BY <1>1, <1>2, <1>3, InitCalls, PTL DEF Spec
=============================================================================
