--------------------------- MODULE StartupProofs ---------------------------
(* Proofs about Startup: which prompt a key may answer.                    *)
EXTENDS Startup, TLAPS

\* The keys waiting were typed somewhere in A, or nowhere in A.
TypedOnlyAt(A) == \A n \in DOMAIN typed : typed[n].at \in A
TypedNotAt(A) == \A n \in DOMAIN typed : typed[n].at \notin A

\* GoTime shows one thing after the other, and nothing is shown before it is called.
InfoInOrder ==
  /\ frameBuffers \in 0 .. NumHandles
  /\ phase \in WithGoTime => shown <= frameBuffers + 2
  /\ phase \in InfoPauses => shown < frameBuffers + 2
  /\ phase \notin WithGoTime \cup {"goTimeReturned", "exited"} => shown = 0

KeysInv ==
  /\ TypeOK /\ InfoInOrder
  /\ step \in Graphics!Steps
  /\ phase \in Pauses <=> keywait \in {"ask", "poll", "clear"}
  /\ keywait = "poll" => TypedOnlyAt({phase})
  /\ phase \in {"info", "graphics"} /\ seconds > 0 /\ keywait # "failed"
       => TypedNotAt({"countdown", "stopped"})

\* What is left of a queue was in it.
LEMMA TailKeys ==
  ASSUME NEW K, NEW s \in Seq(K), s # <<>>
  PROVE  /\ Tail(s) \in Seq(K)
         /\ Head(s) = s[1] /\ 1 \in DOMAIN s
         /\ \A n \in DOMAIN Tail(s) : n + 1 \in DOMAIN s /\ Tail(s)[n] = s[n + 1]
  OBVIOUS

LEMMA AppendKeys ==
  ASSUME NEW K, NEW s \in Seq(K), NEW k \in K
  PROVE  /\ Append(s, k) \in Seq(K)
         /\ \A n \in DOMAIN Append(s, k) : (n \in DOMAIN s /\ Append(s, k)[n] = s[n]) \/ Append(s, k)[n] = k
  OBVIOUS

\* InitUEFI_GOP only takes keys from the front of the queue, or all of them; it has
\* no more framebuffers than there are devices.
LEMMA GraphicsTakesKeys ==
  ASSUME step \in Graphics!Steps, Graphics!Loader \/ Graphics!Failure
  PROVE  /\ step' \in Graphics!Steps
         /\ typedCount' = typedCount
         /\ frameBuffers' = frameBuffers \/ frameBuffers' \in {1, NumHandles}
         /\ typed' = typed \/ typed' = <<>> \/ (typed # <<>> /\ typed' = Tail(typed))
<1> USE DEF Graphics!Steps, Graphics!Menus, Graphics!userVars, Graphics!menuVars, Graphics!graphicsVars,
        Graphics!FrameBufferCount
<1>1. CASE Graphics!ReadKey BY <1>1 DEF Graphics!ReadKey
<1>2. CASE Graphics!SecondPasses BY <1>2 DEF Graphics!SecondPasses
<1>3. CASE Graphics!ChooseOption BY <1>3 DEF Graphics!ChooseOption
<1>4. CASE Graphics!DefaultOption BY <1>4 DEF Graphics!DefaultOption
<1>5. CASE Graphics!ResetInput BY <1>5 DEF Graphics!ResetInput
<1>6. CASE Graphics!Setup BY <1>6 DEF Graphics!Setup
<1>7. CASE Graphics!ChooseDevice BY <1>7 DEF Graphics!ChooseDevice
<1>8. CASE Graphics!OpenMenu BY <1>8 DEF Graphics!OpenMenu
<1>9. CASE Graphics!OpenAutomatic BY <1>9 DEF Graphics!OpenAutomatic
<1>10. CASE Graphics!ChooseMode BY <1>10 DEF Graphics!ChooseMode
<1>11. CASE Graphics!DefaultMode BY <1>11 DEF Graphics!DefaultMode
<1>12. CASE Graphics!SetMode BY <1>12 DEF Graphics!SetMode
<1>13. CASE Graphics!Store BY <1>13 DEF Graphics!Store
<1>14. CASE Graphics!CleanUp BY <1>14 DEF Graphics!CleanUp
<1>15. CASE Graphics!ReadKeyFails BY <1>15 DEF Graphics!ReadKeyFails
<1>16. CASE Graphics!CleanUpFails BY <1>16 DEF Graphics!CleanUpFails
<1>17. CASE Graphics!ServiceFails BY <1>17 DEF Graphics!ServiceFails
<1> QED
  BY <1>1, <1>2, <1>3, <1>4, <1>5, <1>6, <1>7, <1>8, <1>9, <1>10, <1>11, <1>12, <1>13, <1>14,
     <1>15, <1>16, <1>17 DEF Graphics!Loader, Graphics!Failure, Graphics!TimeIsUp

LEMMA InitKeys == Init => KeysInv
<1> SUFFICES ASSUME Init PROVE KeysInv
  OBVIOUS
<1>1. typed = <<>> /\ typedCount = 0 /\ step \in Graphics!Steps
  BY DEF Init, Graphics!Init, Graphics!Steps, Graphics!Menus
<1>2. frameBuffers = 0
  BY DEF Init, Graphics!Init
<1> QED
  BY <1>1, <1>2, StartupAssumption
     DEF Graphics!GraphicsAssumption, Init, KeysInv, TypeOK, Phases, Pauses, GoTimePauses, InfoPauses,
         WithGoTime, InfoInOrder, TypedOnlyAt, TypedNotAt

\* A step of InitUEFI_GOP leaves fewer of the keys that were waiting.
LEMMA GraphicsKeys ==
  ASSUME KeysInv, phase = "graphics", Graphics!Loader \/ Graphics!Failure, UNCHANGED mainVars
  PROVE  KeysInv'
<1> DEFINE Keys == [code : KeyCodes, at : Phases \cup Graphics!Steps]
<1>1. /\ step' \in Graphics!Steps
      /\ typedCount' = typedCount
      /\ typed' = typed \/ typed' = <<>> \/ (typed # <<>> /\ typed' = Tail(typed))
  BY GraphicsTakesKeys DEF KeysInv
<1>2. phase' = phase /\ seconds' = seconds /\ keywait' = keywait /\ debug' = debug /\ shown' = shown
  BY DEF mainVars, goTimeVars
<1>3. typed \in Seq(Keys)
  BY DEF KeysInv, TypeOK
<1>4. typed' \in Seq(Keys) /\ \A n \in DOMAIN typed' : \E m \in DOMAIN typed : typed'[n] = typed[m]
  <2>1. CASE typed' = typed BY <2>1, <1>3
  <2>2. CASE typed' = <<>> BY <2>2
  <2>3. CASE typed # <<>> /\ typed' = Tail(typed) BY <2>3, <1>3, TailKeys
  <2> QED BY <1>1, <2>1, <2>2, <2>3
<1>5. TypeOK'
  BY <1>1, <1>2, <1>4 DEF KeysInv, TypeOK
<1>6. keywait # "poll"
  BY DEF KeysInv, Pauses, GoTimePauses, InfoPauses
<1>7. (phase \in {"info", "graphics"} /\ seconds > 0 /\ keywait # "failed"
        => TypedNotAt({"countdown", "stopped"}))'
  BY <1>2, <1>4 DEF KeysInv, TypedNotAt
<1>8. InfoInOrder'
  <2>1. NumHandles \in Nat \ {0}
    BY StartupAssumption DEF Graphics!GraphicsAssumption
  <2> QED BY <1>1, <1>2, <2>1, GraphicsTakesKeys DEF KeysInv, InfoInOrder, WithGoTime, GoTimePauses, InfoPauses
<1> QED BY <1>1, <1>2, <1>5, <1>6, <1>7, <1>8 DEF KeysInv

\* A key typed is of the prompt that is on the screen.
LEMMA TypingKeys ==
  ASSUME KeysInv, NEW k \in KeyCodes, Types(k)
  PROVE  KeysInv'
<1> DEFINE Keys == [code : KeyCodes, at : Phases \cup Graphics!Steps]
           new == [code |-> k, at |-> IF phase = "graphics" THEN step ELSE phase]
<1>1. /\ typed' = Append(typed, new)
      /\ typedCount < MaxTyped /\ typedCount' = typedCount + 1
      /\ phase' = phase /\ seconds' = seconds /\ keywait' = keywait /\ step' = step
      /\ debug' = debug /\ shown' = shown /\ frameBuffers' = frameBuffers
  BY DEF Types, mainVars, goTimeVars, setupVars
<1>2. typed \in Seq(Keys) /\ new \in Keys
  BY DEF KeysInv, TypeOK
<1> HIDE DEF new
<1>3. /\ typed' \in Seq(Keys)
      /\ \A n \in DOMAIN typed' : (n \in DOMAIN typed /\ typed'[n] = typed[n]) \/ typed'[n] = new
  BY <1>1, <1>2, AppendKeys
<1>4. TypeOK'
  BY <1>1, <1>3, StartupAssumption DEF Graphics!GraphicsAssumption, KeysInv, TypeOK
<1>5. (keywait = "poll" => TypedOnlyAt({phase}))'
  <2> SUFFICES ASSUME keywait = "poll", NEW n \in DOMAIN typed' PROVE typed'[n].at = phase
    BY <1>1 DEF TypedOnlyAt
  <2>1. new.at = phase BY DEF new, KeysInv, Pauses, GoTimePauses, InfoPauses
  <2> QED BY <2>1, <1>3 DEF KeysInv, TypedOnlyAt
<1>6. (phase \in {"info", "graphics"} /\ seconds > 0 /\ keywait # "failed"
        => TypedNotAt({"countdown", "stopped"}))'
  <2> SUFFICES ASSUME phase \in {"info", "graphics"}, seconds > 0, keywait # "failed",
                      NEW n \in DOMAIN typed'
               PROVE  typed'[n].at \notin {"countdown", "stopped"}
    BY <1>1 DEF TypedNotAt
  <2>1. new.at \notin {"countdown", "stopped"}
    BY DEF new, KeysInv, Graphics!Steps, Graphics!Menus
  <2> QED BY <2>1, <1>3 DEF KeysInv, TypedNotAt
<1>7. InfoInOrder'
  BY <1>1 DEF KeysInv, InfoInOrder
<1> QED BY <1>1, <1>4, <1>5, <1>6, <1>7 DEF KeysInv

LEMMA StepKeys == KeysInv /\ [Next]_vars => KeysInv'
<1> SUFFICES ASSUME KeysInv, [Next]_vars PROVE KeysInv'
  OBVIOUS
<1> DEFINE Keys == [code : KeyCodes, at : Phases \cup Graphics!Steps]
<1>0. typed \in Seq(Keys) /\ seconds \in Nat /\ <<>> \in Seq(Keys)
  BY StartupAssumption DEF KeysInv, TypeOK
<1>t. typed # <<>> => /\ Tail(typed) \in Seq(Keys)
                      /\ \A n \in DOMAIN Tail(typed) : n + 1 \in DOMAIN typed /\ Tail(typed)[n] = typed[n + 1]
  BY <1>0, TailKeys
<1>n. NumHandles \in Nat
  BY StartupAssumption DEF Graphics!GraphicsAssumption
<1> USE StartupAssumption, <1>n
    DEF KeysInv, TypeOK, InfoInOrder, Pauses, GoTimePauses, InfoPauses, WithGoTime, Phases, TypedOnlyAt,
        TypedNotAt, setupVars, consoleVars, mainVars, goTimeVars
<1>1. CASE AskForKey BY <1>1, <1>0 DEF AskForKey
<1>2. CASE PollKey BY <1>2, <1>t DEF PollKey
<1>3. CASE PollFails BY <1>3, <1>0 DEF PollFails
<1>4. CASE EndPause BY <1>4, <1>0 DEF EndPause, PauseIsOver, After
<1>5. CASE KeywaitFails BY <1>5, <1>0 DEF KeywaitFails, PauseIsOver, After
<1>6. CASE Begin BY <1>6, <1>0 DEF Begin
<1>7. CASE SkipCountdown BY <1>7, <1>t DEF SkipCountdown, Pause
<1>8. CASE SecondPasses BY <1>8, <1>0 DEF SecondPasses
<1>9. CASE EndCountdown BY <1>9, <1>0 DEF EndCountdown
<1>10. CASE ResetInput BY <1>10, <1>0 DEF ResetInput
<1>11. CASE ShowInfo BY <1>11, <1>0 DEF ShowInfo
<1>12. CASE EndGraphics BY <1>12, <1>0 DEF EndGraphics, Pause
<1>13. CASE RunKernel \/ GoTimeReturns BY <1>13, <1>0 DEF RunKernel, GoTimeReturns, Pause
<1>14. CASE ShowKernelInfo \/ PauseInGoTime
  BY <1>14, <1>0 DEF ShowKernelInfo, InfoIsOver, PauseOf, PauseInGoTime, Pause
<1>15. CASE ServiceFails BY <1>15, <1>0 DEF ServiceFails
<1>16. CASE SetUpGraphics \/ GraphicsFails
  BY <1>16, GraphicsKeys DEF SetUpGraphics, GraphicsFails
<1>17. CASE \E k \in KeyCodes : Types(k) BY <1>17, TypingKeys
<1>18. CASE UNCHANGED vars BY <1>18, <1>0 DEF vars
<1> QED
  BY <1>1, <1>2, <1>3, <1>4, <1>5, <1>6, <1>7, <1>8, <1>9, <1>10, <1>11, <1>12, <1>13, <1>14, <1>15,
     <1>16, <1>17, <1>18 DEF Next, Loader, Failure, User

LEMMA KeysAreKnown == Spec => []KeysInv
BY InitKeys, StepKeys, PTL DEF Spec

\* Every variable of efi_main keeps to its type, and so does the queue of keys.
THEOREM StartupTypes == Spec => []TypeOK
<1>1. KeysInv => TypeOK BY DEF KeysInv
<1> QED BY <1>1, KeysAreKnown, PTL

\* Only from a queue that has a first key can one be read.
LEMMA KeyThere ==
  ASSUME KeysInv, KeysInv', Reads
  PROVE  1 \in DOMAIN typed /\ Head(typed) = typed[1]
<1> DEFINE Keys == [code : KeyCodes, at : Phases \cup Graphics!Steps]
<1>1. typed \in Seq(Keys) /\ typed' \in Seq(Keys)
  BY DEF KeysInv, TypeOK
<1>2. typed # <<>>
  BY <1>1 DEF Reads
<1> QED BY <1>1, <1>2, TailKeys

\* A pause is ended only by a key typed at that pause, whatever was typed
\* before it and whichever calls failed.
THEOREM PausesAnswered == Spec => PauseIsAnswered
<1>1. KeysInv /\ KeysInv' /\ [Next]_vars => [keywait = "poll" /\ Reads => Head(typed).at = phase]_vars
  <2> SUFFICES ASSUME KeysInv, KeysInv', keywait = "poll", Reads PROVE Head(typed).at = phase
    OBVIOUS
  <2>1. 1 \in DOMAIN typed /\ Head(typed) = typed[1]
    BY KeyThere
  <2> QED BY <2>1 DEF KeysInv, TypedOnlyAt
<1> QED BY <1>1, KeysAreKnown, PTL DEF Spec, PauseIsAnswered

\* A key typed ahead at the countdown, or while it was stopped, answers no menu
\* of the graphics set-up once the countdown was ended by a key, unless Keywait
\* failed to reset the console.
THEOREM CountdownKeysSpent == Spec => NoKeyFromCountdown
<1> DEFINE MenuKey == phase = "graphics" /\ step \in Graphics!Menus /\ seconds > 0 /\ keywait # "failed" /\ Reads
<1>1. KeysInv /\ KeysInv' /\ [Next]_vars
        => [MenuKey => Head(typed).at \notin {"countdown", "stopped"}]_vars
  <2> SUFFICES ASSUME KeysInv, KeysInv', MenuKey PROVE Head(typed).at \notin {"countdown", "stopped"}
    OBVIOUS
  <2>1. 1 \in DOMAIN typed /\ Head(typed) = typed[1]
    BY KeyThere
  <2> QED BY <2>1 DEF KeysInv, TypedNotAt
<1> QED BY <1>1, KeysAreKnown, PTL DEF Spec, NoKeyFromCountdown

-----------------------------------------------------------------------------
(* The graphics set-up as a part of efi_main.                              *)

\* What is proved of InitUEFI_GOP holds of it here.
Setup == INSTANCE GraphicsSetupProofs WITH Callers <- Phases

LEMMA SetupAssumption == Setup!GraphicsAssumption
BY StartupAssumption DEF Graphics!GraphicsAssumption, Setup!GraphicsAssumption, Graphics!Device, Setup!Device

\* Both instances are of one module.
LEMMA SameSteps ==
  ASSUME Graphics!Loader \/ Graphics!Failure
  PROVE  Setup!Next
<1> USE DEF Setup!Next, Setup!Loader, Setup!Failure,
    Graphics!userVars, Setup!userVars, Graphics!menuVars, Setup!menuVars,
    Graphics!graphicsVars, Setup!graphicsVars,
    Graphics!Menus, Setup!Menus, Graphics!Single, Setup!Single, Graphics!NoKey, Setup!NoKey,
    Graphics!HasTimer, Setup!HasTimer, Graphics!Offered, Setup!Offered
<1>0. Graphics!Limit = Setup!Limit
  BY DEF Graphics!Limit, Setup!Limit
<1>1. CASE Graphics!ReadKey
  BY <1>0, <1>1 DEF Graphics!ReadKey, Setup!ReadKey, Graphics!Dot, Setup!Dot
<1>2. CASE Graphics!SecondPasses
  BY <1>0, <1>2 DEF Graphics!SecondPasses, Setup!SecondPasses
<1>3. CASE Graphics!TimeIsUp
  BY <1>0, <1>3 DEF Graphics!TimeIsUp, Setup!TimeIsUp, Graphics!DefaultOption, Setup!DefaultOption,
     Graphics!DefaultMode, Setup!DefaultMode
<1>4. CASE Graphics!ChooseOption \/ Graphics!ChooseDevice \/ Graphics!ChooseMode
  BY <1>0, <1>4 DEF Graphics!ChooseOption, Setup!ChooseOption, Graphics!ChooseDevice, Setup!ChooseDevice,
     Graphics!ChooseMode, Setup!ChooseMode
<1>5. CASE Graphics!ResetInput \/ Graphics!Setup
  BY <1>5 DEF Graphics!ResetInput, Setup!ResetInput, Graphics!Setup, Setup!Setup,
     Graphics!FrameBufferCount, Setup!FrameBufferCount, Graphics!ForOne, Setup!ForOne,
     Graphics!GpuArrayPool, Setup!GpuArrayPool
<1>6. CASE Graphics!OpenMenu \/ Graphics!OpenAutomatic
  BY <1>6 DEF Graphics!OpenMenu, Setup!OpenMenu, Graphics!OpenAutomatic, Setup!OpenAutomatic,
     Graphics!HasMenu, Setup!HasMenu, Graphics!AutomaticModes, Setup!AutomaticModes
<1>7. CASE Graphics!SetMode \/ Graphics!Store
  BY <1>7 DEF Graphics!SetMode, Setup!SetMode, Graphics!Store, Setup!Store, Graphics!Index, Setup!Index,
     Graphics!IsLast, Setup!IsLast, Graphics!InfoOf, Setup!InfoOf, Graphics!ForOne, Setup!ForOne
<1>8. CASE Graphics!CleanUp \/ Graphics!CleanUpFails
  BY <1>8 DEF Graphics!CleanUp, Setup!CleanUp, Graphics!CleanUpFails, Setup!CleanUpFails,
     Graphics!Names, Setup!Names, Graphics!Buffers, Setup!Buffers, Graphics!NameOf, Setup!NameOf,
     Graphics!Device, Setup!Device
<1>9. CASE Graphics!ReadKeyFails
  BY <1>0, <1>9 DEF Graphics!ReadKeyFails, Setup!ReadKeyFails
<1>10. CASE Graphics!ServiceFails
  BY <1>10 DEF Graphics!ServiceFails, Setup!ServiceFails,
     Graphics!FrameBufferCount, Setup!FrameBufferCount, Graphics!ForOne, Setup!ForOne
<1> QED
  BY <1>1, <1>2, <1>3, <1>4, <1>5, <1>6, <1>7, <1>8, <1>9, <1>10 DEF Graphics!Loader, Graphics!Failure

\* The array and the pools are as InitUEFI_GOP left them, and only where it has
\* succeeded does efi_main go on to the kernel.
ReadyInv ==
  /\ KeysInv /\ Setup!SetupInv
  /\ phase \in WithGoTime => step = "done"

LEMMA InitReady == Init => ReadyInv
<1> SUFFICES ASSUME Init PROVE ReadyInv
  OBVIOUS
<1>1. Setup!Init
  BY DEF Init, Graphics!Init, Setup!Init, Graphics!Single, Setup!Single, Graphics!NoKey, Setup!NoKey,
     Graphics!Device, Setup!Device, Graphics!Unset, Setup!Unset, Graphics!NoGpu, Setup!NoGpu,
     Graphics!Names, Setup!Names, Graphics!NameOf, Setup!NameOf, Graphics!Buffers, Setup!Buffers
<1>2. Setup!SetupInv
  BY <1>1, SetupAssumption, Setup!InitArray
<1> QED BY <1>2, InitKeys DEF Init, ReadyInv, WithGoTime, GoTimePauses, InfoPauses

LEMMA StepReady == ReadyInv /\ [Next]_vars => ReadyInv'
<1> SUFFICES ASSUME ReadyInv, [Next]_vars PROVE ReadyInv'
  OBVIOUS
<1>1. KeysInv'
  BY StepKeys DEF ReadyInv
<1>2. CASE SetUpGraphics \/ GraphicsFails
  <2>1. (Graphics!Loader \/ Graphics!Failure) /\ phase = "graphics" /\ phase' = phase
    BY <1>2 DEF SetUpGraphics, GraphicsFails, mainVars
  <2>2. Setup!Next
    BY <2>1, SameSteps
  <2>3. Setup!SetupInv'
    BY <2>2, SetupAssumption, Setup!StepSetup DEF ReadyInv
  <2> QED BY <1>1, <2>1, <2>3 DEF ReadyInv, WithGoTime, GoTimePauses, InfoPauses
<1>3. CASE ~(SetUpGraphics \/ GraphicsFails)
  <2>1. UNCHANGED setupVars
    BY <1>3 DEF Next, Loader, Failure, User, Types, vars, AskForKey, PollKey, EndPause, KeywaitFails,
       PollFails, Begin, SkipCountdown, SecondPasses, EndCountdown, ResetInput, ShowInfo, EndGraphics,
       ShowKernelInfo, PauseInGoTime, RunKernel, GoTimeReturns, ServiceFails
  <2>2. phase' \in WithGoTime => phase \in WithGoTime \/ step = "done"
    <3> USE DEF WithGoTime, GoTimePauses, InfoPauses
    <3>1. CASE User \/ UNCHANGED vars
      BY <3>1 DEF User, Types, vars, mainVars
    <3>2. CASE AskForKey \/ PollKey \/ EndPause \/ KeywaitFails \/ PollFails
      BY <3>2 DEF AskForKey, PollKey, EndPause, KeywaitFails, PollFails, PauseIsOver, After
    <3>3. CASE Begin \/ SkipCountdown \/ SecondPasses \/ EndCountdown \/ ResetInput \/ ShowInfo
      BY <3>3 DEF Begin, SkipCountdown, SecondPasses, EndCountdown, ResetInput, ShowInfo, Pause
    <3>4. CASE ShowKernelInfo \/ PauseInGoTime \/ RunKernel \/ GoTimeReturns
      BY <3>4 DEF ShowKernelInfo, PauseInGoTime, RunKernel, GoTimeReturns
    <3>5. CASE EndGraphics \/ ServiceFails
      BY <3>5 DEF EndGraphics, ServiceFails, Pause
    <3> QED BY <1>3, <3>1, <3>2, <3>3, <3>4, <3>5 DEF Next, Loader, Failure
  <2>3. typed' \in Seq(Setup!Typed) /\ typedCount' \in 0 .. MaxTyped
    BY <1>1 DEF KeysInv, TypeOK, Setup!Typed, Graphics!Steps, Setup!Steps, Graphics!Menus, Setup!Menus
  <2>4. UNCHANGED <<step, Setup!menuVars, Setup!graphicsVars>>
    BY <2>1 DEF setupVars, Setup!menuVars, Setup!graphicsVars
  <2>5. Setup!SetupInv'
    BY <2>3, <2>4, SetupAssumption, Setup!ConsoleStep DEF ReadyInv
  <2> QED BY <1>1, <2>2, <2>4, <2>5 DEF ReadyInv
<1> QED BY <1>2, <1>3

\* Whatever is typed and whichever calls fail, GoTime and the kernel only run with a
\* complete and true array of framebuffers, and with no pool of the set-up's left.
THEOREM KernelGetsGraphics == Spec => []KernelHasGraphics
<1>1. Spec => []ReadyInv
  BY InitReady, StepReady, PTL DEF Spec
<1>2. ReadyInv => KernelHasGraphics
  <2> SUFFICES ASSUME ReadyInv, phase \in WithGoTime PROVE KernelHasGraphics
    BY DEF KernelHasGraphics
  <2>1. Setup!ArrayIsComplete /\ Setup!PoolIsReturned /\ Setup!EntriesAreReal /\ step = "done"
    BY SetupAssumption, Setup!InvGivesProperties DEF ReadyInv, Setup!SetupInv
  <2>2. frameBuffers \in 0 .. NumHandles /\ NumHandles \in Nat
    BY SetupAssumption DEF ReadyInv, Setup!SetupInv, Setup!TypeOK, Setup!GraphicsAssumption
  <2>3. Graphics!ArrayIsComplete /\ Graphics!PoolIsReturned
    BY <2>1 DEF Graphics!ArrayIsComplete, Setup!ArrayIsComplete, Graphics!PoolIsReturned, Setup!PoolIsReturned,
       Graphics!NoGpu, Setup!NoGpu, Graphics!Device, Setup!Device, Graphics!InfoOf, Setup!InfoOf,
       Graphics!GpuArrayPool, Setup!GpuArrayPool
  <2>4. \A i \in 0 .. frameBuffers - 1 : i \in Setup!Device /\ gpuArray[i].gpu # Setup!NoGpu
    BY <2>1, <2>2 DEF Setup!Device, Setup!ArrayIsComplete
  <2> QED BY <2>1, <2>3, <2>4 DEF Setup!EntriesAreReal, KernelHasGraphics
<1> QED BY <1>1, <1>2, PTL

-----------------------------------------------------------------------------
(* Nobody at the keyboard.                                                 *)

\* The defaults of the set-up, and that only a failing call leads away from it.
UntouchedInv ==
  /\ ReadyInv /\ Setup!DefaultsAreTaken
  /\ ~ServicesMayFail /\ ~SpuriousWakeups => step # "returned"
  /\ typedCount = 0 /\ ~ServicesMayFail /\ ~SpuriousWakeups =>
       /\ phase \notin {"stopped", "graphicsFailed", "exited", "reset"}
       /\ keywait # "clear"
       /\ debug => shown = 0 /\ phase \notin {"gpuInfo", "lastInfo", "kernel"}

LEMMA InitUntouched == Init => UntouchedInv
<1> SUFFICES ASSUME Init PROVE UntouchedInv
  OBVIOUS
<1>1. Setup!Init
  BY DEF Init, Graphics!Init, Setup!Init, Graphics!Single, Setup!Single, Graphics!NoKey, Setup!NoKey,
     Graphics!Device, Setup!Device, Graphics!Unset, Setup!Unset, Graphics!NoGpu, Setup!NoGpu,
     Graphics!Names, Setup!Names, Graphics!NameOf, Setup!NameOf, Graphics!Buffers, Setup!Buffers
<1>2. Setup!DefaultsAreTaken
  BY <1>1, SetupAssumption, Setup!InitDefaults
<1> QED BY <1>2, InitReady DEF Init, Graphics!Init, UntouchedInv

\* InitUEFI_GOP returns an error only when a call of its own fails.
LEMMA OnlyFailuresReturn ==
  ASSUME Graphics!Loader \/ Graphics!Failure, ~ServicesMayFail, ~SpuriousWakeups, step # "returned"
  PROVE  step' # "returned" /\ typedCount' = typedCount
<1> USE DEF Graphics!userVars, Graphics!menuVars, Graphics!graphicsVars
<1>1. CASE Graphics!Failure
  BY <1>1 DEF Graphics!Failure, Graphics!ReadKeyFails, Graphics!CleanUpFails, Graphics!ServiceFails
<1>2. CASE Graphics!Loader
  BY <1>2 DEF Graphics!Loader, Graphics!ReadKey, Graphics!SecondPasses, Graphics!TimeIsUp,
     Graphics!DefaultOption, Graphics!DefaultMode, Graphics!ChooseOption, Graphics!ResetInput,
     Graphics!Setup, Graphics!ChooseDevice, Graphics!OpenMenu, Graphics!OpenAutomatic,
     Graphics!ChooseMode, Graphics!SetMode, Graphics!Store, Graphics!CleanUp
<1> QED BY <1>1, <1>2

\* The steps of efi_main and the user's.
LEMMA StepElsewhere ==
  ASSUME UntouchedInv, [Next]_vars, ~(SetUpGraphics \/ GraphicsFails)
  PROVE  /\ UNCHANGED setupVars
         /\ typedCount' = 0 => typedCount = 0 /\ typed' = typed
         /\ (typedCount = 0 /\ ~ServicesMayFail /\ ~SpuriousWakeups =>
               /\ phase \notin {"stopped", "graphicsFailed", "exited", "reset"}
               /\ keywait # "clear"
               /\ debug => shown = 0 /\ phase \notin {"gpuInfo", "lastInfo", "kernel"})'
<1> DEFINE Holds == typedCount = 0 /\ ~ServicesMayFail /\ ~SpuriousWakeups =>
             /\ phase \notin {"stopped", "graphicsFailed", "exited", "reset"}
             /\ keywait # "clear"
             /\ debug => shown = 0 /\ phase \notin {"gpuInfo", "lastInfo", "kernel"}
<1>0. /\ typedCount \in Nat
      /\ typedCount = 0 => typed = <<>>
      /\ phase \in Pauses <=> keywait \in {"ask", "poll", "clear"}
      /\ ~ServicesMayFail /\ ~SpuriousWakeups => step # "returned"
      /\ frameBuffers \in Nat
      /\ Holds
  BY StartupAssumption
     DEF UntouchedInv, ReadyInv, KeysInv, TypeOK, InfoInOrder, Setup!DefaultsAreTaken, Graphics!GraphicsAssumption
<1> USE <1>0 DEF Pauses, GoTimePauses, InfoPauses, mainVars, goTimeVars, consoleVars
<1>1. CASE User
  BY <1>1 DEF User, Types
<1>2. CASE AskForKey \/ PollKey \/ EndPause \/ KeywaitFails \/ PollFails
  BY <1>2 DEF AskForKey, PollKey, EndPause, KeywaitFails, PollFails, PauseIsOver, After
<1>3. CASE Begin \/ SkipCountdown \/ SecondPasses \/ EndCountdown \/ ResetInput \/ ShowInfo
  BY <1>3 DEF Begin, SkipCountdown, SecondPasses, EndCountdown, ResetInput, ShowInfo, Pause
<1>4. CASE EndGraphics \/ ShowKernelInfo \/ PauseInGoTime \/ RunKernel \/ GoTimeReturns \/ ServiceFails
  BY <1>4 DEF EndGraphics, ShowKernelInfo, PauseOf, InfoIsOver, PauseInGoTime, RunKernel, GoTimeReturns,
     ServiceFails, Pause
<1>5. CASE UNCHANGED vars
  BY <1>5 DEF vars
<1> QED BY <1>1, <1>2, <1>3, <1>4, <1>5 DEF Next, Loader, Failure

LEMMA StepUntouched == UntouchedInv /\ [Next]_vars => UntouchedInv'
<1> SUFFICES ASSUME UntouchedInv, [Next]_vars PROVE UntouchedInv'
  OBVIOUS
<1>1. ReadyInv'
  BY StepReady DEF UntouchedInv
<1>2. CASE SetUpGraphics \/ GraphicsFails
  <2>1. (Graphics!Loader \/ Graphics!Failure) /\ UNCHANGED <<phase, keywait, debug, shown>>
    BY <1>2 DEF SetUpGraphics, GraphicsFails, mainVars, goTimeVars
  <2>2. Setup!DefaultsAreTaken'
    BY <2>1, SameSteps, SetupAssumption, Setup!StepDefaults DEF UntouchedInv, ReadyInv
  <2>3. ~ServicesMayFail /\ ~SpuriousWakeups => step' # "returned" /\ typedCount' = typedCount
    BY <2>1, OnlyFailuresReturn DEF UntouchedInv
  <2> QED BY <1>1, <2>1, <2>2, <2>3 DEF UntouchedInv
<1>3. CASE ~(SetUpGraphics \/ GraphicsFails)
  <2>1. UNCHANGED <<step, Setup!menuVars, Setup!graphicsVars>>
    BY <1>3, StepElsewhere DEF setupVars, Setup!menuVars, Setup!graphicsVars
  <2>2. Setup!DefaultsAreTaken'
    BY <1>3, <2>1, StepElsewhere, SetupAssumption, Setup!ConsoleDefaults DEF UntouchedInv
  <2> QED BY <1>1, <1>3, <2>1, <2>2, StepElsewhere DEF UntouchedInv
<1> QED BY <1>2, <1>3

\* A machine nobody touches comes to GoTime and to the kernel in its default modes,
\* or not at all.  Unless a call fails it stops nowhere before GoTime, and in the
\* build of this repository it does not come to the kernel: GoTime waits at the
\* first thing it shows.
THEOREM UntouchedBoots == Spec => []UntouchedBoot
<1>1. Spec => []UntouchedInv
  BY InitUntouched, StepUntouched, PTL DEF Spec
<1>2. UntouchedInv => UntouchedBoot
  <2> SUFFICES ASSUME UntouchedInv, typedCount = 0 PROVE UntouchedBoot
    BY DEF UntouchedBoot
  <2>1. Setup!UntouchedIsDefault
    BY SetupAssumption, Setup!DefaultsReached DEF UntouchedInv, ReadyInv
  <2> QED BY <2>1 DEF UntouchedInv, ReadyInv, UntouchedBoot, WithGoTime, Setup!UntouchedIsDefault,
                     Graphics!Device, Setup!Device
<1> QED BY <1>1, <1>2, PTL
=============================================================================
