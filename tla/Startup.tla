------------------------------ MODULE Startup ------------------------------
(***************************************************************************)
(* Bootloader.c: efi_main, which counts down, sets up the graphics and     *)
(* loads the kernel, and Keywait, which pauses in between.  Of GoTime (see *)
(* KernelText, KernelAlloc, ImageLoad and Handoff) only its pauses are     *)
(* here, and whether it returns.                                           *)
(*                                                                         *)
(* The countdown, the menus of GraphicsSetup and the pauses read from one  *)
(* console.  What has been typed stays in its buffer until it is read or   *)
(* the buffer is reset, whoever it was meant for.                          *)
(***************************************************************************)
EXTENDS Integers, Sequences

CONSTANTS
  NumHandles, MaxMode, Mode1024, InitialModes, IsApple, TimeoutSeconds,
  KeyCodes, MaxTyped, SpuriousWakeups, ServicesMayFail,   \* as in GraphicsSetup
  CountdownSeconds,                                       \* efi_main's timeout_seconds
  Builds     \* is FINAL_LOADER_DEBUG_ENABLED defined? (it is, at Bootloader.h:46)

VARIABLES
  step, option, dev, mode, key, timeout, setOs, typed, typedCount,
  current, frameBuffers, gpuArray, pool,   \* InitUEFI_GOP's, and the console
  phase,     \* where efi_main is
  seconds,   \* timeout_seconds
  keywait,   \* where Keywait is, or how it last returned
  debug,     \* is FINAL_LOADER_DEBUG_ENABLED defined in this build?
  shown      \* of what GoTime shows, how much the user has been through

consoleVars == <<typed, typedCount>>
setupVars == <<step, option, dev, mode, key, timeout, setOs, current, frameBuffers, gpuArray, pool>>
goTimeVars == <<debug, shown>>
mainVars == <<phase, seconds, keywait, goTimeVars>>
vars == <<setupVars, consoleVars, mainVars>>

LetterS == 67   \* L's' - 0x30

\* GoTime pauses at what it shows of the kernel, of each framebuffer and of the
\* hand-off, and elsewhere, at errors mostly.
InfoPauses == {"imageInfo", "gpuInfo", "lastInfo"}
GoTimePauses == InfoPauses \cup {"goTimePause"}

\* Keywait is called when the countdown is stopped, InitUEFI_GOP has failed or
\* GoTime has returned, and by GoTime.
Pauses == {"stopped", "graphicsFailed", "goTimeReturned"} \cup GoTimePauses
Phases == Pauses \cup {"begin", "countdown", "reset", "info", "graphics", "goTime", "exited", "kernel"}

Graphics == INSTANCE GraphicsSetup WITH Callers <- Phases

ASSUME StartupAssumption ==
  /\ CountdownSeconds \in Nat \ {0}
  /\ Builds \subseteq BOOLEAN /\ Builds # {}
  /\ Graphics!GraphicsAssumption

TypeOK ==
  /\ phase \in Phases
  /\ seconds \in 0 .. CountdownSeconds
  /\ keywait \in {"none", "ask", "poll", "clear", "done", "failed"}
  /\ typed \in Seq([code : KeyCodes, at : Phases \cup Graphics!Steps])
  /\ typedCount \in 0 .. MaxTyped
  /\ debug \in Builds
  /\ shown \in 0 .. NumHandles + 2

Init ==
  /\ Graphics!Init
  /\ phase = "begin"
  /\ seconds = CountdownSeconds
  /\ keywait = "none"
  /\ debug \in Builds
  /\ shown = 0

-----------------------------------------------------------------------------
(* Keywait.                                                                *)

\* Where efi_main or GoTime goes on after a pause; no one looks at Keywait's status.
After ==
  IF phase = "stopped" THEN "info" ELSE IF phase \in GoTimePauses THEN "goTime" ELSE "exited"

PauseIsOver ==
  /\ phase' = After
  /\ shown' = IF phase \in InfoPauses THEN shown + 1 ELSE shown
  /\ UNCHANGED debug

\* (A name with Bug in it is a mutant of the definition after it: what the
\* code could have done wrong, for the runs to notice.)
AskForKeyBugNoReset ==
  /\ phase \in Pauses /\ keywait = "ask"
  /\ keywait' = "poll"
  /\ UNCHANGED <<phase, seconds, goTimeVars, setupVars, consoleVars>>

\* OutputString, and Reset to drop what has been typed before.
AskForKey ==
  /\ phase \in Pauses /\ keywait = "ask"
  /\ typed' = <<>>
  /\ keywait' = "poll"
  /\ UNCHANGED <<phase, seconds, goTimeVars, typedCount, setupVars>>

PollKey ==
  /\ phase \in Pauses /\ keywait = "poll"
  /\ typed # <<>>
  /\ typed' = Tail(typed)
  /\ keywait' = "clear"
  /\ UNCHANGED <<phase, seconds, goTimeVars, typedCount, setupVars>>

EndPauseBugNoReset ==
  /\ phase \in Pauses /\ keywait = "clear"
  /\ keywait' = "done"
  /\ PauseIsOver
  /\ UNCHANGED <<seconds, consoleVars, setupVars>>

\* Reset again: "this is just a pause".
EndPause ==
  /\ phase \in Pauses /\ keywait = "clear"
  /\ typed' = <<>>
  /\ keywait' = "done"
  /\ PauseIsOver
  /\ UNCHANGED <<seconds, typedCount, setupVars>>

\* OutputString or one of the two Resets fails: that is the end of the pause.
KeywaitFails ==
  /\ phase \in Pauses /\ keywait \in {"ask", "clear"}
  /\ ServicesMayFail
  /\ keywait' = "failed"
  /\ PauseIsOver
  /\ UNCHANGED <<seconds, consoleVars, setupVars>>

\* ReadKeyStroke fails with another error than EFI_NOT_READY: no key.
PollFails ==
  /\ phase \in Pauses /\ keywait = "poll"
  /\ ServicesMayFail
  /\ keywait' = "clear"
  /\ UNCHANGED <<phase, seconds, goTimeVars, consoleVars, setupVars>>

Pause(p) == phase' = p /\ keywait' = "ask"

-----------------------------------------------------------------------------
(* efi_main.                                                               *)

\* GetTime, and what is printed first.
Begin ==
  /\ phase = "begin"
  /\ phase' = "countdown"
  /\ UNCHANGED <<seconds, goTimeVars, keywait, consoleVars, setupVars>>

\* Any key ends the countdown; 's' pauses.
SkipCountdown ==
  /\ phase = "countdown" /\ seconds > 0
  /\ typed # <<>>
  /\ typed' = Tail(typed)
  /\ IF Head(typed).code = LetterS THEN Pause("stopped") ELSE phase' = "reset" /\ UNCHANGED keywait
  /\ UNCHANGED <<seconds, goTimeVars, typedCount, setupVars>>

SecondPassesBugPastEnd ==
  /\ phase = "countdown"
  /\ typed = <<>>
  /\ seconds' = seconds - 1
  /\ UNCHANGED <<phase, keywait, goTimeVars, consoleVars, setupVars>>

\* WaitForSingleEvent returns EFI_TIMEOUT.
SecondPasses ==
  /\ phase = "countdown" /\ seconds > 0
  /\ typed = <<>>
  /\ seconds' = seconds - 1
  /\ UNCHANGED <<phase, keywait, goTimeVars, consoleVars, setupVars>>

EndCountdown ==
  /\ phase = "countdown" /\ seconds = 0
  /\ phase' = "info"
  /\ UNCHANGED <<seconds, goTimeVars, keywait, consoleVars, setupVars>>

ResetInput ==
  /\ phase = "reset"
  /\ typed' = <<>>
  /\ phase' = "info"
  /\ UNCHANGED <<seconds, goTimeVars, keywait, typedCount, setupVars>>

\* The tables are printed, and AllocatePool for Graphics.
ShowInfo ==
  /\ phase = "info"
  /\ phase' = "graphics"
  /\ UNCHANGED <<seconds, goTimeVars, keywait, consoleVars, setupVars>>

SetUpGraphics ==
  /\ phase = "graphics" /\ Graphics!Loader
  /\ UNCHANGED mainVars

GraphicsFails ==
  /\ phase = "graphics" /\ Graphics!Failure
  /\ UNCHANGED mainVars

EndGraphicsBugGoesOn ==
  /\ phase = "graphics" /\ step \in {"done", "returned"}
  /\ phase' = "goTime"
  /\ UNCHANGED <<seconds, goTimeVars, keywait, consoleVars, setupVars>>

EndGraphics ==
  /\ phase = "graphics" /\ step \in {"done", "returned"}
  /\ IF step = "done" THEN phase' = "goTime" /\ UNCHANGED keywait ELSE Pause("graphicsFailed")
  /\ UNCHANGED <<seconds, goTimeVars, consoleVars, setupVars>>

\* What is shown after so many pauses: the image, a framebuffer after the other,
\* and that boot services are about to be left.
PauseOf(n) == IF n = 0 THEN "imageInfo" ELSE IF n <= frameBuffers THEN "gpuInfo" ELSE "lastInfo"
InfoIsOver == debug => shown = frameBuffers + 2

ShowKernelInfo ==
  /\ phase = "goTime" /\ ~InfoIsOver
  /\ Pause(PauseOf(shown))
  /\ UNCHANGED <<seconds, goTimeVars, consoleVars, setupVars>>

\* The other pauses, before all that or after it: at a text file that is missing or
\* of another encoding (Loader.c:176, 280), at a DOS program (1232, 1235), at pools
\* that cannot be freed (1072, 1931, 1951, 2509, 2649) and, in the debug build, at a
\* refused ExitBootServices (2654).  Any number of them, in any build: what they
\* depend on is in other modules.
PauseInGoTime ==
  /\ phase = "goTime" /\ (shown = 0 \/ InfoIsOver)
  /\ Pause("goTimePause")
  /\ UNCHANGED <<seconds, goTimeVars, consoleVars, setupVars>>

\* GoTime ends in the kernel or returns.
RunKernel ==
  /\ phase = "goTime" /\ InfoIsOver
  /\ phase' = "kernel"
  /\ UNCHANGED <<seconds, goTimeVars, keywait, consoleVars, setupVars>>

\* Between the last framebuffer and the last pause only the pool for the loader
\* block can be what fails.
GoTimeReturns ==
  /\ phase = "goTime"
  /\ shown = 0 \/ InfoIsOver \/ (shown = frameBuffers + 1 /\ ServicesMayFail)
  /\ Pause("goTimeReturned")
  /\ UNCHANGED <<seconds, goTimeVars, consoleVars, setupVars>>

\* GetTime, ReadKeyStroke, Reset or AllocatePool fails: efi_main returns at
\* once, without a pause.
ServiceFails ==
  /\ \/ phase \in {"begin", "reset", "info"} /\ ServicesMayFail
     \/ phase = "countdown" /\ seconds > 0 /\ (SpuriousWakeups \/ ServicesMayFail)
  /\ phase' = "exited"
  /\ UNCHANGED <<seconds, goTimeVars, keywait, consoleVars, setupVars>>

\* The user, at any moment.
Types(k) ==
  /\ phase \notin {"exited", "kernel"}
  /\ typedCount < MaxTyped
  /\ typed' = Append(typed, [code |-> k, at |-> IF phase = "graphics" THEN step ELSE phase])
  /\ typedCount' = typedCount + 1
  /\ UNCHANGED <<mainVars, setupVars>>

Loader ==
  \/ AskForKey \/ PollKey \/ EndPause
  \/ Begin \/ SkipCountdown \/ SecondPasses \/ EndCountdown \/ ResetInput \/ ShowInfo
  \/ SetUpGraphics \/ EndGraphics
  \/ ShowKernelInfo \/ PauseInGoTime \/ RunKernel \/ GoTimeReturns

Failure == KeywaitFails \/ PollFails \/ GraphicsFails \/ ServiceFails

User == \E k \in KeyCodes : Types(k)

Next == Loader \/ Failure \/ User
Spec == Init /\ [][Next]_vars

\* As in GraphicsSetup: no call is obliged to fail, and the user to nothing.
FairSpec == Spec /\ WF_vars(Loader)
-----------------------------------------------------------------------------
(* Properties.                                                             *)

Reads == Len(typed') < Len(typed)

\* A pause is answered by a key typed at that pause ("Clear keystroke buffer"):
\* no error is passed by with a key meant for the countdown, for a menu or for a
\* pause of another kind.  (Those of one kind are not told apart.)
PauseIsAnswered ==
  [][keywait = "poll" /\ Reads => Head(typed).at = phase]_vars

\* When a key ends the countdown, the others typed meanwhile, or while it was
\* stopped, pick no option, device or mode.  (Unless Keywait could not reset the
\* console.  When the time runs out nothing is reset.)
NoKeyFromCountdown ==
  [][phase = "graphics" /\ step \in Graphics!Menus /\ seconds > 0 /\ keywait # "failed" /\ Reads
       => Head(typed).at \notin {"countdown", "stopped"}]_vars

\* Nothing but the whole graphics set-up leads to the kernel: GoTime and the
\* kernel have a true and complete array, whatever else was typed or failed
\* before.
WithGoTime == {"goTime", "kernel"} \cup GoTimePauses
KernelHasGraphics ==
  phase \in WithGoTime =>
    /\ step = "done" /\ Graphics!ArrayIsComplete /\ Graphics!PoolIsReturned
    /\ \A i \in 0 .. frameBuffers - 1 : gpuArray[i].mode = current[gpuArray[i].gpu]

\* The countdown and the timed menu are left once the user stops typing.
TimersEnd ==
  /\ phase = "countdown" ~> phase # "countdown"
  /\ phase = "graphics" ~> phase # "graphics"

\* With nobody at the keyboard, and nothing failing, every device comes to its
\* default mode and the kernel runs; but in the build of this repository it is
\* loaded only, and GoTime then waits for a key at the first thing it shows.
UnattendedBoot ==
  [](typed = <<>> /\ phase \notin {"exited", "graphicsFailed", "goTimeReturned", "goTimePause"})
    => <>(/\ phase = IF debug THEN "imageInfo" ELSE "kernel"
          /\ \A d \in Graphics!Device : current[d] = 0)

\* What UnattendedBoot says but for the time it takes: where no key has been
\* typed, GoTime and the kernel find every device in its default mode.  If no call
\* fails, no pause or error comes up before GoTime is called, and of what GoTime
\* shows nothing is passed by.
UntouchedBoot ==
  typedCount = 0 =>
    /\ phase \in WithGoTime => \A d \in Graphics!Device : current[d] = 0
    /\ ~ServicesMayFail /\ ~SpuriousWakeups =>
         /\ phase \notin {"stopped", "graphicsFailed", "exited"}
         /\ debug => phase \notin {"gpuInfo", "lastInfo", "kernel"}
=============================================================================
