---------------------------- MODULE KernelText ----------------------------
(***************************************************************************)
(* Loader.c, the beginning of GoTime: find Kernel64.txt beside the boot    *)
(* loader, read it, split it into the kernel's path and its command line,  *)
(* and open the kernel file.                                               *)
(*                                                                         *)
(* A text is a sequence of UTF-16 units; unit 1 is the byte order mark.    *)
(* The code counts units from 0: KernelcmdArray[i] is text[i + 1], and     *)
(* KernelPath[i - 1] is kernelPath[i].  Indices below are those of the     *)
(* code.                                                                   *)
(***************************************************************************)
EXTENDS Integers, Sequences, FiniteSetsExt

CONSTANTS
  Letters,         \* the units that names are made of
  Texts,           \* what Kernel64.txt may hold
  BootPaths,       \* the paths the boot loader may have been started from
  Kernels,         \* the paths of the files on the volume
  ServicesMayFail  \* may a firmware call fail?

Bom == "BOM"          \* UTF16_BOM_LE
Swapped == "swapped"  \* UTF16_BOM_BE
Space == "space"
LF == "LF"
CR == "CR"
Backslash == "backslash"
TxtFileName == "Kernel64.txt"
Nul == "NUL"
Garbage == "garbage"  \* a unit of a pool that nothing was written to

LineEnd == {LF, CR}
Unit == Letters \cup LineEnd \cup {Bom, Swapped, Space}
PathUnit == Letters \cup {Backslash, TxtFileName}

ASSUME KernelTextAssumption ==
  /\ Letters \cap {Bom, Swapped, Space, LF, CR, Backslash, TxtFileName, Nul, Garbage} = {}
  /\ Texts \subseteq Seq(Unit)
  /\ BootPaths \subseteq Seq(PathUnit) \ {<<>>}
  /\ ServicesMayFail \in BOOLEAN

VARIABLES
  step,        \* where GoTime is
  status,      \* GoTimeStatus, as an error or not
  bootPath,    \* BootFilePath
  txtPath,     \* TxtFilePath
  text,        \* KernelcmdArray
  lineLen,     \* FirstLineLength
  pathLen,     \* KernelPathLen
  cmdLen,      \* CmdlineLen
  kernelPath,  \* KernelPath
  cmdline,     \* Cmdline
  overrun,     \* has a copy gone past its pool?
  pool         \* pools allocated and not freed

vars == <<step, status, bootPath, txtPath, text, lineLen, pathLen, cmdLen,
          kernelPath, cmdline, overrun, pool>>
lengths == <<lineLen, pathLen, cmdLen>>
copies == <<kernelPath, cmdline, overrun>>

Steps == {"image", "root", "volume", "txtPath", "openTxt", "info", "read", "bom", "measure",
          "allocate", "copy", "free", "openKernel", "kernelInfo", "opened", "returned"}
TxtPools == {"TxtFilePath", "KernelcmdArray", "Txt_FileInfo"}
HandedPools == {"ESPRoot", "KernelPath", "Cmdline", "FileInfo"}
Pools == TxtPools \cup HandedPools \cup {"ESPRootTemp"}

TypeOK ==
  /\ step \in Steps
  /\ status \in {"success", "error"}
  /\ bootPath \in BootPaths
  /\ txtPath \in Seq(PathUnit)
  /\ text \in Seq(Unit)
  /\ lineLen \in Nat /\ pathLen \in Nat /\ cmdLen \in Nat
  /\ kernelPath \in Seq(Unit \cup {Nul, Garbage})
  /\ cmdline \in Seq(Unit)
  /\ overrun \in BOOLEAN
  /\ pool \subseteq Pools

Init ==
  /\ step = "image" /\ status = "success"
  /\ bootPath \in BootPaths
  /\ txtPath = <<>> /\ text = <<>>
  /\ lineLen = 0 /\ pathLen = 0 /\ cmdLen = 0
  /\ kernelPath = <<>> /\ cmdline = <<>>
  /\ overrun = FALSE
  /\ pool = {}

-----------------------------------------------------------------------------
(* Finding the file.                                                       *)

\* OpenProtocol on the boot loader's own image.
OpenImage ==
  /\ step = "image"
  /\ step' = "root"
  /\ UNCHANGED <<status, bootPath, txtPath, text, lengths, copies, pool>>

\* (A name with Bug in it is a mutant of the definition after it: what the
\* code could have done wrong, for the runs to notice.)
CopyRootBugKeepsTemp ==
  /\ step = "root"
  /\ pool' = pool \cup {"ESPRoot", "ESPRootTemp"}
  /\ step' = "volume"
  /\ UNCHANGED <<status, bootPath, txtPath, text, lengths, copies>>

\* DevicePathToStr, then a copy in memory of a known type.
CopyRoot ==
  /\ step = "root"
  /\ pool' = pool \cup {"ESPRoot"}
  /\ step' = "volume"
  /\ UNCHANGED <<status, bootPath, txtPath, text, lengths, copies>>

OpenVolume ==
  /\ step = "volume"
  /\ step' = "txtPath"
  /\ UNCHANGED <<status, bootPath, txtPath, text, lengths, copies, pool>>

\* TxtFilePathPrefixLength: the last \ and what is before it; one unit if there
\* is no \ at all.
PrefixLengthBugFirst(path) ==
  LET slashes == {i \in 1 .. Len(path) : path[i] = Backslash}
  IN IF slashes = {} THEN 1 ELSE Min(slashes)
PrefixLength(path) ==
  LET slashes == {i \in 1 .. Len(path) : path[i] = Backslash}
  IN IF slashes = {} THEN 1 ELSE Max(slashes)

BuildTxtPath ==
  /\ step = "txtPath"
  /\ txtPath' = Append(SubSeq(bootPath, 1, PrefixLength(bootPath)), TxtFileName)
  /\ pool' = pool \cup {"TxtFilePath"}
  /\ step' = "openTxt"
  /\ UNCHANGED <<status, bootPath, text, lengths, copies>>

OpenTxt ==
  /\ step = "openTxt"
  /\ step' = "info"
  /\ UNCHANGED <<status, bootPath, txtPath, text, lengths, copies, pool>>

\* GetInfo, twice.  (The first call is told of no buffer but not of its size,
\* Txt_FileInfoSize being whatever was on the stack: if that is large enough
\* for the firmware, the pool is that large, too.)
GetTxtInfo ==
  /\ step = "info"
  /\ pool' = pool \cup {"Txt_FileInfo"}
  /\ step' = "read"
  /\ UNCHANGED <<status, bootPath, txtPath, text, lengths, copies>>

ReadTxt ==
  /\ step = "read"
  /\ text' \in Texts
  /\ status' = "success"
  /\ pool' = pool \cup {"KernelcmdArray"}
  /\ step' = "bom"
  /\ UNCHANGED <<bootPath, txtPath, lengths, copies>>

\* An empty file has no first unit; the code then compares what is there.
FirstUnits == IF text = <<>> THEN {Bom, Garbage} ELSE {text[1]}

CheckBomBugEitherEnd ==
  /\ step = "bom"
  /\ \E unit \in FirstUnits :
       step' = IF unit \in {Bom, Swapped} THEN "measure" ELSE "returned"
  /\ UNCHANGED <<status, bootPath, txtPath, text, lengths, copies, pool>>

\* Without the right mark GoTimeStatus is returned, as Read has left it.
CheckBom ==
  /\ step = "bom"
  /\ \E unit \in FirstUnits : step' = IF unit = Bom THEN "measure" ELSE "returned"
  /\ UNCHANGED <<status, bootPath, txtPath, text, lengths, copies, pool>>

-----------------------------------------------------------------------------
(* Splitting it: two loops that count, two that copy.                      *)

\* Where a loop over KernelcmdArray from index "from" stops: at a line end, or
\* after the last unit.
Ends(t, from) == {i \in from .. Len(t) - 1 : t[i + 1] \in LineEnd}
StopBugPastEnd(t, from) == IF Ends(t, from) # {} THEN Min(Ends(t, from)) ELSE Len(t)
Stop(t, from) == IF Ends(t, from) # {} THEN Min(Ends(t, from)) ELSE Max({from, Len(t)})

\* Where the command line starts: after LF or CR LF; at 0 if no line ends.
FirstLineLengthBugCr(t) == IF Ends(t, 1) = {} THEN 0 ELSE Stop(t, 1) + 1
FirstLineLength(t) ==
  IF Ends(t, 1) = {} THEN 0
  ELSE Stop(t, 1) + (IF t[Stop(t, 1) + 1] = LF THEN 1 ELSE 2)

\* The units of the path: those before the line end that are not spaces.
PathUnits(t) == {i \in 1 .. Stop(t, 1) - 1 : t[i + 1] # Space}

Measure ==
  /\ step = "measure"
  /\ lineLen' = FirstLineLength(text)
  /\ pathLen' = Cardinality(PathUnits(text))
  /\ cmdLen' = Stop(text, FirstLineLength(text)) - FirstLineLength(text)
  /\ step' = "allocate"
  /\ UNCHANGED <<status, bootPath, txtPath, text, copies, pool>>

\* KernelPath and Cmdline, of one unit more than was counted.
AllocateLines ==
  /\ step = "allocate"
  /\ pool' = pool \cup {"KernelPath", "Cmdline"}
  /\ step' = "copy"
  /\ UNCHANGED <<status, bootPath, txtPath, text, lengths, copies>>

\* The copying loop ends at FirstLineLength, which is 0 if no line ended.
Copied(t, first) == {i \in PathUnits(t) : i < first}

\* What is then in the n + 1 units of KernelPath: units keep their distance
\* from the beginning of the line, spaces leave gaps, and Nul is written last.
Path(t, n) ==
  [k \in 1 .. n + 1 |-> IF k = n + 1 THEN Nul
                        ELSE IF k \in Copied(t, FirstLineLength(t)) THEN t[k + 1] ELSE Garbage]

CopyLines ==
  /\ step = "copy"
  /\ kernelPath' = Path(text, pathLen)
  /\ overrun' = \E i \in Copied(text, lineLen) : i > pathLen + 1
  /\ cmdline' = [k \in 1 .. cmdLen |-> text[lineLen + k]]
  /\ step' = "free"
  /\ UNCHANGED <<status, bootPath, txtPath, text, lengths, pool>>

FreeTxt ==
  /\ step = "free"
  /\ pool' = pool \ TxtPools
  /\ step' = "openKernel"
  /\ UNCHANGED <<status, bootPath, txtPath, text, lengths, copies>>

-----------------------------------------------------------------------------
(* Opening the kernel.                                                     *)

\* A path with a unit nothing was written to may or may not name a file.
NamesKernel == SubSeq(kernelPath, 1, pathLen) \in Kernels
MayOpen == NamesKernel \/ Garbage \in {kernelPath[k] : k \in 1 .. pathLen}

OpenKernel ==
  /\ step = "openKernel" /\ MayOpen
  /\ step' = "kernelInfo"
  /\ UNCHANGED <<status, bootPath, txtPath, text, lengths, copies, pool>>

KernelMissing ==
  /\ step = "openKernel" /\ ~NamesKernel
  /\ status' = "error"
  /\ step' = "returned"
  /\ UNCHANGED <<bootPath, txtPath, text, lengths, copies, pool>>

GetKernelInfo ==
  /\ step = "kernelInfo"
  /\ pool' = pool \cup {"FileInfo"}
  /\ step' = "opened"
  /\ UNCHANGED <<status, bootPath, txtPath, text, lengths, copies>>

\* The pools a step may have allocated when one of its calls fails.
AllocatedBefore(s) ==
  CASE s = "root" -> {{"ESPRootTemp"}, {"ESPRootTemp", "ESPRoot"}}
    [] s = "info" -> {{}, {"Txt_FileInfo"}}
    [] s = "read" -> {{}, {"KernelcmdArray"}}
    [] s = "allocate" -> {{}, {"KernelPath"}}
    [] s = "kernelInfo" -> {{}, {"FileInfo"}}
    [] OTHER -> {{}}

\* Each failing call returns its error at once; nothing is freed.
ServiceFails ==
  /\ ServicesMayFail
  /\ step \notin {"bom", "measure", "copy", "free", "opened", "returned"}
  /\ \E allocated \in AllocatedBefore(step) : pool' = pool \cup allocated
  /\ status' = "error"
  /\ step' = "returned"
  /\ UNCHANGED <<bootPath, txtPath, text, lengths, copies>>

\* FreePool refuses one of the three; those before it are freed.
FreeTxtFails ==
  /\ ServicesMayFail
  /\ step = "free"
  /\ \E freed \in {{}, {"TxtFilePath"}, {"TxtFilePath", "KernelcmdArray"}} : pool' = pool \ freed
  /\ status' = "error"
  /\ step' = "returned"
  /\ UNCHANGED <<bootPath, txtPath, text, lengths, copies>>

Next ==
  \/ OpenImage \/ CopyRoot \/ OpenVolume \/ BuildTxtPath \/ OpenTxt \/ GetTxtInfo \/ ReadTxt
  \/ CheckBom \/ Measure \/ AllocateLines \/ CopyLines \/ FreeTxt
  \/ OpenKernel \/ KernelMissing \/ GetKernelInfo
  \/ ServiceFails \/ FreeTxtFails

Spec == Init /\ [][Next]_vars
-----------------------------------------------------------------------------
(* Properties.                                                             *)

\* Unit "end" of t ends the first line as the documentation asks for: n units of
\* a path, spaces after it at most, and LF or CR LF.
EndsPath(t, n, end) ==
  /\ t[1] = Bom /\ t[end] = LF
  /\ \A k \in 2 .. n + 1 : t[k] \in Letters
  /\ \A k \in n + 2 .. end - 1 : t[k] = Space \/ (t[k] = CR /\ k = end - 1)

\* Units of t from "from" on that reach to the end of their line, with LF or CR or
\* the end of the text after them.
IsLine(t, from, line) ==
  /\ from + Len(line) - 1 <= Len(t)
  /\ \A k \in 1 .. Len(line) : line[k] = t[from + k - 1] /\ line[k] \notin LineEnd
  /\ from + Len(line) <= Len(t) => t[from + Len(line)] \in LineEnd

Split == step \in {"free", "openKernel", "kernelInfo", "opened"}

\* From a text in the documented format the path, terminated, and the whole
\* second line are read, whichever line ends it uses and whatever follows, and
\* nothing is written outside the two pools.
WrittenLinesAreRead ==
  Split =>
    \A end \in 2 .. Len(text) : \A n \in 0 .. end - 2 :
      EndsPath(text, n, end) =>
        /\ kernelPath = Append(SubSeq(text, 2, n + 1), Nul)
        /\ IsLine(text, end + 1, cmdline)
        /\ ~overrun

\* Kernel64.txt is looked for "in the same folder as the bootloader itself", for
\* every path that names its folder at all.
TxtIsBesideLoader ==
  step = "openTxt" =>
    \A k \in 1 .. Len(bootPath) :
      bootPath[k] = Backslash /\ (\A l \in k + 1 .. Len(bootPath) : bootPath[l] # Backslash)
        => txtPath = Append(SubSeq(bootPath, 1, k), TxtFileName)

\* A text in another encoding is never split, and it is the only thing that
\* sends GoTime back without an error, from here.
OnlyTheMarkIsSilent ==
  /\ step \in {"measure", "allocate", "copy"} \/ Split => text = <<>> \/ text[1] = Bom
  /\ step = "returned" /\ status = "success" => text = <<>> \/ text[1] # Bom

\* With the kernel open, the pools left are those the kernel is given.
PoolIsReturned == step = "opened" => pool = HandedPools

\* The strengthening the proofs need: which pools are out at each step, what the
\* counting loops have left, and what the copying loops have made of it.
PoolIsKnown ==
  /\ step \in {"image", "root"} => pool = {}
  /\ step \in {"volume", "txtPath"} => pool = {"ESPRoot"}
  /\ step \in {"openTxt", "info"} => pool = {"ESPRoot", "TxtFilePath"}
  /\ step = "read" => pool = {"ESPRoot", "TxtFilePath", "Txt_FileInfo"}
  /\ step \in {"bom", "measure", "allocate"} => pool = {"ESPRoot"} \cup TxtPools
  /\ step \in {"copy", "free"} => pool = {"ESPRoot", "KernelPath", "Cmdline"} \cup TxtPools
  /\ step \in {"openKernel", "kernelInfo"} => pool = {"ESPRoot", "KernelPath", "Cmdline"}
LinesAreMeasured ==
  step \in {"allocate", "copy"} \/ Split =>
    /\ lineLen = FirstLineLength(text)
    /\ pathLen = Cardinality(PathUnits(text))
    /\ cmdLen = Stop(text, lineLen) - lineLen
LinesAreCopied ==
  Split =>
    /\ kernelPath = Path(text, pathLen)
    /\ overrun = \E i \in Copied(text, lineLen) : i > pathLen + 1
    /\ cmdline = [k \in 1 .. cmdLen |-> text[lineLen + k]]
TextInv ==
  /\ TypeOK /\ PoolIsKnown /\ PoolIsReturned /\ OnlyTheMarkIsSilent /\ TxtIsBesideLoader
  /\ LinesAreMeasured /\ LinesAreCopied
  /\ step = "bom" => status = "success"

\* No copy goes past its pool, for any text at all ("There might be an errant
\* space or two. Ignore them."): not so.
CopiesFit == ~overrun
=============================================================================
