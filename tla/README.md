# A verification of Simple-UEFI-Bootloader in TLA+

The loader is one UEFI application in C. It sets up graphics, reads a text
file, loads a kernel image, leaves the firmware's boot services and jumps. It
has no threads of its own, but it does not run alone: the firmware's timers
change the memory map at any moment, the user types whenever he likes, any
firmware call may fail, and memory may hold something other than what was
written to it. The modules here model what the loader does under all of that.

Paths below are relative to `src/Simple_UEFI_Bootloader/`; line numbers are of
`src/Loader.c` unless another file is named. `Bug` in a definition's name marks
a mutant: a plausible mistake in the definition that follows it, kept to show
that a property would notice it.

## 1. The system

| Part | Code | State it keeps | Operations | Modelled by |
|---|---|---|---|---|
| Entry point | `src/Bootloader.c` 153-452 | the countdown's seconds, the key read | `efi_main`: countdown, start-up screen, then the other parts in order; `Keywait` | `Startup` |
| Device names | `src/Graphics.c` 82-838 | `CntlrIndex`, `Name2DriverIndex`, three names at a time, `NameBuffer` | find the devices; strict and funky search; Macs | `DeviceNames` |
| Graphics | `src/Graphics.c` 840-1699 | `DevNum`, `mode`, `Key`, `timeout_seconds`, `Graphics->GPUArray`, five kinds of pool | menus; `SetMode`; describe framebuffers | `GraphicsSetup` |
| Console text | `src/Graphics.c` 1700-2143 | none | colour swatches, lists of protocols, `apple_set_os` | when `apple_set_os` runs: `GraphicsSetup` |
| Free-memory finder | `src/Memory.c` | one memory map per call | `ActuallyFreeAddress`, `ActuallyFreeAddressByPage`, `VerifyZeroMem`, `compare` | `FreeAddress` |
| Kernel memory | 644-970, 1456-1721, 2130-2395 | `AllocatedMemory`, `NewAddress`, `OldAllocatedMemory`, `GoTimeStatus` | `AllocatePages`, read back, free, search again | `KernelAlloc`, `KernelMemory` |
| Kernel64.txt | 56-459 | the text, lengths of its two lines, `KernelPath`, `Cmdline` | find, read, split, open the kernel | `KernelText` |
| Image loading | 490-642, 1002-1428, 1751-2095, 2430-2547 | headers, `virt_size`, `virt_min`, segments | measure, copy, relocate: PE32+, DOS, ELF, Mach-O | `ImageLoad` |
| Hand-off | 2604-2782 | `MemMap`, `MemMapSize`, `MemMapKey`, `GoTimeStatus` | `GetMemoryMap`, `ExitBootServices`, retry, jump | `Handoff` |

The parts run one after another: `efi_main` calls `InitUEFI_GOP` and then
`GoTime`, and goes on only when a part returns success. What flows between them
is small: `Graphics` (to the kernel), the kernel file, the range of pages, and
the memory map. What they share is the firmware: its memory map, its pool, its
console and its timers. That is why most of what can go wrong is between the
loader and the firmware, and why the modules have the firmware and the user as
actors of their own.

What makes each part hard, and correct:

- **Free-memory finder.** The firmware may list its map in any order; the map is
  stale once it is read; the code reads a descriptor after freeing it (Memory.c
  122); it leaks the map when nothing is found (113); addresses wrap. Correct
  means: the answer is nothing, or a range that was free and is large enough.
- **Kernel memory.** Four loops in three copies share four variables. A range is
  allocated, read, freed, and another looked for, while the firmware may take
  it in between, and every exit must agree on what is still held and what is
  returned. Correct means: one range at a time, never lost, never doubled, never
  freed twice; the kernel is loaded only into a good one; a failure is an error;
  a clean range is found when there is one; the search ends.
- **Image loading.** Three formats each have their own idea of where a segment
  goes, how large the image is, what is relocated and from when on; one status
  variable carries the last failure, whichever call it is from. Correct means:
  exactly the image its format defines is in memory, in its own pages; a file is
  refused if and only if it cannot run.
- **Hand-off.** The key is spoiled by any change of the map, the loader's own
  `AllocatePool` included, and the second attempt starts from the variables of
  the first. Correct means: the kernel gets the map of the moment boot services
  ended, whole; nothing uses a freed buffer; no service is called after the end;
  one retry is enough for one change.
- **Kernel64.txt.** Two loops count the units of a line and two others copy
  them, each with its own idea of where the line ends and what a space is.
  Correct means: the lines the documentation describes are read as they are
  written, and no copy leaves its pool.
- **Device names.** Five nested loops over devices, handles and drivers share one
  set of names; the controller is recognised by the size of its path. Correct
  means: the names in a label come from one driver, for one controller on the way
  to the device; the strict search gives those of the device's parent.
- **Start-up.** Countdown, menus and pauses read one console. Correct means: a
  pause is answered with a key typed at that pause; once a key has ended the
  countdown, no other key typed there picks anything; a failed part ends the boot
  with a pause; with nobody at the keyboard the release build starts the kernel,
  and the build committed here (Debug Lite, Bootloader.h 46) loads it and waits.
- **Graphics.** One variable holds the key of all menus, one the choice, the
  device and the index; the console keeps keys typed ahead; timer and key race.
  Correct means: only modes that exist are set; every menu opens unanswered, and no
  key typed at the first one picks a device or a mode; the array for the kernel is complete and true; menus with a timer end;
  an unattended machine boots.

The hazards, each at its line and with the properties that watch it, are in
`PROJECT.json`.

## 2. The modules

### FreeAddress (Memory.c)

Operators only. Physical memory is `0 .. NumPages-1`; the map is the set of
maximal runs of free pages, in any order unless `MapIsSorted`. The code only
holds addresses of first and last bytes of pages, so an address is counted in
half pages modulo `WordSize` (2^64): this keeps `~0`, the addition that wraps,
and the "one byte into the last page" test exact at a small size.
`ActuallyFreeAddress` and `ActuallyFreeAddressByPage` return the set of results
the firmware allows, each with the number of maps leaked so far. `StaleReads`
is what the read after `FreePool` may give.

### KernelAlloc (GoTime, the three searches), KernelMemory (what they promise)

`loop` says which of the four loops runs, `step` where its turn is: `pick` the
next address, `try` to allocate it, `check` what it holds. `Kind` chooses the
copy (PE32+ has a 4 GB limit and falls back to the lowest range; the ELF and
Mach-O copies differ from each other in the magic number only). `content` is
what pages hold: zeros, junk, a page that begins with the magic number, and
pages that keep what they hold whatever is written ("stuck"), the reason the
code reads back at all. `MemoryCheck` is the build switch. `FirmwareTakes` and
`FirmwareReturns` are the firmware between two calls, at most `MaxDrift` times.

| Actions | Code (PE32+ copy) |
|---|---|
| `AllocateAnyPages`, `AllocateAnyPagesFails` | 648-675 |
| `Accept`, `RejectAnyPages`, `FreePagesFails` | 681-731 |
| `PickEasy`, `AllocateAddress`, `AllocateAddressNotFound`, `AllocateAddressFails` | 731-840 |
| `Reject` | 781-804, 900-934 |
| `StartByPage`, `PickByPage` | 842-967; ELF 1640-1720 |

`KernelMemory` is the abstract specification: free pages and at most one range
held; take a range, put back the range held, end with it or without. The search
implements it (`ImplementsKernelMemory`), with `outcome` read off `step`.

### ImageLoad (the middle of GoTime)

Memory and files are counted in 64-bit words, what relocation patches. A word of
memory is a pair: the word of the file it is (0: zero, -1: not written by the
loader) and what relocation has added to it. So it can be told where each word
came from, and whether it was relocated once, twice or not at all. `Images` are
the kernel files: kind, segments (sections, program headers, load commands) in
the order of the file, relocations, and the fields the code branches on. `step`
and `index` walk the headers as the code's loops do; `ThreadCommand`,
`MainCommand` and `ReadDynamic` are the branches inside them. Finding pages is
one action here, `AllocatePages`; `KernelAlloc` is what happens in it.

| Actions | Code |
|---|---|
| `Identify`, `ReadTable` | 490-636 (PE32+), 1317-1400 (ELF), 1988-2061 (Mach-O) |
| `ScanHeader`, `CountPages` | 1401-1423 (ELF), 2062-2097 (Mach-O): `virt_size`, `virt_min`, pages |
| `AllocatePages`, `AllocatePagesFails` | 655-675, 1247-1265, 1435-1456, 2109-2128 |
| `CopyHeaders`, `CopyDos` | 1002-1015, 1226-1314 |
| `CopySegment`, `SkipHeader` | 1024-1062, 1753-1795, 2428-2501 |
| `ThreadCommand`, `MainCommand` | 2471-2491 |
| `ReadDynamic`, `Relocate`, `PeRelocated` | 1795-1921 (ELF), 1081-1192 (PE32+) |
| `FreeDynamic`, `FreeTable` | 1925-1934, 1065-1074, 1945-1952, 2503-2511 |
| `RefuseRelocation`, `Finish` | 1193-1208, 1960-1963, 2517-2519 |
| `ServiceFails` | every `return GoTimeStatus` after reading or allocating |

`ImageIsExact` compares the outcome with `Relocated`, a definition written from
the formats: which word of the file belongs at each place, and what relocation
makes of it, and that nothing was written outside the pages. It knows nothing of
the order in which the code does things. `RefusedIfBad` likewise says when a file
is bad by its contents alone.

### Handoff (the end of GoTime)

A map is a version (its key) and a number of descriptors. `PoolGrowth` is how
many descriptors a pool call may add, `FirmwareGrowth` how many a change by the
firmware's timers may, `KeyWhenTooSmall` whether `GetMemoryMap` sets the key
when the buffer is too small (UEFI does not say), `PartialShutdown` whether a
refused `ExitBootServices` stops the timers (UEFI allows it), `PausesOnFailure`
the `Keywait` between the attempts in the build committed here, `PoolMayFail`
whether `AllocatePool` and `FreePool` may fail. `buffers` counts the buffers that
are allocated and `unfreed` those that `FreePool` refused to free; the code has
neither.

| Actions | Code |
|---|---|
| `Query`, `Allocate`, `AllocateFails`, `Fetch` | 2626-2637, in either attempt |
| `Exit`, `ExitFails` | 2640-2642, 2671-2676 |
| `Free` | 2642-2657: free the map, pause in Debug Lite (2654), try again |
| `FreeFails` | 2645-2657: pause in any build (2649), then as `Free`, with the map kept |
| `KeyPressed` | `Keywait` (Bootloader.c 420-452), called by these two |
| `GiveUp`, `GiveUpFails` | 2676-2687: return what `FreePool` returns |
| `Jump` | 2743-2782 |

### KernelText (the beginning of GoTime)

A text is a sequence of UTF-16 units, the first the byte order mark; a letter is
a model value of its own, and so are space, LF, CR and the backslash. Indices are
those of the code. `Stop`, `FirstLineLength` and `PathUnits` are what the counting
loops compute, `Copied` and `Path` what the copying ones leave, with the units
nothing is written to as `Garbage`. An empty file's "first unit" is whatever the
pool held.

| Actions | Code |
|---|---|
| `OpenImage` to `OpenTxt` | 56-185: the volume, the loader's own folder, the file |
| `GetTxtInfo`, `ReadTxt`, `CheckBom` | 187-282 |
| `Measure`, `AllocateLines`, `CopyLines`, `FreeTxt` | 287-409 |
| `OpenKernel`, `KernelMissing`, `GetKernelInfo` | 413-459 |
| `ServiceFails`, `FreeTxtFails` | the early returns of all of these |

### DeviceNames (Graphics.c 82-838)

A device path is a sequence of nodes of given lengths; `PathSize`, `InstanceAt`
and `Matches` are the library's functions on them. A machine is a list of device
paths, a list of handles with paths, which drivers manage which, and which
drivers are on the code's "Wall of Shame". A name is where it comes from: the
driver and the controller it was asked about, so that left-over names can be
told. Whether a driver knows a name is its own choice, each time.

| Actions | Code |
|---|---|
| `LocatePC`, `LocateMac` | 128-212, 813-838 |
| `BeginDevice`, `WeirdDevice` | 214-238, 758-780 |
| `SkipHandle`, `FindController`, `EndHandles` | 240-312, 455 (strict); 479-580 (funky) |
| `SkipDriver`, `NameStrictly` | 323-451 |
| `ShameDriver`, `NameFunkily`, `EndDrivers` | 581-729 |
| `TryFunkily`, `StoreName`, `FreeHandles` | 457-479, 730-811 |

### GraphicsSetup (Graphics.c 840-1699)

The console's buffer is a queue of keys, each with the step it was typed in;
the user (`Types`) adds to it at any moment. A key is its distance from `'0'`,
as the code computes it, so an unread key is -48 and the test `0x30 <= Key <=
0x30 + n - 1` is `Offered`. The menus, the setting of modes and the entries for
the kernel are one action each per step of the code, for all five ways through
it: several devices with options 0 to 3, and a single device (`Single`).
`TimeIsUp` is what the two menus with a timer do when nobody answers.
`ServiceFails` and `CleanUpFails` are the early returns. A pool is a name in
`pool`, in the set from allocation until `FreePool`.

### Startup (Bootloader.c)

`efi_main` around all of `GraphicsSetup` (as an instance, sharing its console):
`phase` is where `efi_main` is, `seconds` its countdown, `keywait` where
`Keywait` is or how it ended. A key remembers the phase, or the menu, it was
typed in. Of `GoTime` only its pauses are here, and how it ends. `debug` says
whether `FINAL_LOADER_DEBUG_ENABLED` is defined, as it is in the repository
(Bootloader.h 46); then the image's information, each framebuffer's, and the
leaving of boot services wait for a key each, and `shown` counts how many of
those the user has been through. `goTimePause` stands for the others.

| Actions | Code |
|---|---|
| `Begin`, `SkipCountdown`, `SecondPasses`, `EndCountdown`, `ResetInput` | 169-294; `SecondPasses` is `WaitForSingleEvent` (lib/event.c) |
| `AskForKey`, `PollKey`, `PollFails`, `EndPause`, `KeywaitFails` | 420-452 |
| `ShowInfo`, `SetUpGraphics`, `GraphicsFails`, `EndGraphics` | 294-392 |
| `ShowKernelInfo` | Loader.c 2551-2598: the pauses at 2565, 2580 (per framebuffer) and 2597 |
| `PauseInGoTime` | Loader.c 176, 280, 1072, 1232, 1235, 1931, 1951, 2509, 2649; 2654 |
| `RunKernel`, `GoTimeReturns` | Loader.c 2770-2782; 402-408 |
| `ServiceFails` | 231-285 |

## 3. The runs

| Run | Shows | Bounds |
|---|---|---|
| `alloc_pe` | type, `OneRange`, `OutcomeIsTrue`, and that the search implements `KernelMemory` | 5 pages, kernel of 2, every free map with room, every page clean, stuck or reset; unsorted maps, stale reads, failing services and pool, 1 page drifting, pool full after 2 leaks (476,606 states) |
| `alloc_elf` | `KnownBadAvoided`, `EasySearchAscends` and, under fairness, `FindsCleanRange`: from the page-by-page search on, a clean range is reached | 7 pages, every free map, every pattern of stuck pages; firmware quiet (236,848) |
| `kernel_text` | `WrittenLinesAreRead`, `TxtIsBesideLoader`, `OnlyTheMarkIsSilent`, `PoolIsReturned` | every text of a mark and up to 5 units of {two letters, space, CR, LF}; 4 boot paths; all calls failing (201,888) |
| `image_load` | `ImageIsExact`, `RefusedIfBad`, `PagesFollowOutcome` | 5 pages of 4 words; PE32+ with headers and two sections, ELF with two segments in either order, Mach-O with two, DOS, junk: all combinations of sizes, relocations, preferred bases and faults in `MCImageLoad`; every base; all calls failing (48,212) |
| `handoff` | `MapIsHandedOver`, `MapIsLive`, `NoServiceAfterExit`, `OnlyFirmwareSpoilsTheKey`, `HandoffSucceeds` | 4 descriptors, 3 changes, 1 descriptor of growth; both pool calls failing (3,078) |
| `device_names` | `NamesBelongTogether`, `StrictNamesAreTheParents`, `ParentIsNotMissed`, `EveryDeviceIsLabelled` | 5 pairs of devices (two outputs of a card, behind a bridge, on a virtual bus, without a path), 5 lists of handles, 2 drivers; PC and Mac; all calls failing (277,243) |
| `gop_multi` | `ModeIsOffered`, `EntriesAreReal`, `ArrayIsComplete`, `PoolIsReturned`, `MenusAskAnew`, `UnattendedSetup` | 3 devices with 2, 1 and 3 modes; any 3 keys, at any moment; all calls failing; a Mac (270,222) |
| `startup` | `KernelHasGraphics`, `PauseIsAnswered`, `NoKeyFromCountdown`, `TimersEnd`, `UnattendedBoot` | 1 device with 3 modes, so this is also the run of the single-device set-up and its timed menu; 4 keys at any moment; 2 seconds of countdown; both builds; all calls failing (961,549) |

Why the bounds are enough. Five pages with a kernel of two hold two disjoint
ranges, two overlapping ones, two descriptors with a hole, and a range that
starts at address 0; all four loops and every exit are reached, each of them
with a firmware change before and after it. Seven pages are the least in which
a clean range lies beyond two dirty ones in the same descriptor. Three changes
allow one before each `ExitBootServices` and one more. Three keys answer the
three menus of a set-up, or spoil one of them and answer two; three devices are
needed for a first, a middle and a last entry, and one of them has no menu. Four
keys at start-up are one each for the countdown, the pause that stopped it, the
menu, and the pause after an error; or one each for the three pauses of `GoTime`
that a kernel with one framebuffer goes through, and one that is spoiled. Five units after the mark hold a path of one
or two letters with a space anywhere, CR LF and a second line; nothing in the
loops looks further than one unit. In the lists of handles the controller is
first, last, missing, listed twice or behind a bridge. Two segments have a gap,
share a page, or end within a page or at its end; preferred bases are below,
above and at the base an image is loaded at.

The files of `image_load` are such as a linker makes: PE32+ sections start on
pages, ELF and Mach-O images start at zero, `PT_DYNAMIC` is last (the code says
so at 1795). `image_overrun` has a file that starts elsewhere.

Runs whose `expect` is `violation` show a place where the code does not do what
its own comments say; `PROJECT.json` has them under `findings`:

| Run | Finding |
|---|---|
| `alloc_endless_elf` | the last ELF and Mach-O loop tests the wrong variable and spins once addresses run out (1711, 2386) |
| `image_overrun` | an ELF or Mach-O image not linked at zero is copied beyond the pages counted for it (1757, 2431) |
| `handoff_status` | a refused hand-off returns success (2679) |
| `text_spaces` | one space before the path in Kernel64.txt costs the path its last unit, two make the copy leave its pool (366) |

More was seen on the way and has no run of its own:

- With `PoolGrowth = 2` in `handoff.cfg`, `MapIsHandedOver` fails: the status of
  the second `GetMemoryMap` is not looked at (2637), and firmware that sets the
  key though the buffer is too small lets the kernel start with a map that was
  never written. With `PartialShutdown = TRUE` there, `HandoffSucceeds` fails: the
  pause between the attempts waits for a key that can no longer arrive (2654).
- When `FreePool` refuses the first map, `GoTime` pauses and goes on (2645); the
  second attempt overwrites `MemMap`, and that buffer is lost. When it refuses the
  second one, `GoTime` returns with it allocated (2679). `MapIsLive` counts both.
- The PE32+ search goes round for ever when all memory under 4 GB is dirty (943;
  set `Kind` to PE in `alloc_endless_elf.cfg`), and its fall-back to the lowest
  range is not compared with the known bad one, which is why `KnownBadAvoided` is
  checked, and proved, for the other two copies. The address taken instead of the
  known bad one is not tested against 4 GB again (745).
- The ELF page-by-page search starts from the first range that fits, and gives up
  with it if that is the last one; ranges of a descriptor at address 0 can stay
  untried (1651). `FindsCleanRange` is stated for what comes after.
- A PE32+ file whose relocations were stripped keeps an empty directory entry
  (1081): it is loaded away from its base, unrelocated, without an error.
- Without a byte order mark `GoTime` returns the success `Read` has left (258). The
  size given to the first `GetInfo` is not initialised (193). No file handle is
  ever closed.
- The controller's path size is worked out from the first node of the device's
  path (Graphics.c 225), which is right only when that is four bytes longer than
  the last one; `StrictNamesAreTheParents` and `ParentIsNotMissed` name the PCI
  paths it holds for. An empty path matches every device.
- Where no driver has a name for the child, the comment at Graphics.c 727 promises
  the three default names. The code sets only the child's: the other two stay
  those of the driver asked last, for the last controller on the way to the
  device. A driver on the "Wall of Shame" takes away the driver's name and leaves
  the controller's, which then is from the driver before it (643). This is what
  `NamesBelongTogether` states of such labels.
- Keys left from a countdown that ran out may answer the first menu: nothing is
  reset then (`NoKeyFromCountdown` is about one that a key has ended). Nothing is
  reset between the menus of modes of two devices either: a key typed ahead at the
  first answers the second. Errors before the start-up screen return from `efi_main` without a
  pause.

**Fairness.** `FairSpec` asks weak fairness of the loader's own steps: it is a
single thread that never blocks but in `Keywait`, and every loop of it makes a
call that returns. In `GraphicsSetup` and `Startup` the failures of calls are not
among these steps: a failure that has to come would end a menu that hangs. In
`Handoff` the user is fair too: he presses a key at the pauses of 2649 and 2654,
as long as keyboards work. The firmware is never obliged to do anything, nor is the user in
`GraphicsSetup` and `Startup`: a second passes only while no key waits, so a
countdown may be kept up by typing only as long as `MaxTyped` allows, and
`TimersEnd` speaks of what happens after that.

**Deadlock** is not checked: every part really stops, when it is done or has
returned an error.

## 4. What is proved

TLAPS proves, for every value of the constants that the named assumptions allow
(any number of pages, any kernel size, any memory, any text, any machine, any
failure):

**Free-memory finder.** `OfferedRangeIsFree`: an address that either finder
returns is the start of a range of free pages that is large enough. The
page-by-page case is arithmetic: no sum wraps as long as physical memory ends one
kernel below 2^64 (`SizesAssumption`), for page-aligned input.

**Kernel memory.** `AllocTypes`, `Safety` (`OneRange`) and `TrueOutcome`
(`OutcomeIsTrue`), for all three copies, with and without the memory check, stale
reads included. The induction (`SafetyInv`) needs `StepMatchesStatus`: a range is
read only after a success and an address picked only after a failure. Without it
nothing says which status a loop leaves with. `Conservation` (`PagesConserved`)
and `Refinement` (`ImplementsKernelMemory`) follow from the same invariant, step
by step. `Ascent` (`EasySearchAscends`) assumes `StaleReads = {}`: the answer read
from a freed map can be anything; it adds `EasyHasAddress`. `KnownBad`
(`KnownBadAvoided`) assumes the same, and is for ELF and Mach-O, with
`TriesAnother`: the address about to be tried is not the known bad one. `SearchIsThorough` is what
`FindsCleanRange` says but for the time it takes (`NoRangeLeftBehind`): as long
as the firmware changes nothing, no range of zeros is ever behind the
page-by-page search, and `EFI_NOT_FOUND` is only reported when there is none.
Its induction, `ThoroughInv`, starts in the easy loops: that they have tried
every start of a descriptor is why the page-by-page ones may begin one page
after such a start. An address may have wrapped only once nothing is left to
find. The lemmas `NextDescriptor` and `NextPage` of `FreeAddressProofs` say
that neither finder passes over anything. The hypotheses (`SortedMaps`) are each
needed: TLC finds a range left behind with an unsorted map (pages of one,
`KernelPages = 1`), a stale read, a `GetMemoryMap` that fails, a pool that is
full after one leak, and for PE32+, which starts over above 4 GB.

**Kernel64.txt.** `TextTypes`, `TextPools`, `TxtBeside`, `MarkIsSilent` and
`LinesAreRead` (`WrittenLinesAreRead`) for texts of any length. `StopIsFirstEnd`
says what a counting loop stops at; from it `FormatIsMeasured` computes what a
text in the documented format is measured to be, for either line end, and
`FormatIsCopied` and `CmdlineIsALine` that the copying loops, which count anew,
agree. `TextInv` carries the lengths and copies from step to step. The
counter-example of `text_spaces` is outside that format.

**Image loading.** `LoadTypes`, `RefusedIfBadOnly` (`RefusedIfBad`) and
`PagesFollow` (`PagesFollowOutcome`) from `LoadInv`: where a status is from, which
headers are behind, and what is held at each step. `CopiesInside`
(`CopiesStayInside`) assumes that every image is linked at zero, which
`MCImageLoad` asserts of the files of `image_load`; `image_overrun` shows why.
It needs that the scan has seen every segment end at or below `virt_size`, that
`PagesFor` rounds up, and no wrap-around. `ImagesAreExact` (`ImageIsExact`): the
image in memory is word for word what its format defines, for any number of
segments, pages and relocations. Beyond being linked at zero it assumes
`IsWellFormed`: what a linker sees to and the loader takes for granted. Segments
that share a word agree on it, no site is relocated twice, and no `PT_LOAD` comes
after `PT_DYNAMIC` (the loader relocates when it meets `PT_DYNAMIC`, so a segment
after it would be copied over what has been relocated). `MCImageLoad` asserts it of
every file that `image_load` uses. The induction, `ContentsInv`, says after each
segment what every word of the range holds (`PagesHold`), by how much it is
relocated (`RelocationIsKnown`), and where the kernel starts (`EntryIsKnown`).

**Hand-off.** `HandoffTypes`, `LiveMap` (`MapIsLive`), `Calls`
(`NoServiceAfterExit`), whatever the firmware does and whichever calls of the pool
fail; `KeyIsOld` and `BuffersAreCounted` complete the induction. `LiveMap` says
that a buffer is allocated when it is used, and that the only ones left over are
those `FreePool` was asked to free and refused. `KeySpoiled` (`OnlyFirmwareSpoilsTheKey`) from the same
invariant. `MapHandedOver` (`MapIsHandedOver`) assumes `SlackIsEnough`: where the
key is set although the buffer is too small, a pool call adds one descriptor at
most and the firmware none. That it cannot be dropped is seen with `PoolGrowth =
2` (section 3). `SlackInv` counts the descriptor of slack from one call to the
next, `KeyMatchesMap` says a key that will be accepted is the buffer's.
`OneRetry` (`GivenUpForCause`) is the safety half of `HandoffSucceeds`: the hand-off
is given up only when the firmware has changed the map twice, at whatever moments.
It assumes `KeyComesWithMap`, without which TLC finds a hand-off given up too
early; `AttemptInv` says that until the change of an attempt comes, its
buffer will do and its key is good.

**Device names.** `NamesTypes`, `NamesTogether` (`NamesBelongTogether`),
`DevicesLabelled` (`EveryDeviceIsLabelled`), for any machine. The induction,
`NamesInv`, says of the names held in the middle of a search what the property
says of those in a label (`NamesHeldBelong`), that drivers are asked only about a
controller on the way to the device (`SearchIsOn`), and that labels and pools
are made in order (`LabelsInOrder`). `LeftInv` adds, for names left over, that
they are the last among those the search has asked for so far (`AskedSoFar`,
`LeftNamesAreLastSoFar`); once it is through, these are all it could ask for. `StrictNames` (`StrictNamesAreTheParents`) says that the strict search takes names
only from the device's parent, on machines whose paths have one instance each
(`PathsAreSingle`) and whose nodes carry data (`NodesCarryData`), `ParentsFound`
(`ParentIsNotMissed`) that it does not miss the parent. `StrictSearchIsExact` tells
what size the path had that the names come from; that the sizes of a path's
beginnings ascend makes it the parent's. The latter is an induction over the length of a path, carried out without an induction
rule as the search for a least counter-example in a set of numbers
(`LeastInSet`). `MCDeviceNames` asserts the hypotheses of the machines TLC checks.

**Graphics.** `SetupTypes`, `OnlyOfferedModes`, `RealEntries`, `CompleteArray`,
`PoolsReturned`, for any number of devices and modes. The induction is `SetupInv`:
which way through the code is taken (`WayIsKnown`), that the array is filled in
the order of the devices and is never ahead of `DevNum` (`FilledInOrder`), that
its size was set for the way taken (`CountIsSet`), and which pools are out
(`PoolIsKnown`). `EntriesAreReal` alone is not inductive: that setting a mode does
not change a device already described follows only from the order.
`MenusAnswered` (`MenusAskAnew`) from `KeysAreSpent`: between two menus no key is
held, and after the reset none is waiting that was typed at the first menu.
`UntouchedDefaults` (`UntouchedIsDefault`) is the safety half of `UnattendedSetup`:
where no key has been typed, a set-up that ends has every device in mode 0;
`DefaultsAreTaken` follows the choice from menu to timer to `SetMode`.
Assumptions on the machine (`GraphicsAssumption`): each device has a mode, and
those of 1024x768 are among its modes.

**Start-up.** `StartupTypes`, `PausesAnswered` (`PauseIsAnswered`) and
`CountdownKeysSpent` (`NoKeyFromCountdown`) from `KeysInv`: at each phase, which
places the keys still waiting can have been typed at. `KernelGetsGraphics`
(`KernelHasGraphics`) carries `SetupInv` through the steps of `efi_main` and the
pauses of `GoTime`, with
`GraphicsSetupProofs` as an instance; `ReadyInv` adds that only a set-up that has
ended well leads on. The constant `Callers` of `GraphicsSetup` is there for it: the
console's buffer may hold keys typed at `efi_main`'s own prompts. `UntouchedBoots`
(`UntouchedBoot`) is the safety half of `UnattendedBoot`: without a key, `GoTime`
and the kernel find every device in its default mode, no pause or error comes
before `GoTime` unless a call fails, and Debug Lite goes no further than its first
pause there. `InfoInOrder` is what that takes: the pauses that show something
come one after another, and the kernel after all of them.

Only model-checked: that something must happen in the end (`FindsCleanRange`,
`HandoffSucceeds`, `UnattendedSetup`, `TimersEnd`, `UnattendedBoot`), which needs
fairness and is beyond this prover. For four of the five, what they say but for
the time it takes is among the theorems above. Those safety halves
(`NoRangeLeftBehind`, `GivenUpForCause`, `UntouchedIsDefault`, `UntouchedBoot`) have
no run of their own, since the run of the liveness property would be the same;
TLC was used to see that they and their inductive invariants hold on the
instances of `alloc_elf`, `handoff`, `gop_multi` and `startup` before they were
proved. No safety property that a run checks is left without a theorem.

## 5. What is not modelled

- Loading over the remains of an earlier boot (702): `KernelAlloc` accepts such
  pages, as the code does; `ImageLoad` starts from zeroed ones.
- Of ELF loading, the debug build's refusal of relocations it does not know
  (1903): the release build skips them, and so does the model.
- The chunks PE32+ relocations come in, and the entries of `PT_DYNAMIC`: the
  table is one sequence, present and complete or not.
- Everything printed, and what only `ENABLE_DEBUG` compiles in: more pauses, and
  lists of protocols (`WhatProtocols`, Graphics.c 1925). The pauses of the release
  build and of Debug Lite are in `Startup` and `Handoff`. `Startup` does not say
  which of the pauses at errors comes up when: that is for the modules of the parts.
- The calls of `apple_set_os` (Graphics.c 2070-2143): they only tell the firmware
  something. When it is run, and that it is run once, is in `GraphicsSetup`.
- The console mode of Macs and the watchdog switch in `efi_main`: nothing that
  follows depends on them.
- A keyboard that fails in menus without a timer, where the code prints the
  menu for ever (Graphics.c 1051).
- `src/Backend/gnu-efi-3.0.9`, except for the functions on device paths and the
  wait for one of two events. This vendored library, its headers, and the headers
  of file formats (`inc/elf.h`, `inc/loader.h`) are three quarters of the
  repository's lines. What is left of them is declarations, which are the records
  and constants of the modules here, and formatted printing, start-up code and
  string functions no decision of the loader depends on. The firmware behind them
  is external: the actions and operators that `map` marks so.

## 6. What could follow

The modules above cover every part of the loader that changes state. What is
left, in this order: a refinement of what `Startup` has of `GoTime` by the chain of
`KernelText`, `ImageLoad` with `KernelAlloc`, and `Handoff`; the relocation chunks
of PE32+ files.
