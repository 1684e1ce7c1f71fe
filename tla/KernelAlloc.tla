---------------------------- MODULE KernelAlloc ----------------------------
(***************************************************************************)
(* Loader.c: how GoTime obtains the zeroed pages the kernel file is loaded *)
(* into.  The code has three copies of it, for PE32+, ELF and Mach-O; the  *)
(* ELF and Mach-O ones differ only in the magic number they look for.      *)
(*                                                                         *)
(* AllocateAnyPages gives a range and ZeroMem clears it.  Builds with the  *)
(* memory check (ENABLE_DEBUG) read the range back, and when it is not     *)
(* zero they search for one that is, in four loops:                        *)
(*   "firstEasy"   get any range, from address 0 up, descriptor by         *)
(*                 descriptor;                                             *)
(*   "easy"        from there on, until a range holds only zeros;          *)
(*   "firstByPage" get any range, page by page;                            *)
(*   "byPage"      from there on, until a range holds only zeros.          *)
(* In each of them a turn is: pick the next address ("pick"), allocate it  *)
(* ("try"), read it ("check").  Between two calls the firmware's own       *)
(* timers may take pages or return them.                                   *)
(***************************************************************************)
EXTENDS FreeAddress

CONSTANTS
  Kind,            \* "PE", "ELF" or "MACHO"
  MemoryCheck,     \* is MEMORY_CHECK_DISABLED not defined?
  FourGB,          \* 0x100000000, in half pages
  ByPageStart,     \* 0x80000000 - EFI_PAGE_SIZE, where PE starts by page
  ServicesMayFail, \* may AllocatePages or FreePages fail for other reasons?
  MaxDrift,        \* bound on the pages the firmware takes or returns
  InitialFree,     \* the sets of free pages to start from
  InitialContents  \* what memory can hold at the start

ASSUME KindAssumption ==
  /\ Kind \in {"PE", "ELF", "MACHO"}
  /\ MemoryCheck \in BOOLEAN
  /\ ServicesMayFail \in BOOLEAN
  /\ FourGB \in Addr
  /\ ByPageStart \in Addr
  /\ MaxDrift \in Nat

\* What a page holds: zeros, something else, something that begins with the
\* magic number of a kernel file; "stuck" pages keep it whatever is written.
Content == {"zero", "junk", "magic", "stuckJunk", "stuckMagic"}

ASSUME InitialAssumption ==
  /\ InitialFree \subseteq SUBSET Page
  /\ InitialContents \subseteq [Page -> Content]

VARIABLES
  free,            \* the EfiConventionalMemory pages
  content,         \* what each page holds
  held,            \* pages allocated for the kernel and not freed
  allocatedMemory, \* AllocatedMemory
  newAddress,      \* NewAddress
  oldAllocated,    \* OldAllocatedMemory, the known bad address
  status,          \* GoTimeStatus
  loop,            \* which loop of the search is running
  step,            \* what that loop does next
  leaks,           \* memory maps not freed
  drift            \* pages the firmware has taken or returned

vars == <<free, content, held, allocatedMemory, newAddress, oldAllocated,
          status, loop, step, leaks, drift>>
searchVars == <<allocatedMemory, newAddress, oldAllocated, status, loop, step>>

Loops == {"anyPages", "firstEasy", "easy", "firstByPage", "byPage"}
Steps == {"pick", "try", "check", "start", "loaded", "returned"}
Statuses == {"SUCCESS", "NOT_FOUND", "OUT_OF_RESOURCES", "INVALID_PARAMETER"}

TypeOK ==
  /\ free \in SUBSET Page
  /\ content \in [Page -> Content]
  /\ held \in SUBSET Page
  /\ allocatedMemory \in Addr
  /\ newAddress \in Addr
  /\ oldAllocated \in Addr
  /\ status \in Statuses
  /\ loop \in Loops
  /\ step \in Steps
  /\ leaks \in 0 .. MaxLeaks
  /\ drift \in 0 .. MaxDrift

Init ==
  /\ free \in InitialFree
  /\ content \in InitialContents
  /\ held = {}
  /\ allocatedMemory = 0
  /\ newAddress = 0
  /\ oldAllocated = 0
  /\ status = "SUCCESS"
  /\ loop = "anyPages"
  /\ step = "start"
  /\ leaks = 0
  /\ drift = 0

-----------------------------------------------------------------------------
At(l, s) == loop = l /\ step = s
Goto(l, s) == loop' = l /\ step' = s
Return(error) == status' = error /\ step' = "returned" /\ loop' = loop

IsFree(p) == PagesFrom(p) \subseteq free
AllocatedAt(p) == held' = PagesFrom(p) /\ free' = free \ PagesFrom(p)

\* VerifyZeroMem and compare, on the pages held from AllocatedMemory.
IsZero == \A p \in held : content[p] = "zero"
StartsWithMagic ==
  \E p \in held : allocatedMemory = StartOf(p) /\ content[p] \in {"magic", "stuckMagic"}
IsAccepted == IsZero \/ StartsWithMagic

Zeroed(c) == IF c \in {"stuckJunk", "stuckMagic"} THEN c ELSE "zero"

\* (A name with Bug in it is a mutant of the definition after it: what the
\* code could have done wrong, for the runs to notice.)

\* The rest of memory keeps what it holds.
FreeHeldBugSkipped == held' = held /\ free' = free
FreeHeld == held' = {} /\ free' = free \cup held

-----------------------------------------------------------------------------
(* AllocateAnyPages and ZeroMem.                                           *)

AllocateAnyPagesBugRange(p) ==
  /\ At("anyPages", "start")
  /\ p \in free
  /\ AllocatedAt(p)
  /\ allocatedMemory' = StartOf(p)
  /\ status' = "SUCCESS"
  /\ Goto("anyPages", "check")
  /\ UNCHANGED <<content, newAddress, oldAllocated, leaks, drift>>

AllocateAnyPages(p) ==
  /\ At("anyPages", "start")
  /\ IsFree(p)
  /\ AllocatedAt(p)
  /\ content' = [q \in Page |-> IF q \in PagesFrom(p) THEN Zeroed(content[q]) ELSE content[q]]
  /\ allocatedMemory' = StartOf(p)
  /\ status' = "SUCCESS"
  /\ Goto("anyPages", "check")
  /\ UNCHANGED <<newAddress, oldAllocated, leaks, drift>>

AllocateAnyPagesFails ==
  /\ At("anyPages", "start")
  /\ ServicesMayFail \/ ~ \E p \in Page : IsFree(p)
  /\ Return("OUT_OF_RESOURCES")
  /\ UNCHANGED <<free, content, held, allocatedMemory, newAddress, oldAllocated, leaks, drift>>

-----------------------------------------------------------------------------
(* VerifyZeroMem on the range held: keep it, or free it and look further.  *)

Accept ==
  /\ step = "check"
  /\ MemoryCheck => IsAccepted
  /\ Goto(loop, "loaded")
  /\ UNCHANGED <<free, content, held, allocatedMemory, newAddress, oldAllocated, status, leaks, drift>>

\* The range that AllocateAnyPages gave is the known bad one; the search
\* starts with AllocatePages at 0.
RejectAnyPages ==
  /\ At("anyPages", "check")
  /\ MemoryCheck /\ ~IsAccepted
  /\ FreeHeld
  /\ oldAllocated' = allocatedMemory
  /\ newAddress' = 0
  /\ status' = "SUCCESS"
  /\ Goto("firstEasy", "try")
  /\ UNCHANGED <<content, allocatedMemory, leaks, drift>>

Reject ==
  /\ loop \in {"easy", "byPage"} /\ step = "check"
  /\ ~IsAccepted
  /\ FreeHeld
  /\ status' = "NOT_FOUND"
  /\ Goto(loop, "pick")
  /\ UNCHANGED <<content, allocatedMemory, newAddress, oldAllocated, leaks, drift>>

FreePagesFails ==
  /\ step = "check"
  /\ ServicesMayFail
  /\ MemoryCheck /\ ~IsAccepted
  /\ Return("INVALID_PARAMETER")
  /\ UNCHANGED <<free, content, held, allocatedMemory, newAddress, oldAllocated, leaks, drift>>

-----------------------------------------------------------------------------
(* AllocatePages(AllocateAddress, EfiLoaderData, pages, &NewAddress).      *)

AllocateAddressBugOldAddress(p) ==
  /\ step = "try"
  /\ newAddress = StartOf(p)
  /\ IsFree(p)
  /\ AllocatedAt(p)
  /\ status' = "SUCCESS"
  /\ Goto(CASE loop = "firstEasy" -> "easy" [] loop = "firstByPage" -> "byPage" [] OTHER -> loop,
          "check")
  /\ UNCHANGED <<content, allocatedMemory, newAddress, oldAllocated, leaks, drift>>

AllocateAddress(p) ==
  /\ step = "try"
  /\ newAddress = StartOf(p)
  /\ IsFree(p)
  /\ AllocatedAt(p)
  /\ allocatedMemory' = newAddress
  /\ status' = "SUCCESS"
  /\ Goto(CASE loop = "firstEasy" -> "easy" [] loop = "firstByPage" -> "byPage" [] OTHER -> loop,
          "check")
  /\ UNCHANGED <<content, newAddress, oldAllocated, leaks, drift>>

AllocateAddressNotFoundBugStatus ==
  /\ step = "try"
  /\ ~ \E p \in Page : newAddress = StartOf(p) /\ IsFree(p)
  /\ Goto(loop, "pick")
  /\ UNCHANGED <<free, content, held, allocatedMemory, newAddress, oldAllocated, status, leaks, drift>>

AllocateAddressNotFound ==
  /\ step = "try"
  /\ ~ \E p \in Page : newAddress = StartOf(p) /\ IsFree(p)
  /\ status' = "NOT_FOUND"
  /\ Goto(loop, "pick")
  /\ UNCHANGED <<free, content, held, allocatedMemory, newAddress, oldAllocated, leaks, drift>>

AllocateAddressFails ==
  /\ step = "try"
  /\ ServicesMayFail
  /\ Return("OUT_OF_RESOURCES")
  /\ UNCHANGED <<free, content, held, allocatedMemory, newAddress, oldAllocated, leaks, drift>>

-----------------------------------------------------------------------------
(* The next address.  PE32+ wants to stay under 4 GB.                      *)

Above4GB(a) == Kind = "PE" /\ a >= FourGB

NextEasyBugFromZero(a, l) == ActuallyFreeAddress(free, l, 0)
NextEasy(a, l) ==
  UNION {IF r.addr = oldAllocated THEN ActuallyFreeAddress(free, r.leaks, r.addr)
         ELSE IF Above4GB(r.addr) THEN {[r EXCEPT !.addr = NoAddr]}
         ELSE {r} : r \in ActuallyFreeAddress(free, l, a)}

NextByPageBugUnchecked(a, l) == ActuallyFreeAddressByPage(free, l, a)
NextByPage(a, l) ==
  UNION {IF r.addr = oldAllocated THEN ActuallyFreeAddressByPage(free, r.leaks, r.addr)
         ELSE IF Above4GB(r.addr) THEN ActuallyFreeAddress(free, r.leaks, 0)
         ELSE {r} : r \in ActuallyFreeAddressByPage(free, l, a)}

\* The first loop returns when there is no next address; the second goes on
\* to the page-by-page search.
PickEasy ==
  /\ loop \in {"firstEasy", "easy"} /\ step = "pick"
  /\ \E r \in NextEasy(newAddress, leaks) :
       /\ newAddress' = r.addr
       /\ leaks' = r.leaks
       /\ \/ /\ r.addr # NoAddr
             /\ Goto(loop, "try")
             /\ UNCHANGED <<allocatedMemory, status>>
          \/ /\ r.addr = NoAddr /\ loop = "firstEasy"
             /\ Return(status)
             /\ UNCHANGED allocatedMemory
          \/ /\ r.addr = NoAddr /\ loop = "easy"
             /\ allocatedMemory' = NoAddr
             /\ Goto("firstByPage", "start")
             /\ UNCHANGED status
  /\ UNCHANGED <<free, content, held, oldAllocated, drift>>

StartByPage ==
  /\ At("firstByPage", "start")
  /\ IF Kind = "PE"
     THEN newAddress' = ByPageStart /\ leaks' = leaks
     ELSE \E r \in ActuallyFreeAddress(free, leaks, 0) : newAddress' = r.addr /\ leaks' = r.leaks
  /\ status' = "NOT_FOUND"
  /\ Goto("firstByPage", "pick")
  /\ UNCHANGED <<free, content, held, allocatedMemory, oldAllocated, drift>>

\* The last loop of the ELF and Mach-O copies asks AllocatedMemory, not
\* NewAddress, whether addresses have run out.
OutOfAddresses(next) ==
  IF loop = "byPage" /\ Kind # "PE" THEN allocatedMemory = NoAddr ELSE next = NoAddr

PickByPage ==
  /\ loop \in {"firstByPage", "byPage"} /\ step = "pick"
  /\ \E r \in NextByPage(newAddress, leaks) :
       /\ newAddress' = r.addr
       /\ leaks' = r.leaks
       /\ IF OutOfAddresses(r.addr) THEN Return(status) ELSE Goto(loop, "try") /\ status' = status
  /\ UNCHANGED <<free, content, held, allocatedMemory, oldAllocated, drift>>

-----------------------------------------------------------------------------
(* The firmware, between two calls of the loader.                          *)

Running == step \notin {"loaded", "returned"}

FirmwareTakes(p) ==
  /\ Running /\ drift < MaxDrift
  /\ p \in free
  /\ free' = free \ {p}
  /\ drift' = drift + 1
  /\ UNCHANGED <<content, held, searchVars, leaks>>

FirmwareReturns(p) ==
  /\ Running /\ drift < MaxDrift
  /\ p \notin free \cup held
  /\ free' = free \cup {p}
  /\ content' = [content EXCEPT ![p] = IF @ \in {"stuckJunk", "stuckMagic"} THEN @ ELSE "junk"]
  /\ drift' = drift + 1
  /\ UNCHANGED <<held, searchVars, leaks>>

Loader ==
  \/ \E p \in Page : AllocateAnyPages(p)
  \/ AllocateAnyPagesFails
  \/ Accept
  \/ RejectAnyPages
  \/ Reject
  \/ FreePagesFails
  \/ \E p \in Page : AllocateAddress(p)
  \/ AllocateAddressNotFound
  \/ AllocateAddressFails
  \/ PickEasy
  \/ StartByPage
  \/ PickByPage

Firmware == \E p \in Page : FirmwareTakes(p) \/ FirmwareReturns(p)

Next == Loader \/ Firmware
Spec == Init /\ [][Next]_vars

\* The loader is one thread that never waits: it takes its next step.
FairSpec == Spec /\ WF_vars(Loader)

-----------------------------------------------------------------------------
(* Properties.                                                             *)

\* The pages held are one whole range at AllocatedMemory, and none of them
\* is free: a range is never allocated over another, freed in part or at an
\* address other than its own, through all four loops and their exits.
Ownership ==
  /\ held \cap free = {}
  /\ held # {} => \E p \in Page : allocatedMemory = StartOf(p) /\ held = PagesFrom(p)

\* One range at most is ever allocated: whenever the code is about to pick
\* or allocate an address, it has freed the range before.
HeldOnlyToBeRead ==
  held # {} => step \in {"check", "loaded"} \/ (step = "returned" /\ status = "INVALID_PARAMETER")

\* At most one range, whole and under its own address, and only while it is
\* being read or used.
OneRange == Ownership /\ HeldOnlyToBeRead

\* GoTime goes on to load the file only with a range, AllocatePages' success
\* in GoTimeStatus, and (with the memory check) a range that was all zeros
\* or began with the kernel's magic number.
LoadedIsUsable ==
  step = "loaded" => /\ held # {}
                     /\ status = "SUCCESS"
                     /\ MemoryCheck => IsAccepted

\* A search that gives up returns an error, never the success of an earlier
\* AllocatePages or FreePages, and keeps no page unless FreePages failed.
ReturnedIsClean ==
  step = "returned" => /\ status # "SUCCESS"
                       /\ held # {} => status = "INVALID_PARAMETER"

\* What GoTimeStatus says when the search ends is what has happened, through
\* five loops that steer by it as well.
OutcomeIsTrue == LoadedIsUsable /\ ReturnedIsClean

\* The loader moves pages between free and held and loses or takes none:
\* only the firmware changes which pages the two make up together.
PagesConserved ==
  [][drift' = drift => free' \cup held' = free \cup held]_vars

\* ActuallyFreeAddress goes bottom-up: a turn of the first two loops never
\* goes back, so no range is read twice there and they end.
EasySearchAscends ==
  [][step = "pick" /\ step' # "pick" /\ loop \in {"firstEasy", "easy"}
       => newAddress' > newAddress]_vars

\* The range AllocateAnyPages gave, once found dirty, is not allocated again:
\* every loop steps over it ("Make sure the new address isn't the known bad
\* one").  The search's first try, address 0, is exempt.
KnownBadAvoided ==
  loop # "anyPages" /\ held # {} /\ oldAllocated # 0 => allocatedMemory # oldAllocated

\* The page-by-page loops start from descriptors that do not start at address 0.
InHigherDescriptor(p) == \E d \in Descriptors(free) : d.first \in 1 .. p /\ p <= d.last

\* Ranges of zeros the search is meant to find: those under 4 GB for PE32+.
CleanRanges ==
  {p \in Page : /\ IsFree(p)
                /\ \A q \in PagesFrom(p) : content[q] = "zero"
                /\ ~Above4GB(StartOf(p))
                /\ p = 0 \/ InHigherDescriptor(p)}

\* When the search starts and there is a range of zeros, the search ends with
\* a range, wherever the dirty ones are.
FindsCleanRange == At("firstByPage", "start") /\ CleanRanges # {} ~> step = "loaded"

\* What FindsCleanRange says but for the time it takes: as long as the firmware
\* leaves the map alone, no range of zeros is ever behind the page-by-page
\* search, and it reports EFI_NOT_FOUND only when there is none.
NoRangeLeftBehind ==
  loop \in {"firstByPage", "byPage"} /\ drift = 0 =>
    /\ step \in {"pick", "try"} => \A p \in CleanRanges : StartOf(p) >= newAddress
    /\ step = "returned" /\ status = "NOT_FOUND" => CleanRanges = {}

\* The search comes to an end.
SearchEnds == <>(step \in {"loaded", "returned"})

-----------------------------------------------------------------------------
(* Strengthenings for the proofs: what holds between two calls.            *)

\* A range is read only after a success, and an address is picked only after
\* a failure.
StepMatchesStatus ==
  /\ step = "check" => held # {} /\ status = "SUCCESS"
  /\ step = "pick" => status = "NOT_FOUND"

\* The easy loops pick on from an address, never from "none".
EasyHasAddress ==
  loop \in {"firstEasy", "easy"} /\ step \in {"pick", "try", "check"} => newAddress # NoAddr

\* The address to allocate is not the known bad one.
TriesAnother ==
  /\ oldAllocated # NoAddr
  /\ loop # "anyPages" /\ oldAllocated # 0 /\ step = "try" => newAddress # oldAllocated

SafetyInv ==
  /\ TypeOK /\ Ownership /\ HeldOnlyToBeRead /\ LoadedIsUsable /\ ReturnedIsClean
  /\ StepMatchesStatus

\* With a map that is not read after it is freed.
AscentInv == SafetyInv /\ EasyHasAddress

\* With such a map, and for the copies that have no 4 GB limit.
KnownBadInv == SafetyInv /\ TriesAnother /\ KnownBadAvoided

\* The ranges of zeros, whether or not the search holds one just now, and those
\* of them that the easy loops try: address 0 and the starts of descriptors.
Total == free \cup held
StartsDescriptor(p) == p = 0 \/ \E d \in Descriptors(Total) : d.first = p
Clean(p) ==
  /\ PagesFrom(p) \subseteq Total
  /\ \A q \in PagesFrom(p) : content[q] = "zero"
  /\ p = 0 \/ \E d \in Descriptors(Total) : d.first \in 1 .. p /\ p <= d.last
CleanPages == {p \in Page : Clean(p)}
CleanStarts == {p \in CleanPages : StartsDescriptor(p)}

\* All of `ranges' are still to come: what is held or about to be tried may be
\* one of them, what has been tried is none.
Ahead(ranges) ==
  /\ step \in {"try", "check"} => \A p \in ranges : StartOf(p) >= newAddress
  /\ step = "pick" => \A p \in ranges : StartOf(p) > newAddress

\* With a quiet firmware and a sorted map the easy loops pass over no start of a
\* descriptor, and so the page-by-page ones, which begin with such a start, over
\* no range.  An address may have wrapped only when nothing was left to find, and
\* at most one map has been leaked before.
EasyIsThorough ==
  loop \in {"firstEasy", "easy"} => leaks = 0 \/ step = "returned"
ByPageIsThorough ==
  /\ loop = "firstByPage" /\ step = "start" => CleanStarts = {} /\ leaks <= 1
  /\ loop \in {"firstByPage", "byPage"} /\ step \in {"pick", "try", "check"} /\ CleanPages # {} =>
       leaks <= 1 /\ \E q \in Page : newAddress = StartOf(q)
ThoroughInv ==
  drift = 0 =>
    /\ loop # "anyPages" => \A p \in CleanPages : StartOf(p) # oldAllocated
    /\ loop = "anyPages" => leaks = 0
    /\ loop \in {"easy", "byPage"} /\ step = "check" => allocatedMemory = newAddress
    /\ loop = "byPage" => allocatedMemory # NoAddr
    /\ loop \in {"firstEasy", "easy"} => Ahead(CleanStarts)
    /\ loop \in {"firstByPage", "byPage"} => Ahead(CleanPages)
    /\ EasyIsThorough /\ ByPageIsThorough
    /\ loop \in {"firstByPage", "byPage"} /\ step = "returned" /\ status = "NOT_FOUND" => CleanPages = {}

-----------------------------------------------------------------------------
(* The search as a way to take memory for the kernel.                      *)

KernelRanges == {PagesFrom(p) : p \in Page}
Outcome ==
  CASE step = "loaded" -> "granted" [] step = "returned" -> "refused" [] OTHER -> "searching"

Memory == INSTANCE KernelMemory WITH Ranges <- KernelRanges, outcome <- Outcome

\* Every step of the search takes one range out of the free pages, puts back
\* exactly the one it has, ends the search, or changes no memory at all.
ImplementsKernelMemory == Memory!MemSpec
=============================================================================
