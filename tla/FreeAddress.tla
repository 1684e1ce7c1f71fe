---------------------------- MODULE FreeAddress ----------------------------
(***************************************************************************)
(* Memory.c: how the loader asks the firmware for the address of memory    *)
(* that is really free.                                                    *)
(*                                                                         *)
(* Physical memory is the pages 0 .. NumPages-1; `free' is the set of      *)
(* pages that the firmware's map calls EfiConventionalMemory.  The map is  *)
(* the set of maximal runs of such pages, one descriptor each.             *)
(*                                                                         *)
(* An address is a 64-bit number.  The code only ever holds two kinds: the *)
(* first byte of a page and the last byte of one (0xFFF, 0x1FFF, ...; ~0   *)
(* is such an address, and so is ~0 plus any number of pages), so an       *)
(* address is counted in half pages, modulo WordSize: page p starts at 2*p *)
(* and 2*p + 1 is its last byte.  EFI_PAGE_SIZE is 2.                      *)
(***************************************************************************)
EXTENDS Integers

CONSTANTS
  NumPages,      \* pages of physical memory
  KernelPages,   \* `pages': what the kernel file needs
  WordSize,      \* 2^64, in half pages
  MapIsSorted,   \* does GetMemoryMap list descriptors by address?
  StaleReads,    \* what Piece->PhysicalStart can read from the freed map
  MaxLeaks,      \* maps the pool holds before AllocatePool fails
  PoolMayFail    \* may AllocatePool or GetMemoryMap fail before that?

Page == 0 .. NumPages - 1
Addr == 0 .. WordSize - 1
NoAddr == WordSize - 1                \* ~0ULL
Span == 2 * KernelPages               \* pages << EFI_PAGE_SHIFT

ASSUME SizesAssumption ==
  /\ NumPages \in Nat \ {0}
  /\ KernelPages \in Nat \ {0}
  /\ WordSize \in Nat
  /\ WordSize % 2 = 0
  /\ 2 * NumPages + Span < WordSize   \* physical memory ends far below 2^64

ASSUME MapAssumption ==
  /\ MapIsSorted \in BOOLEAN
  /\ PoolMayFail \in BOOLEAN
  /\ StaleReads \subseteq Addr
  /\ MaxLeaks \in Nat

-----------------------------------------------------------------------------
StartOf(p) == 2 * p
PagesFrom(p) == p .. p + KernelPages - 1

\* The 64-bit sum of two addresses.
Wrapped(sum) == IF sum < WordSize THEN sum ELSE sum - WordSize

\* An EfiConventionalMemory descriptor with Piece->NumberOfPages >= pages.
Descriptors(free) ==
  {d \in [first : Page, last : Page] :
     /\ d.first <= d.last
     /\ d.first .. d.last \subseteq free
     /\ d.first - 1 \notin free
     /\ d.last + 1 \notin free}

BigEnough(free) ==
  {d \in Descriptors(free) : d.last - d.first + 1 >= KernelPages}

\* The loops stop at the first descriptor of the map that fits.
FirstInMap(found) ==
  {d \in found : MapIsSorted => \A e \in found : d.first <= e.first}

(***************************************************************************)
(* What a call returns, with the number of maps leaked so far: a set, for  *)
(* the outcomes the firmware allows.  A map is not freed when nothing is   *)
(* found or when GetMemoryMap fails; once the pool is full of such maps    *)
(* AllocatePool fails.  Leaks are counted up to MaxLeaks.                  *)
(***************************************************************************)
Result == [addr : Addr, leaks : 0 .. MaxLeaks]

NoMap(leaks) ==
  IF leaks = MaxLeaks THEN {[addr |-> NoAddr, leaks |-> leaks]}
  ELSE IF PoolMayFail THEN {[addr |-> NoAddr, leaks |-> l] : l \in {leaks, leaks + 1}}
  ELSE {}

NothingFound(leaks) == {[addr |-> NoAddr, leaks |-> leaks + 1]}

\* ActuallyFreeAddress: the start of the first descriptor above `old', read
\* through Piece after FreePool(MemMap).
ActuallyFreeAddress(free, leaks, old) ==
  LET fits == {d \in BigEnough(free) : StartOf(d.first) > old}
  IN  NoMap(leaks) \cup
      IF leaks = MaxLeaks THEN {}
      ELSE IF fits = {} THEN NothingFound(leaks)
      ELSE {[addr |-> a, leaks |-> leaks] :
              a \in {StartOf(d.first) : d \in FirstInMap(fits)} \cup StaleReads}

\* The bound test of the page-by-page search: old + size < PhysicalEnd, in
\* 64-bit arithmetic, where PhysicalEnd is one byte into the last page.
HasRoomAfterBugShort(d, old) ==  \* a mutant of the next: stops a page early
  /\ old >= StartOf(d.first)
  /\ Wrapped(old + Span) < StartOf(d.last)

HasRoomAfter(d, old) ==
  /\ old >= StartOf(d.first)
  /\ Wrapped(old + Span) <= StartOf(d.last)

\* ActuallyFreeAddressByPage: the page after `old' in its own descriptor, or
\* else the start of the first descriptor above it.  The answer is copied
\* before the map is freed.
ActuallyFreeAddressByPage(free, leaks, old) ==
  LET fits == {d \in BigEnough(free) : HasRoomAfter(d, old) \/ StartOf(d.first) > old}
      Discovered(d) == IF HasRoomAfter(d, old) THEN Wrapped(old + 2)
                       ELSE StartOf(d.first)
  IN  NoMap(leaks) \cup
      IF leaks = MaxLeaks THEN {}
      ELSE IF fits = {} THEN NothingFound(leaks)
      ELSE {[addr |-> Discovered(d), leaks |-> leaks] : d \in FirstInMap(fits)}
=============================================================================
