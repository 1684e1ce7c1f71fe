------------------------- MODULE KernelAllocProofs -------------------------
(* The search of KernelAlloc keeps hold of exactly one range at a time, for *)
(* every size of memory, every map and every content.                      *)
EXTENDS KernelAlloc, FreeAddressProofs, TLAPS

\* What the four loops pick is an address, and the leaks stay in bounds.
LEMMA NextEasyResult ==
  ASSUME NEW a \in Addr, NEW l \in 0 .. MaxLeaks, NEW r \in NextEasy(a, l)
  PROVE  r \in Result
<1>1. PICK s \in ActuallyFreeAddress(free, l, a) :
        r \in IF s.addr = oldAllocated THEN ActuallyFreeAddress(free, s.leaks, s.addr)
              ELSE IF Above4GB(s.addr) THEN {[s EXCEPT !.addr = NoAddr]}
              ELSE {s}
  BY DEF NextEasy
<1>2. s \in Result /\ s.addr \in Addr /\ s.leaks \in 0 .. MaxLeaks
  BY FreeAddressResult DEF Result
<1>3. CASE r \in ActuallyFreeAddress(free, s.leaks, s.addr)
  BY <1>2, <1>3, FreeAddressResult
<1>4. CASE r = [s EXCEPT !.addr = NoAddr]
  BY <1>2, <1>4, NoAddrIsAddress DEF Result
<1> QED BY <1>1, <1>2, <1>3, <1>4

LEMMA NextByPageResult ==
  ASSUME NEW a \in Addr, NEW l \in 0 .. MaxLeaks, NEW r \in NextByPage(a, l)
  PROVE  r \in Result
<1>1. PICK s \in ActuallyFreeAddressByPage(free, l, a) :
        r \in IF s.addr = oldAllocated THEN ActuallyFreeAddressByPage(free, s.leaks, s.addr)
              ELSE IF Above4GB(s.addr) THEN ActuallyFreeAddress(free, s.leaks, 0)
              ELSE {s}
  BY DEF NextByPage
<1>2. s \in Result /\ s.addr \in Addr /\ s.leaks \in 0 .. MaxLeaks
  BY ByPageResult DEF Result
<1>3. CASE r \in ActuallyFreeAddressByPage(free, s.leaks, s.addr)
  BY <1>2, <1>3, ByPageResult
<1>4. CASE r \in ActuallyFreeAddress(free, s.leaks, 0)
  BY <1>2, <1>4, FreeAddressResult, NoAddrIsAddress
<1> QED BY <1>1, <1>2, <1>3, <1>4

LEMMA AllocatedRange ==
  ASSUME free \in SUBSET Page, NEW p \in Page, IsFree(p), AllocatedAt(p)
  PROVE  /\ free' \in SUBSET Page /\ held' \in SUBSET Page
         /\ held' = PagesFrom(p) /\ held' # {} /\ p \in held'
         /\ held' \cap free' = {}
<1>1. p \in PagesFrom(p)
  BY SizesAssumption DEF Page, PagesFrom
<1> QED BY <1>1 DEF IsFree, AllocatedAt

-----------------------------------------------------------------------------
LEMMA InitSafety == Init => SafetyInv
BY InitialAssumption, MapAssumption, KindAssumption, NoAddrIsAddress
   DEF Init, SafetyInv, TypeOK, Ownership, HeldOnlyToBeRead, LoadedIsUsable, ReturnedIsClean,
       StepMatchesStatus, Loops, Steps, Statuses

\* Every step keeps the invariant: one case for each action.
LEMMA StepSafety == SafetyInv /\ [Next]_vars => SafetyInv'
<1> SUFFICES ASSUME SafetyInv, [Next]_vars PROVE SafetyInv'
  OBVIOUS
<1> USE DEF SafetyInv, TypeOK, Ownership, HeldOnlyToBeRead, LoadedIsUsable, ReturnedIsClean,
            StepMatchesStatus, Loops, Steps, Statuses, At, Goto, Return
<1>1. ASSUME NEW p \in Page, AllocateAnyPages(p) PROVE SafetyInv'
  <2>1. content' \in [Page -> Content]
    BY <1>1 DEF AllocateAnyPages, Zeroed, Content
  <2> QED BY <1>1, <2>1, AllocatedRange, StartIsAddress DEF AllocateAnyPages
<1>2. ASSUME AllocateAnyPagesFails PROVE SafetyInv'
  BY <1>2 DEF AllocateAnyPagesFails
<1>3. ASSUME Accept PROVE SafetyInv'
  BY <1>3 DEF Accept, IsAccepted, IsZero, StartsWithMagic
<1>4. ASSUME RejectAnyPages PROVE SafetyInv'
  BY <1>4, NoAddrIsAddress DEF RejectAnyPages, FreeHeld
<1>5. ASSUME Reject PROVE SafetyInv'
  BY <1>5 DEF Reject, FreeHeld
<1>6. ASSUME FreePagesFails PROVE SafetyInv'
  BY <1>6 DEF FreePagesFails
<1>7. ASSUME NEW p \in Page, AllocateAddress(p) PROVE SafetyInv'
  BY <1>7, AllocatedRange DEF AllocateAddress
<1>8. ASSUME AllocateAddressNotFound PROVE SafetyInv'
  BY <1>8 DEF AllocateAddressNotFound
<1>9. ASSUME AllocateAddressFails PROVE SafetyInv'
  BY <1>9 DEF AllocateAddressFails
<1>10. ASSUME PickEasy PROVE SafetyInv'
  <2>1. PICK r \in NextEasy(newAddress, leaks) : newAddress' = r.addr /\ leaks' = r.leaks
    BY <1>10 DEF PickEasy
  <2>2. newAddress' \in Addr /\ leaks' \in 0 .. MaxLeaks
    BY <2>1, NextEasyResult DEF Result
  <2> QED BY <1>10, <2>2, NoAddrIsAddress DEF PickEasy
<1>11. ASSUME StartByPage PROVE SafetyInv'
  <2>1. newAddress' \in Addr /\ leaks' \in 0 .. MaxLeaks
    <3>1. CASE Kind = "PE"
      BY <1>11, <3>1, KindAssumption DEF StartByPage
    <3>2. CASE Kind # "PE"
      <4>1. PICK r \in ActuallyFreeAddress(free, leaks, 0) :
              newAddress' = r.addr /\ leaks' = r.leaks
        BY <1>11, <3>2 DEF StartByPage
      <4> QED BY <4>1, FreeAddressResult, NoAddrIsAddress DEF Result
    <3> QED BY <3>1, <3>2
  <2> QED BY <1>11, <2>1 DEF StartByPage
<1>12. ASSUME PickByPage PROVE SafetyInv'
  <2>1. PICK r \in NextByPage(newAddress, leaks) : newAddress' = r.addr /\ leaks' = r.leaks
    BY <1>12 DEF PickByPage
  <2>2. newAddress' \in Addr /\ leaks' \in 0 .. MaxLeaks
    BY <2>1, NextByPageResult DEF Result
  <2> QED BY <1>12, <2>2 DEF PickByPage
<1>13. ASSUME NEW p \in Page, FirmwareTakes(p) PROVE SafetyInv'
  BY <1>13, KindAssumption DEF FirmwareTakes, Running, searchVars
<1>14. ASSUME NEW p \in Page, FirmwareReturns(p) PROVE SafetyInv'
  <2>1. content' \in [Page -> Content]
    BY <1>14 DEF FirmwareReturns, Content
  <2> QED BY <1>14, <2>1, KindAssumption DEF FirmwareReturns, Running, searchVars
<1>15. CASE UNCHANGED vars
  BY <1>15 DEF vars, IsAccepted, IsZero, StartsWithMagic
<1> QED
  BY <1>1, <1>2, <1>3, <1>4, <1>5, <1>6, <1>7, <1>8, <1>9, <1>10, <1>11, <1>12, <1>13, <1>14,
     <1>15 DEF Next, Loader, Firmware

LEMMA SearchIsSafe == Spec => []SafetyInv
BY InitSafety, StepSafety, PTL DEF Spec

\* The search's variables keep to their types.
THEOREM AllocTypes == Spec => []TypeOK
<1>1. SafetyInv => TypeOK
  BY DEF SafetyInv
<1> QED BY <1>1, SearchIsSafe, PTL

\* For every memory, map, content and format: one range at most is allocated,
\* whole, at AllocatedMemory, while VerifyZeroMem reads it or the kernel uses it.
THEOREM Safety == Spec => []OneRange
<1>1. SafetyInv => OneRange
  BY DEF SafetyInv, OneRange
<1> QED BY <1>1, SearchIsSafe, PTL

\* GoTimeStatus ends up true to what has happened: success with a range that
\* passed the memory check, or an error and nothing left allocated.
THEOREM TrueOutcome == Spec => []OutcomeIsTrue
<1>1. SafetyInv => OutcomeIsTrue
  BY DEF SafetyInv, OutcomeIsTrue
<1> QED BY <1>1, SearchIsSafe, PTL

-----------------------------------------------------------------------------
LEMMA PagesKept ==
  ASSUME SafetyInv, Next, drift' = drift
  PROVE  free' \cup held' = free \cup held
<1>1. SafetyInv'
  BY StepSafety
<1>2. ASSUME NEW p \in Page, AllocateAnyPages(p) \/ AllocateAddress(p)
      PROVE free' \cup held' = free \cup held
  <2>1. held = {}
    BY <1>2 DEF SafetyInv, HeldOnlyToBeRead, AllocateAnyPages, AllocateAddress, At
  <2>2. IsFree(p) /\ AllocatedAt(p)
    BY <1>2 DEF AllocateAnyPages, AllocateAddress
  <2> QED BY <2>1, <2>2 DEF IsFree, AllocatedAt
<1>3. CASE RejectAnyPages \/ Reject
  BY <1>3 DEF RejectAnyPages, Reject, FreeHeld
<1>4. CASE \/ AllocateAnyPagesFails \/ Accept \/ FreePagesFails \/ AllocateAddressNotFound
           \/ AllocateAddressFails \/ PickEasy \/ StartByPage \/ PickByPage
  BY <1>4 DEF AllocateAnyPagesFails, Accept, FreePagesFails, AllocateAddressNotFound,
              AllocateAddressFails, PickEasy, StartByPage, PickByPage
<1>5. ASSUME NEW p \in Page, FirmwareTakes(p) \/ FirmwareReturns(p)
      PROVE  FALSE
  BY <1>5, KindAssumption DEF FirmwareTakes, FirmwareReturns, SafetyInv, TypeOK
<1> QED BY <1>2, <1>3, <1>4, <1>5 DEF Next, Loader, Firmware

\* The loader loses no page and takes none, in any of its steps.
THEOREM Conservation == Spec => PagesConserved
<1>1. SafetyInv /\ [Next]_vars => [drift' = drift => free' \cup held' = free \cup held]_vars
  BY PagesKept
<1> QED BY <1>1, InitSafety, StepSafety, PTL DEF Spec, PagesConserved

-----------------------------------------------------------------------------
\* With the map read before it is freed, the easy loops only go up, even over
\* the known bad address and the 4 GB limit.
LEMMA NextEasyAscends ==
  ASSUME StaleReads = {}, NEW a \in Addr, a # NoAddr, NEW l \in 0 .. MaxLeaks,
         NEW r \in NextEasy(a, l)
  PROVE  r.addr > a
<1>1. PICK s \in ActuallyFreeAddress(free, l, a) :
        r \in IF s.addr = oldAllocated THEN ActuallyFreeAddress(free, s.leaks, s.addr)
              ELSE IF Above4GB(s.addr) THEN {[s EXCEPT !.addr = NoAddr]}
              ELSE {s}
  BY DEF NextEasy
<1>2. /\ s \in Result /\ s.addr \in Addr /\ s.leaks \in 0 .. MaxLeaks
      /\ s.addr = NoAddr \/ s.addr > a
  BY FreeAddressResult DEF Result
<1>3. NoAddr > a
  BY SizesAssumption DEF Addr, NoAddr
<1>4. CASE r \in ActuallyFreeAddress(free, s.leaks, s.addr)
  <2>1. r \in Result /\ (r.addr = NoAddr \/ r.addr > s.addr)
    BY <1>2, <1>4, FreeAddressResult
  <2> QED BY <1>2, <1>3, <2>1, SizesAssumption DEF Result, Addr, NoAddr
<1>5. CASE r = [s EXCEPT !.addr = NoAddr]
  BY <1>2, <1>3, <1>5 DEF Result
<1> QED BY <1>1, <1>2, <1>3, <1>4, <1>5

LEMMA StepAscent ==
  ASSUME StaleReads = {}, AscentInv, [Next]_vars
  PROVE  /\ AscentInv'
         /\ [step = "pick" /\ step' # "pick" /\ loop \in {"firstEasy", "easy"}
               => newAddress' > newAddress]_vars
<1>1. SafetyInv'
  BY StepSafety DEF AscentInv
<1>2. CASE PickEasy
  <2>1. newAddress \in Addr /\ newAddress # NoAddr /\ leaks \in 0 .. MaxLeaks
    BY <1>2 DEF PickEasy, AscentInv, EasyHasAddress, SafetyInv, TypeOK
  <2>2. newAddress' > newAddress
    BY <1>2, <2>1, NextEasyAscends DEF PickEasy
  <2>3. EasyHasAddress'
    BY <1>2 DEF PickEasy, EasyHasAddress, Goto, Return
  <2> QED BY <1>1, <2>2, <2>3 DEF AscentInv
<1>3. CASE ~PickEasy
  <2>1. step = "pick" /\ loop \in {"firstEasy", "easy"} => step' = "pick"
    BY <1>3 DEF Next, Loader, Firmware, AllocateAnyPages, AllocateAnyPagesFails, Accept,
                RejectAnyPages, Reject, FreePagesFails, AllocateAddress,
                AllocateAddressNotFound, AllocateAddressFails, StartByPage, PickByPage,
                FirmwareTakes, FirmwareReturns, searchVars, vars, At
  <2>2. EasyHasAddress'
    <3>1. ASSUME NEW p \in Page, AllocateAddress(p)
          PROVE  EasyHasAddress'
      BY <3>1, StartIsAddress DEF AllocateAddress, EasyHasAddress
    <3>2. CASE RejectAnyPages
      BY <3>2, NoAddrIsAddress DEF RejectAnyPages, EasyHasAddress
    <3>3. CASE Reject \/ AllocateAddressNotFound
      BY <3>3 DEF Reject, AllocateAddressNotFound, EasyHasAddress, AscentInv, Goto
    <3>4. CASE \/ AllocateAnyPagesFails \/ Accept \/ FreePagesFails \/ AllocateAddressFails
               \/ StartByPage \/ PickByPage
      BY <3>4 DEF AllocateAnyPagesFails, Accept, FreePagesFails, AllocateAddressFails,
                  StartByPage, PickByPage, EasyHasAddress, Goto, Return, At
    <3>5. ASSUME NEW p \in Page, AllocateAnyPages(p)
          PROVE  EasyHasAddress'
      BY <3>5 DEF AllocateAnyPages, EasyHasAddress, Goto
    <3>6. CASE Firmware \/ UNCHANGED vars
      BY <3>6 DEF Firmware, FirmwareTakes, FirmwareReturns, vars, searchVars, EasyHasAddress,
                  AscentInv
    <3> QED BY <1>3, <3>1, <3>2, <3>3, <3>4, <3>5, <3>6 DEF Next, Loader
  <2> QED BY <1>1, <2>1, <2>2 DEF AscentInv
<1> QED BY <1>2, <1>3

\* If the memory map is not read after it is freed (StaleReads is empty, where
\* Memory.c:122 does read it), a turn of the easy loops never goes back to an
\* address they have tried.
THEOREM Ascent ==
  ASSUME StaleReads = {}
  PROVE  Spec => EasySearchAscends
<1>1. Init => AscentInv
  BY InitSafety DEF Init, AscentInv, EasyHasAddress
<1>2. AscentInv /\ [Next]_vars
        => AscentInv' /\ [step = "pick" /\ step' # "pick" /\ loop \in {"firstEasy", "easy"}
                            => newAddress' > newAddress]_vars
  BY StepAscent
<1> QED BY <1>1, <1>2, PTL DEF Spec, EasySearchAscends

-----------------------------------------------------------------------------
\* Every step of the search is a step of the memory it takes the kernel's
\* pages from, or leaves that memory alone.
THEOREM Refinement == Spec => ImplementsKernelMemory
<1>1. Init => Memory!MemInit
  BY InitialAssumption DEF Init, Memory!MemInit, Outcome
<1>2. SafetyInv /\ [Next]_vars => [Memory!MemNext]_(Memory!mvars)
  <2> SUFFICES ASSUME SafetyInv, [Next]_vars
               PROVE  Memory!MemNext \/ UNCHANGED <<free, held, Outcome>>
    BY DEF Memory!mvars
  <2> USE DEF Memory!MemNext
  <2>1. ASSUME NEW p \in Page, AllocateAnyPages(p) \/ AllocateAddress(p)
        PROVE  Memory!Take
    <3>1. held = {} /\ Outcome = "searching" /\ Outcome' = "searching"
      BY <2>1 DEF SafetyInv, HeldOnlyToBeRead, AllocateAnyPages, AllocateAddress, At, Goto, Outcome
    <3>2. IsFree(p) /\ AllocatedAt(p)
      BY <2>1 DEF AllocateAnyPages, AllocateAddress
    <3> QED BY <3>1, <3>2 DEF IsFree, AllocatedAt, Memory!Take, KernelRanges
  <2>2. ASSUME RejectAnyPages \/ Reject
        PROVE  Memory!PutBack
    BY <2>2 DEF SafetyInv, StepMatchesStatus, RejectAnyPages, Reject, At, Goto, Outcome, FreeHeld,
                Memory!PutBack
  <2>3. ASSUME Accept
        PROVE  Memory!Grant
    BY <2>3 DEF SafetyInv, StepMatchesStatus, Accept, Goto, Outcome, Memory!Grant
  <2>4. ASSUME \/ AllocateAnyPagesFails \/ FreePagesFails \/ AllocateAddressNotFound
               \/ AllocateAddressFails \/ PickEasy \/ StartByPage \/ PickByPage
        PROVE  Memory!Refuse \/ UNCHANGED <<free, held, Outcome>>
    <3>1. Outcome = "searching" /\ Outcome' \in {"searching", "refused"}
          /\ UNCHANGED <<free, held>>
      BY <2>4 DEF AllocateAnyPagesFails, FreePagesFails, AllocateAddressNotFound,
                  AllocateAddressFails, PickEasy, StartByPage, PickByPage, At, Goto, Return, Outcome
    <3> QED BY <3>1 DEF Memory!Refuse
  <2>5. ASSUME NEW p \in Page, FirmwareTakes(p) \/ FirmwareReturns(p)
        PROVE  Memory!FirmwareStep
    BY <2>5 DEF SafetyInv, TypeOK, Ownership, FirmwareTakes, FirmwareReturns, Running, searchVars,
                Outcome, Memory!FirmwareStep
  <2>6. ASSUME UNCHANGED vars
        PROVE  UNCHANGED <<free, held, Outcome>>
    BY <2>6 DEF vars, Outcome
  <2> QED BY <2>1, <2>2, <2>3, <2>4, <2>5, <2>6 DEF Next, Loader, Firmware
<1> QED BY <1>1, <1>2, InitSafety, StepSafety, PTL
        DEF Spec, ImplementsKernelMemory, Memory!MemSpec

-----------------------------------------------------------------------------
\* Where there is no 4 GB limit, no loop picks the known bad address.
LEMMA NextIsNotKnownBad ==
  ASSUME StaleReads = {}, Kind # "PE", oldAllocated \in Addr, oldAllocated # NoAddr,
         NEW a \in Addr, NEW l \in 0 .. MaxLeaks,
         NEW r \in NextEasy(a, l) \cup NextByPage(a, l)
  PROVE  r.addr # oldAllocated
<1>1. ASSUME NEW b PROVE ~Above4GB(b)
  BY DEF Above4GB
<1>2. CASE r \in NextEasy(a, l)
  <2>1. PICK s \in ActuallyFreeAddress(free, l, a) :
          r \in IF s.addr = oldAllocated THEN ActuallyFreeAddress(free, s.leaks, s.addr)
                ELSE {s}
    BY <1>1, <1>2 DEF NextEasy
  <2>2. s.addr \in Addr /\ s.leaks \in 0 .. MaxLeaks
    BY FreeAddressResult DEF Result
  <2>3. CASE s.addr = oldAllocated
    <3>1. r.addr = NoAddr \/ r.addr > oldAllocated
      BY <2>1, <2>2, <2>3, FreeAddressResult
    <3> QED BY <3>1 DEF Addr
  <2> QED BY <2>1, <2>3
<1>3. CASE r \in NextByPage(a, l)
  <2>1. PICK s \in ActuallyFreeAddressByPage(free, l, a) :
          r \in IF s.addr = oldAllocated THEN ActuallyFreeAddressByPage(free, s.leaks, s.addr)
                ELSE {s}
    BY <1>1, <1>3 DEF NextByPage
  <2>2. s.addr \in Addr /\ s.leaks \in 0 .. MaxLeaks
    BY ByPageResult DEF Result
  <2>3. CASE s.addr = oldAllocated
    BY <2>1, <2>2, <2>3, ByPageResult
  <2> QED BY <2>1, <2>3
<1> QED BY <1>2, <1>3

LEMMA StepKnownBad ==
  ASSUME StaleReads = {}, Kind # "PE", KnownBadInv, [Next]_vars
  PROVE  KnownBadInv'
<1> USE DEF KnownBadInv, TriesAnother, KnownBadAvoided, At, Goto, Return
<1>1. SafetyInv'
  BY StepSafety
<1>2. ASSUME NEW p \in Page, AllocateAnyPages(p) PROVE KnownBadInv'
  BY <1>1, <1>2 DEF AllocateAnyPages
<1>3. CASE RejectAnyPages
  <2>1. allocatedMemory # NoAddr
    <3>1. PICK p \in Page : allocatedMemory = StartOf(p)
      BY <1>3 DEF RejectAnyPages, SafetyInv, StepMatchesStatus, Ownership
    <3> QED BY <3>1, StartIsAddress
  <2> QED BY <1>1, <1>3, <2>1 DEF RejectAnyPages, FreeHeld
<1>4. ASSUME NEW p \in Page, AllocateAddress(p) PROVE KnownBadInv'
  BY <1>1, <1>4 DEF AllocateAddress
<1>5. CASE Reject \/ AllocateAddressNotFound
  BY <1>1, <1>5 DEF Reject, AllocateAddressNotFound, FreeHeld
<1>6. CASE \/ AllocateAnyPagesFails \/ Accept \/ FreePagesFails \/ AllocateAddressFails
           \/ StartByPage
  BY <1>1, <1>6 DEF AllocateAnyPagesFails, Accept, FreePagesFails, AllocateAddressFails,
                    StartByPage
<1>7. CASE PickEasy \/ PickByPage
  <2>1. held = {} /\ UNCHANGED <<held, oldAllocated>>
    BY <1>7 DEF PickEasy, PickByPage, SafetyInv, HeldOnlyToBeRead
  <2>2. newAddress \in Addr /\ leaks \in 0 .. MaxLeaks /\ oldAllocated \in Addr
    BY DEF SafetyInv, TypeOK
  <2>3. \E r \in NextEasy(newAddress, leaks) \cup NextByPage(newAddress, leaks) :
          newAddress' = r.addr
    BY <1>7 DEF PickEasy, PickByPage
  <2>4. newAddress' # oldAllocated
    BY <2>2, <2>3, NextIsNotKnownBad
  <2> QED BY <1>1, <2>1, <2>4
<1>8. CASE Firmware \/ UNCHANGED vars
  BY <1>1, <1>8 DEF Firmware, FirmwareTakes, FirmwareReturns, searchVars, vars
<1> QED BY <1>2, <1>3, <1>4, <1>5, <1>6, <1>7, <1>8 DEF Next, Loader

\* If the memory map is not read after it is freed (StaleReads is empty, where
\* Memory.c:122 does read it: an address left over in the pool could be any), the
\* ELF and Mach-O copies do not allocate the range again that AllocateAnyPages gave
\* and VerifyZeroMem rejected.  The PE32+ copy may: above 4 GB it falls back to the
\* lowest range, and does not compare that one with the range it rejected.
THEOREM KnownBad ==
  ASSUME StaleReads = {}, Kind # "PE"
  PROVE  Spec => []KnownBadAvoided
<1>1. Init => KnownBadInv
  BY InitSafety, NoAddrIsAddress DEF Init, KnownBadInv, TriesAnother, KnownBadAvoided
<1>2. KnownBadInv /\ [Next]_vars => KnownBadInv'
  BY StepKnownBad
<1>3. KnownBadInv => KnownBadAvoided
  BY DEF KnownBadInv
<1> QED BY <1>1, <1>2, <1>3, PTL DEF Spec

-----------------------------------------------------------------------------
(* Where the map is sorted and can always be had, and the firmware quiet,  *)
(* the search passes over no range of zeros.                               *)

SortedMaps ==
  /\ StaleReads = {} /\ MapIsSorted /\ ~PoolMayFail
  /\ MaxLeaks >= 2
  /\ Kind # "PE"

\* A range of zeros lies in a descriptor that has room for it.
LEMMA CleanHasRoom ==
  ASSUME TypeOK, NEW p \in CleanPages, p # 0
  PROVE  \E e \in BigEnough(Total) :
           /\ e.first \in 1 .. p /\ p + KernelPages - 1 <= e.last
           /\ StartsDescriptor(e.first)
<1>1. PICK d \in Descriptors(Total) : d.first \in 1 .. p /\ p <= d.last
  BY DEF CleanPages, Clean
<1>2. d.first \in Int /\ d.last \in Int /\ p \in Int /\ KernelPages \in Int /\ KernelPages > 0
  BY SizesAssumption DEF Descriptors, Page, CleanPages
<1>3. d.last + 1 \notin PagesFrom(p)
  BY DEF CleanPages, Clean, Descriptors
<1>4. p + KernelPages - 1 <= d.last
  BY <1>1, <1>2, <1>3 DEF PagesFrom
<1>5. d \in BigEnough(Total)
  BY <1>1, <1>2, <1>4 DEF BigEnough
<1> QED BY <1>1, <1>4, <1>5 DEF StartsDescriptor

\* The start of a descriptor is asked for before any further one.
LEMMA StartHasRoom ==
  ASSUME TypeOK, NEW p \in CleanStarts, p # 0
  PROVE  \E e \in BigEnough(Total) : e.first = p
<1>1. PICK d \in Descriptors(Total) : d.first = p
  BY DEF CleanStarts, StartsDescriptor
<1>2. d.first \in Int /\ d.last \in Int /\ p \in Int /\ KernelPages \in Int /\ KernelPages > 0
  BY SizesAssumption DEF Descriptors, Page, CleanPages, CleanStarts
<1>3. d.last + 1 \notin PagesFrom(p) /\ p <= d.last
  BY <1>1 DEF CleanStarts, CleanPages, Clean, Descriptors
<1>4. p + KernelPages - 1 <= d.last
  BY <1>2, <1>3 DEF PagesFrom
<1> QED BY <1>1, <1>2, <1>4 DEF BigEnough

LEMMA CleanIsPage == CleanStarts \subseteq CleanPages /\ CleanPages \subseteq Page
BY DEF CleanStarts, CleanPages

LEMMA StartsAreOrdered ==
  ASSUME NEW p \in Page, NEW q \in Page
  PROVE  /\ p \in Nat /\ StartOf(p) \in Nat /\ StartOf(p) < NoAddr
         /\ StartOf(p) < StartOf(q) <=> p < q
         /\ StartOf(p) <= StartOf(q) <=> p <= q
         /\ StartOf(p) = StartOf(q) <=> p = q
BY SizesAssumption DEF Page, StartOf, NoAddr, Span

\* The easy loops step over the known bad address, which is no clean range.
LEMMA NextEasyReaches ==
  ASSUME SortedMaps, TypeOK, held = {}, NEW a \in Addr, oldAllocated # NoAddr, leaks = 0,
         NEW r \in NextEasy(a, leaks),
         \A p \in CleanPages : StartOf(p) # oldAllocated
  PROVE  /\ \A p \in CleanStarts : StartOf(p) > a => StartOf(p) >= r.addr
         /\ r.leaks \in 0 .. 1 /\ (r.addr # NoAddr => r.leaks = 0)
<1> USE DEF SortedMaps
<1>1. PICK s \in ActuallyFreeAddress(free, leaks, a) :
        r \in IF s.addr = oldAllocated THEN ActuallyFreeAddress(free, s.leaks, s.addr) ELSE {s}
  BY DEF NextEasy, Above4GB
<1>2. leaks \in 0 .. MaxLeaks /\ leaks # MaxLeaks /\ MaxLeaks \in Nat /\ Total = free
  BY MapAssumption DEF Total
<1>3. s.addr \in Addr /\ s.leaks \in 0 .. MaxLeaks
  BY <1>2, FreeAddressResult DEF Result
<1>4. s.leaks = 0 \/ (s.addr = NoAddr /\ s.leaks = 1)
  BY <1>2, LeaksWhenNothing
<1>5. \A p \in CleanStarts : StartOf(p) > a => s.leaks = 0 /\ StartOf(p) >= s.addr
  <2> SUFFICES ASSUME NEW p \in CleanStarts, StartOf(p) > a PROVE s.leaks = 0 /\ StartOf(p) >= s.addr
    OBVIOUS
  <2>1. p \in Page /\ p # 0
    BY CleanIsPage, StartsAreOrdered DEF StartOf, Addr
  <2>2. PICK e \in BigEnough(free) : e.first = p
    BY <1>2, <2>1, StartHasRoom
  <2>3. s.leaks = leaks /\ \E b \in Page : s.addr = StartOf(b) /\ b <= p
    BY <1>2, <2>2, NextDescriptor
  <2> QED BY <2>1, <2>3, StartsAreOrdered
<1>6. CASE s.addr # oldAllocated
  BY <1>1, <1>4, <1>5, <1>6
<1>7. CASE s.addr = oldAllocated
  <2>1. r \in ActuallyFreeAddress(free, s.leaks, s.addr) /\ s.leaks = 0 /\ s.leaks # MaxLeaks
    BY <1>1, <1>2, <1>4, <1>7
  <2>2. r.leaks = 0 \/ (r.addr = NoAddr /\ r.leaks = 1)
    BY <1>3, <2>1, LeaksWhenNothing
  <2>3. \A p \in CleanStarts : StartOf(p) > a => StartOf(p) >= r.addr
    <3> SUFFICES ASSUME NEW p \in CleanStarts, StartOf(p) > a PROVE StartOf(p) >= r.addr
      OBVIOUS
    <3>1. StartOf(p) > s.addr /\ p \in Page /\ p # 0
      BY <1>3, <1>5, <1>7, CleanIsPage, StartsAreOrdered DEF StartOf, Addr
    <3>2. PICK e \in BigEnough(free) : e.first = p
      BY <1>2, <3>1, StartHasRoom
    <3>3. \E b \in Page : r.addr = StartOf(b) /\ b <= p
      BY <1>3, <2>1, <3>1, <3>2, NextDescriptor
    <3> QED BY <3>1, <3>3, StartsAreOrdered
  <2> QED BY <2>2, <2>3
<1> QED BY <1>6, <1>7

\* The page-by-page loops do not pass over any clean range.
LEMMA NextByPageReaches ==
  ASSUME SortedMaps, TypeOK, held = {}, NEW q \in Page, leaks <= 1,
         NEW r \in NextByPage(StartOf(q), leaks),
         NEW p \in CleanPages, q < p,
         \A c \in CleanPages : StartOf(c) # oldAllocated
  PROVE  /\ r.leaks = leaks
         /\ \E b \in Page : r.addr = StartOf(b) /\ b <= p
<1> USE DEF SortedMaps
<1>1. PICK s \in ActuallyFreeAddressByPage(free, leaks, StartOf(q)) :
        r \in IF s.addr = oldAllocated THEN ActuallyFreeAddressByPage(free, s.leaks, s.addr) ELSE {s}
  BY DEF NextByPage, Above4GB
<1>2. leaks \in 0 .. MaxLeaks /\ leaks # MaxLeaks /\ MaxLeaks \in Nat /\ Total = free
  BY MapAssumption DEF Total, TypeOK
<1>3. p \in Page /\ p # 0
  BY CleanIsPage, StartsAreOrdered
<1>4. PICK e \in BigEnough(free) : e.first \in 1 .. p /\ p + KernelPages - 1 <= e.last
  BY <1>2, <1>3, CleanHasRoom
<1>5. e.first <= p
  BY <1>4
<1>6. s.leaks = leaks /\ \E b \in Page : s.addr = StartOf(b) /\ b <= p
  BY <1>2, <1>3, <1>4, <1>5, NextPage
<1>7. CASE s.addr # oldAllocated
  BY <1>1, <1>6, <1>7
<1>8. CASE s.addr = oldAllocated
  <2>1. PICK b \in Page : s.addr = StartOf(b) /\ b <= p
    BY <1>6
  <2>2. b < p
    BY <1>3, <1>8, <2>1, StartsAreOrdered
  <2>3. r \in ActuallyFreeAddressByPage(free, leaks, StartOf(b))
    BY <1>1, <1>6, <1>8, <2>1
  <2> QED BY <1>2, <1>3, <1>4, <1>5, <2>2, <2>3, NextPage
<1> QED BY <1>7, <1>8

\* What was found dirty is not clean.
LEMMA RejectedIsDirty ==
  ASSUME SafetyInv, held # {}, ~IsAccepted, NEW p \in CleanPages
  PROVE  StartOf(p) # allocatedMemory
<1>1. PICK q \in Page : allocatedMemory = StartOf(q) /\ held = PagesFrom(q)
  BY DEF SafetyInv, Ownership
<1>2. p # q
  BY <1>1 DEF CleanPages, Clean, IsAccepted, IsZero
<1> QED BY <1>1, <1>2, CleanIsPage, StartsAreOrdered

\* The firmware quiet, the clean ranges stay the same once the search has begun.
LEMMA CleanKept ==
  ASSUME SafetyInv, Next, drift' = drift, ~ \E p \in Page : AllocateAnyPages(p)
  PROVE  CleanPages' = CleanPages /\ CleanStarts' = CleanStarts /\ UNCHANGED content
<1>1. Total' = Total
  BY PagesKept DEF Total
<1>2. UNCHANGED content
  <2>1. ASSUME NEW p \in Page, FirmwareTakes(p) \/ FirmwareReturns(p)
        PROVE  FALSE
    BY <2>1, KindAssumption DEF FirmwareTakes, FirmwareReturns, SafetyInv, TypeOK
  <2> QED
    BY <2>1 DEF Next, Loader, Firmware, AllocateAnyPagesFails, Accept, RejectAnyPages, Reject,
       FreePagesFails, AllocateAddress, AllocateAddressNotFound, AllocateAddressFails, PickEasy,
       StartByPage, PickByPage
<1>3. \A p : Clean(p)' <=> Clean(p)
  BY <1>1, <1>2 DEF Clean
<1>4. \A p : StartsDescriptor(p)' <=> StartsDescriptor(p)
  BY <1>1 DEF StartsDescriptor
<1> QED BY <1>2, <1>3, <1>4 DEF CleanPages, CleanStarts

LEMMA InitThorough == Init => ThoroughInv
BY DEF Init, ThoroughInv, EasyIsThorough, ByPageIsThorough

LEMMA StepThorough ==
  ASSUME SortedMaps, KnownBadInv, ThoroughInv, [Next]_vars
  PROVE  ThoroughInv'
<1> SUFFICES ASSUME Next, drift' = 0 PROVE ThoroughInv'
  <2>1. CASE UNCHANGED vars
    BY <2>1 DEF vars, ThoroughInv, EasyIsThorough, ByPageIsThorough, Ahead, CleanPages, CleanStarts,
       Clean, StartsDescriptor, Total
  <2> QED BY <2>1 DEF ThoroughInv
<1>1. SafetyInv /\ TypeOK /\ oldAllocated # NoAddr
  BY DEF KnownBadInv, SafetyInv, TriesAnother
<1>2. drift = 0 /\ ~Firmware
  BY <1>1, KindAssumption DEF Next, Loader, Firmware, TypeOK, FirmwareTakes, FirmwareReturns,
     AllocateAnyPages, AllocateAnyPagesFails, Accept, RejectAnyPages, Reject, FreePagesFails,
     AllocateAddress, AllocateAddressNotFound, AllocateAddressFails, PickEasy, StartByPage, PickByPage
<1>3. CASE \E p \in Page : AllocateAnyPages(p)
  BY <1>2, <1>3 DEF AllocateAnyPages, ThoroughInv, EasyIsThorough, ByPageIsThorough, At, Goto
<1>4. CASE ~ \E p \in Page : AllocateAnyPages(p)
  <2>1. CleanPages' = CleanPages /\ CleanStarts' = CleanStarts
    BY <1>1, <1>2, <1>4, CleanKept
  <2>2. /\ loop # "anyPages" => \A p \in CleanPages : StartOf(p) # oldAllocated
        /\ loop = "anyPages" => leaks = 0
        /\ loop \in {"easy", "byPage"} /\ step = "check" => allocatedMemory = newAddress
        /\ loop = "byPage" => allocatedMemory # NoAddr
        /\ loop \in {"firstEasy", "easy"} => Ahead(CleanStarts)
        /\ loop \in {"firstByPage", "byPage"} => Ahead(CleanPages)
        /\ EasyIsThorough /\ ByPageIsThorough
        /\ loop \in {"firstByPage", "byPage"} /\ step = "returned" /\ status = "NOT_FOUND" => CleanPages = {}
    BY <1>2 DEF ThoroughInv
  <2>3. \A p \in CleanPages : p \in Page /\ StartOf(p) \in Nat /\ StartOf(p) < NoAddr
    BY CleanIsPage, StartsAreOrdered
  <2> HIDE DEF CleanPages, CleanStarts
  <2> USE DEF ThoroughInv, EasyIsThorough, ByPageIsThorough, Ahead, At, Goto, Return
  <2>4. CASE AllocateAnyPagesFails \/ Accept \/ FreePagesFails \/ AllocateAddressFails
    BY <2>1, <2>2, <2>4 DEF AllocateAnyPagesFails, Accept, FreePagesFails, AllocateAddressFails
  <2>5. CASE RejectAnyPages
    <3>1. \A p \in CleanPages : StartOf(p) # allocatedMemory
      BY <1>1, <2>5, RejectedIsDirty DEF RejectAnyPages, SafetyInv, StepMatchesStatus
    <3> QED BY <2>1, <2>2, <2>3, <2>5, <3>1, CleanIsPage DEF RejectAnyPages
  <2>6. CASE Reject
    <3>1. \A p \in CleanPages : StartOf(p) # newAddress
      BY <1>1, <2>2, <2>6, RejectedIsDirty DEF Reject, SafetyInv, StepMatchesStatus
    <3>2. newAddress \in Int
      BY <1>1, SizesAssumption DEF TypeOK, Addr
    <3> QED BY <2>1, <2>2, <2>3, <2>6, <3>1, <3>2, CleanIsPage DEF Reject
  <2>7. CASE \E p \in Page : AllocateAddress(p)
    <3>1. PICK p \in Page : AllocateAddress(p)
      BY <2>7
    <3>2. StartOf(p) # NoAddr
      BY StartIsAddress
    <3> QED BY <2>1, <2>2, <3>1, <3>2 DEF AllocateAddress
  <2>8. CASE AllocateAddressNotFound
    <3>1. held = {}
      BY <1>1, <2>8 DEF AllocateAddressNotFound, SafetyInv, HeldOnlyToBeRead
    <3>2. \A p \in CleanPages : StartOf(p) # newAddress
      BY <2>3, <2>8, <3>1 DEF AllocateAddressNotFound, IsFree, CleanPages, Clean, Total
    <3>3. newAddress \in Int
      BY <1>1, SizesAssumption DEF TypeOK, Addr
    <3> QED BY <2>1, <2>2, <2>3, <2>8, <3>2, <3>3, CleanIsPage DEF AllocateAddressNotFound
  <2>9. CASE PickEasy
    <3>1. held = {} /\ leaks = 0 /\ newAddress \in Addr /\ loop # "anyPages"
      BY <1>1, <2>2, <2>9 DEF PickEasy, SafetyInv, HeldOnlyToBeRead, TypeOK
    <3>2. PICK r \in NextEasy(newAddress, leaks) : newAddress' = r.addr /\ leaks' = r.leaks
      BY <2>9 DEF PickEasy
    <3>3. /\ \A p \in CleanStarts : StartOf(p) > newAddress => StartOf(p) >= r.addr
          /\ r.leaks \in 0 .. 1 /\ (r.addr # NoAddr => r.leaks = 0)
      BY <1>1, <2>2, <3>1, <3>2, NextEasyReaches
    <3>4. \A p \in CleanStarts : StartOf(p) >= newAddress'
      BY <2>2, <2>9, <3>2, <3>3 DEF PickEasy
    <3>5. newAddress' = NoAddr => CleanStarts = {}
      BY <2>3, <3>4, CleanIsPage, SizesAssumption DEF NoAddr
    <3>6. CASE newAddress' # NoAddr
      BY <2>1, <2>2, <2>9, <3>2, <3>3, <3>4, <3>6 DEF PickEasy
    <3>7. CASE newAddress' = NoAddr
      BY <2>1, <2>2, <2>9, <3>2, <3>3, <3>5, <3>7 DEF PickEasy
    <3> QED BY <3>6, <3>7
  <2>10. CASE StartByPage
    <3>1. held = {} /\ CleanStarts = {} /\ leaks <= 1
      BY <1>1, <2>2, <2>10 DEF StartByPage, SafetyInv, HeldOnlyToBeRead
    <3>2. ASSUME NEW p \in CleanPages
          PROVE  leaks' = leaks /\ \E b \in Page : newAddress' = StartOf(b) /\ b < p
      <4>1. Total = free /\ leaks \in 0 .. MaxLeaks /\ leaks # MaxLeaks /\ 0 \in Addr
        BY <1>1, <3>1, MapAssumption, NoAddrIsAddress DEF Total, TypeOK, SortedMaps
      <4>2. p # 0
        BY <3>1, <3>2 DEF CleanStarts, StartsDescriptor
      <4>3. PICK e \in BigEnough(free) : e.first \in 1 .. p /\ StartsDescriptor(e.first)
        BY <1>1, <3>2, <4>1, <4>2, CleanHasRoom
      <4>4. e.first # p
        BY <3>1, <3>2, <4>3 DEF CleanStarts
      <4>5. StartOf(e.first) > 0 /\ e.first < p
        BY <2>3, <3>2, <4>3, <4>4 DEF StartOf, Page
      <4>6. PICK r \in ActuallyFreeAddress(free, leaks, 0) : newAddress' = r.addr /\ leaks' = r.leaks
        BY <2>10 DEF StartByPage, SortedMaps
      <4>7. r.leaks = leaks /\ \E b \in Page : r.addr = StartOf(b) /\ b <= e.first
        BY <4>1, <4>3, <4>5, <4>6, NextDescriptor DEF SortedMaps
      <4>8. PICK b \in Page : r.addr = StartOf(b) /\ b <= e.first
        BY <4>7
      <4>9. b < p
        BY <2>3, <3>2, <4>3, <4>5, <4>8, SizesAssumption DEF Page
      <4> QED BY <4>6, <4>7, <4>8, <4>9
    <3>3. \A p \in CleanPages : StartOf(p) > newAddress'
      BY <2>3, <3>2, StartsAreOrdered
    <3>4. CleanPages # {} => leaks' <= 1 /\ \E q \in Page : newAddress' = StartOf(q)
      BY <3>1, <3>2
    <3> QED BY <2>1, <2>2, <2>10, <3>3, <3>4 DEF StartByPage
  <2>11. CASE PickByPage
    <3>1. held = {} /\ loop \in {"firstByPage", "byPage"} /\ step = "pick"
      BY <1>1, <2>11 DEF PickByPage, SafetyInv, HeldOnlyToBeRead
    <3>2. ASSUME NEW p \in CleanPages
          PROVE  leaks' <= 1 /\ newAddress' # NoAddr /\ \E b \in Page : newAddress' = StartOf(b) /\ b <= p
      <4>1. PICK q \in Page : newAddress = StartOf(q)
        BY <2>2, <3>1, <3>2
      <4>2. q < p /\ leaks <= 1
        BY <2>2, <2>3, <3>1, <3>2, <4>1, StartsAreOrdered
      <4>3. PICK r \in NextByPage(newAddress, leaks) : newAddress' = r.addr /\ leaks' = r.leaks
        BY <2>11 DEF PickByPage
      <4>4. r.leaks = leaks /\ \E b \in Page : r.addr = StartOf(b) /\ b <= p
        BY <1>1, <2>2, <3>1, <3>2, <4>1, <4>2, <4>3, NextByPageReaches
      <4> QED BY <4>2, <4>3, <4>4, StartIsAddress
    <3>3. \A p \in CleanPages : StartOf(p) >= newAddress'
      BY <2>3, <3>2, StartsAreOrdered
    <3>4. CleanPages # {} => leaks' <= 1 /\ \E q \in Page : newAddress' = StartOf(q)
      BY <3>2
    <3>5. step' = "returned" => CleanPages = {}
      BY <2>2, <2>11, <3>2 DEF PickByPage, OutOfAddresses, SortedMaps
    <3> QED BY <2>1, <2>2, <2>11, <3>3, <3>4, <3>5 DEF PickByPage
  <2> QED BY <1>2, <1>4, <2>4, <2>5, <2>6, <2>7, <2>8, <2>9, <2>10, <2>11 DEF Next, Loader
<1> QED BY <1>3, <1>4

\* No clean range is passed over by the ELF and Mach-O copies while the firmware is
\* quiet, wherever the dirty ones are and however large memory is: what is still to
\* come at each step includes every range of zeros there is.  This is for a map
\* that is sorted, not read after it is freed, and can always be had (SortedMaps),
\* and leaves out the ranges that begin inside a descriptor at address 0.
THEOREM SearchIsThorough ==
  ASSUME SortedMaps
  PROVE  Spec => []NoRangeLeftBehind
<1>1. Init => KnownBadInv /\ ThoroughInv
  BY InitSafety, InitThorough, NoAddrIsAddress DEF Init, KnownBadInv, TriesAnother, KnownBadAvoided
<1>2. KnownBadInv /\ ThoroughInv /\ [Next]_vars => (KnownBadInv /\ ThoroughInv)'
  BY StepKnownBad, StepThorough DEF SortedMaps
<1>3. KnownBadInv /\ ThoroughInv => NoRangeLeftBehind
  <2> SUFFICES ASSUME KnownBadInv, ThoroughInv, loop \in {"firstByPage", "byPage"}, drift = 0
               PROVE  /\ step \in {"pick", "try"} => \A p \in CleanRanges : StartOf(p) >= newAddress
                      /\ step = "returned" /\ status = "NOT_FOUND" => CleanRanges = {}
    BY DEF NoRangeLeftBehind
  <2>1. /\ step \in {"pick", "try"} \/ (step = "returned" /\ status = "NOT_FOUND") => held = {}
        /\ newAddress \in Int
    BY SizesAssumption
       DEF KnownBadInv, SafetyInv, HeldOnlyToBeRead, ReturnedIsClean, TypeOK, Addr
  <2>2. held = {} => CleanRanges \subseteq CleanPages
    <3> SUFFICES ASSUME held = {}, NEW p \in CleanRanges PROVE p \in CleanPages
      OBVIOUS
    <3>1. Total = free
      BY DEF Total
    <3> QED BY <3>1 DEF CleanRanges, InHigherDescriptor, CleanPages, Clean, IsFree
  <2>3. \A p \in CleanPages : StartOf(p) \in Int
    BY CleanIsPage, StartsAreOrdered
  <2> QED BY <2>1, <2>2, <2>3 DEF ThoroughInv, Ahead
<1> QED BY <1>1, <1>2, <1>3, PTL DEF Spec
=============================================================================
