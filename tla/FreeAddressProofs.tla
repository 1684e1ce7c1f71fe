------------------------- MODULE FreeAddressProofs -------------------------
(* What the two calls of Memory.c return, for every map of free pages.     *)
EXTENDS FreeAddress, TLAPS

\* The start of a page is an address, and never the "none" of the code.
LEMMA StartIsAddress ==
  ASSUME NEW p \in Page
  PROVE  /\ StartOf(p) \in Addr
         /\ StartOf(p) # NoAddr
BY SizesAssumption, SMT DEF Page, StartOf, Addr, NoAddr, Span

LEMMA NoAddrIsAddress == NoAddr \in Addr /\ 0 \in Addr /\ NoAddr # 0
BY SizesAssumption, SMT DEF NoAddr, Addr, Span

LEMMA WrappedIsAddress ==
  ASSUME NEW a \in Addr
  PROVE  Wrapped(a + 2) \in Addr /\ Wrapped(a + 2) # a
BY SizesAssumption, SMT DEF Addr, Wrapped, Span

LEMMA DescriptorStarts ==
  ASSUME NEW free, NEW d \in BigEnough(free)
  PROVE  d.first \in Page
BY DEF BigEnough, Descriptors

\* What becomes of a map that cannot be had, and of one without room.
LEMMA NoMapAddress ==
  ASSUME NEW leaks \in 0 .. MaxLeaks, NEW r \in NoMap(leaks)
  PROVE  r \in Result /\ r.addr = NoAddr
BY MapAssumption, NoAddrIsAddress, SMT DEF NoMap, Result

LEMMA NothingFoundAddress ==
  ASSUME NEW leaks \in 0 .. MaxLeaks, leaks # MaxLeaks, NEW r \in NothingFound(leaks)
  PROVE  r \in Result /\ r.addr = NoAddr
BY MapAssumption, NoAddrIsAddress, SMT DEF NothingFound, Result

\* ActuallyFreeAddress gives an address above the old one, or none, unless
\* it reads something else through the freed map.
LEMMA FreeAddressResult ==
  ASSUME NEW free, NEW leaks \in 0 .. MaxLeaks, NEW old \in Addr,
         NEW r \in ActuallyFreeAddress(free, leaks, old)
  PROVE  /\ r \in Result
         /\ r.addr = NoAddr \/ r.addr > old \/ r.addr \in StaleReads
<1> DEFINE fits == {d \in BigEnough(free) : StartOf(d.first) > old}
<1>1. CASE r \in NoMap(leaks)
  BY <1>1, NoMapAddress
<1>2. CASE leaks # MaxLeaks /\ r \in NothingFound(leaks)
  BY <1>2, NothingFoundAddress
<1>3. ASSUME leaks # MaxLeaks,
             NEW a \in {StartOf(d.first) : d \in FirstInMap(fits)} \cup StaleReads,
             r = [addr |-> a, leaks |-> leaks]
      PROVE  /\ r \in Result
             /\ r.addr = NoAddr \/ r.addr > old \/ r.addr \in StaleReads
  <2>1. CASE a \in StaleReads
    BY <1>3, <2>1, MapAssumption DEF Result
  <2>2. ASSUME NEW d \in FirstInMap(fits), a = StartOf(d.first)
        PROVE  a \in Addr /\ a > old
    <3>1. d \in BigEnough(free) /\ StartOf(d.first) > old
      BY <2>2 DEF FirstInMap
    <3> QED BY <2>2, <3>1, DescriptorStarts, StartIsAddress
  <2> QED BY <1>3, <2>1, <2>2 DEF Result
<1>4. \/ r \in NoMap(leaks)
      \/ leaks # MaxLeaks /\ r \in NothingFound(leaks)
      \/ /\ leaks # MaxLeaks
         /\ \E a \in {StartOf(d.first) : d \in FirstInMap(fits)} \cup StaleReads :
              r = [addr |-> a, leaks |-> leaks]
  BY DEF ActuallyFreeAddress
<1> QED BY <1>1, <1>2, <1>3, <1>4

\* ActuallyFreeAddressByPage never gives the old address back.
LEMMA ByPageResult ==
  ASSUME NEW free, NEW leaks \in 0 .. MaxLeaks, NEW old \in Addr,
         NEW r \in ActuallyFreeAddressByPage(free, leaks, old)
  PROVE  /\ r \in Result
         /\ r.addr = NoAddr \/ r.addr # old
<1> DEFINE fits == {d \in BigEnough(free) : HasRoomAfter(d, old) \/ StartOf(d.first) > old}
           Discovered(d) == IF HasRoomAfter(d, old) THEN Wrapped(old + 2)
                            ELSE StartOf(d.first)
<1>1. CASE r \in NoMap(leaks)
  BY <1>1, NoMapAddress
<1>2. CASE leaks # MaxLeaks /\ r \in NothingFound(leaks)
  BY <1>2, NothingFoundAddress
<1>3. ASSUME leaks # MaxLeaks, NEW d \in FirstInMap(fits),
             r = [addr |-> Discovered(d), leaks |-> leaks]
      PROVE  r \in Result /\ r.addr # old
  <2>1. d \in BigEnough(free) /\ (HasRoomAfter(d, old) \/ StartOf(d.first) > old)
    BY <1>3 DEF FirstInMap
  <2>2. StartOf(d.first) \in Addr
    BY <2>1, DescriptorStarts, StartIsAddress
  <2>3. Discovered(d) \in Addr /\ Discovered(d) # old
    <3>1. CASE HasRoomAfter(d, old)
      BY <3>1, WrappedIsAddress
    <3>2. CASE ~HasRoomAfter(d, old)
      BY <3>2, <2>1, <2>2, SMT DEF Addr
    <3> QED BY <3>1, <3>2
  <2> QED BY <1>3, <2>3 DEF Result
<1>4. \/ r \in NoMap(leaks)
      \/ leaks # MaxLeaks /\ r \in NothingFound(leaks)
      \/ /\ leaks # MaxLeaks
         /\ \E d \in FirstInMap(fits) : r = [addr |-> Discovered(d), leaks |-> leaks]
  BY DEF ActuallyFreeAddressByPage
<1> QED BY <1>1, <1>2, <1>3, <1>4

-----------------------------------------------------------------------------
(* A sorted map that can always be had.                                    *)

\* ActuallyFreeAddress leaks a map only when it finds nothing.
LEMMA LeaksWhenNothing ==
  ASSUME ~PoolMayFail, NEW free, NEW leaks \in 0 .. MaxLeaks, leaks # MaxLeaks, NEW old,
         NEW r \in ActuallyFreeAddress(free, leaks, old)
  PROVE  r.leaks = leaks \/ (r.addr = NoAddr /\ r.leaks = leaks + 1)
BY DEF ActuallyFreeAddress, NoMap, NothingFound

\* It goes no further than to the next descriptor that is large enough.
LEMMA NextDescriptor ==
  ASSUME StaleReads = {}, ~PoolMayFail, MapIsSorted,
         NEW free, NEW leaks \in 0 .. MaxLeaks, leaks # MaxLeaks, NEW old \in Addr,
         NEW r \in ActuallyFreeAddress(free, leaks, old),
         NEW e \in BigEnough(free), StartOf(e.first) > old
  PROVE  /\ r.leaks = leaks
         /\ \E b \in Page : r.addr = StartOf(b) /\ b <= e.first
<1> DEFINE fits == {d \in BigEnough(free) : StartOf(d.first) > old}
<1>1. e \in fits
  OBVIOUS
<1>2. PICK d \in FirstInMap(fits) : r = [addr |-> StartOf(d.first), leaks |-> leaks]
  BY <1>1 DEF ActuallyFreeAddress, NoMap
<1>3. d.first <= e.first /\ d.first \in Page
  BY <1>1, <1>2, DescriptorStarts DEF FirstInMap
<1> QED BY <1>2, <1>3

\* ActuallyFreeAddressByPage, asked from the start of a page, passes over no
\* page from which a descriptor has room for the kernel.
LEMMA NextPage ==
  ASSUME ~PoolMayFail, MapIsSorted,
         NEW free, NEW leaks \in 0 .. MaxLeaks, leaks # MaxLeaks, NEW q \in Page,
         NEW r \in ActuallyFreeAddressByPage(free, leaks, StartOf(q)),
         NEW e \in BigEnough(free), NEW p \in Page, q < p, e.first <= p,
         p + KernelPages - 1 <= e.last
  PROVE  /\ r.leaks = leaks
         /\ \E b \in Page : r.addr = StartOf(b) /\ b <= p
<1> DEFINE fits == {d \in BigEnough(free) : HasRoomAfter(d, StartOf(q)) \/ StartOf(d.first) > StartOf(q)}
<1>1. /\ q \in Int /\ p \in Int /\ KernelPages \in Int /\ NumPages \in Int
      /\ q + 1 <= p /\ p <= NumPages - 1 /\ 0 <= q
  BY SizesAssumption DEF Page
<1>2. \A d \in BigEnough(free) : d.first \in Page /\ d.first \in Int /\ d.last \in Int
  BY SizesAssumption DEF BigEnough, Descriptors, Page
<1>3. \A d \in BigEnough(free) :
        HasRoomAfter(d, StartOf(q)) <=> d.first <= q /\ q + KernelPages <= d.last
  <2>1. Wrapped(StartOf(q) + Span) = 2 * (q + KernelPages)
    BY <1>1, SizesAssumption DEF Wrapped, StartOf, Span
  <2> QED BY <1>1, <1>2, <2>1 DEF HasRoomAfter, StartOf
<1>4. \A d \in BigEnough(free) : StartOf(d.first) > StartOf(q) <=> d.first > q
  BY <1>1, <1>2 DEF StartOf
<1>5. e \in fits
  BY <1>1, <1>2, <1>3, <1>4
<1>6. PICK d \in FirstInMap(fits) :
        r = [addr |-> IF HasRoomAfter(d, StartOf(q)) THEN Wrapped(StartOf(q) + 2) ELSE StartOf(d.first),
             leaks |-> leaks]
  BY <1>5 DEF ActuallyFreeAddressByPage, NoMap
<1>7. d \in BigEnough(free) /\ d \in fits /\ d.first <= e.first
  BY <1>5, <1>6 DEF FirstInMap
<1>8. CASE HasRoomAfter(d, StartOf(q))
  <2>1. Wrapped(StartOf(q) + 2) = StartOf(q + 1)
    BY <1>1, SizesAssumption DEF Wrapped, StartOf, Span
  <2>2. q + 1 \in Page /\ q + 1 <= p
    BY <1>1 DEF Page
  <2> QED BY <1>6, <1>8, <2>1, <2>2
<1>9. CASE ~HasRoomAfter(d, StartOf(q))
  <2>1. d.first \in Page /\ d.first <= p
    BY <1>1, <1>2, <1>7
  <2> QED BY <1>6, <1>9, <2>1
<1> QED BY <1>8, <1>9

-----------------------------------------------------------------------------
\* Either call, asked from the start of a page, offers a range that is free
\* whole: a kernel of `pages' fits there.  No bound test is off by one.
THEOREM OfferedRangeIsFree ==
  ASSUME StaleReads = {}, NEW free \in SUBSET Page, NEW leaks \in 0 .. MaxLeaks,
         NEW p \in Page,
         NEW r \in ActuallyFreeAddress(free, leaks, StartOf(p))
                     \cup ActuallyFreeAddressByPage(free, leaks, StartOf(p)),
         r.addr # NoAddr
  PROVE  \E q \in Page : r.addr = StartOf(q) /\ PagesFrom(q) \subseteq free
<1>1. ASSUME NEW d \in BigEnough(free)
      PROVE  PagesFrom(d.first) \subseteq free /\ d.first \in Page
  <2>1. /\ d.first \in Page /\ d.last \in Page
        /\ d.first .. d.last \subseteq free
        /\ d.last - d.first + 1 >= KernelPages
    BY <1>1 DEF BigEnough, Descriptors
  <2>2. d.first \in Int /\ d.last \in Int
    BY <2>1, SizesAssumption DEF Page
  <2>3. d.first + KernelPages - 1 <= d.last
    BY <2>1, <2>2, SizesAssumption
  <2>4. PagesFrom(d.first) \subseteq d.first .. d.last
    BY <2>2, <2>3, SizesAssumption DEF PagesFrom
  <2> QED BY <2>1, <2>4
<1>2. ASSUME NEW d \in BigEnough(free), HasRoomAfter(d, StartOf(p))
      PROVE  /\ Wrapped(StartOf(p) + 2) = StartOf(p + 1)
             /\ p + 1 \in Page
             /\ PagesFrom(p + 1) \subseteq free
  <2>1. /\ d.first \in Page /\ d.last \in Page
        /\ d.first .. d.last \subseteq free
    BY <1>2 DEF BigEnough, Descriptors
  <2>2. d.first \in Int /\ d.last \in Int /\ p \in Int
    BY <2>1, SizesAssumption DEF Page
  <2>3. StartOf(p) + Span < WordSize /\ StartOf(p) + 2 < WordSize
    BY SizesAssumption DEF Page, StartOf, Span
  <2>4. /\ Wrapped(StartOf(p) + 2) = StartOf(p + 1)
        /\ Wrapped(StartOf(p) + Span) = 2 * (p + KernelPages)
    BY <2>2, <2>3, SizesAssumption DEF Wrapped, StartOf, Span
  <2>5. d.first <= p /\ p + KernelPages <= d.last
    BY <1>2, <2>2, <2>4, SizesAssumption DEF HasRoomAfter, StartOf
  <2>6. PagesFrom(p + 1) \subseteq d.first .. d.last /\ p + 1 \in d.first .. d.last
    BY <2>2, <2>5, SizesAssumption DEF PagesFrom
  <2> QED BY <2>1, <2>4, <2>6
<1>3. CASE r \in ActuallyFreeAddress(free, leaks, StartOf(p))
  <2>1. \/ r \in NoMap(leaks)
        \/ leaks # MaxLeaks /\ r \in NothingFound(leaks)
        \/ \E d \in BigEnough(free) : r = [addr |-> StartOf(d.first), leaks |-> leaks]
    BY <1>3 DEF ActuallyFreeAddress, FirstInMap
  <2> QED BY <1>1, <2>1, NoMapAddress, NothingFoundAddress
<1>4. CASE r \in ActuallyFreeAddressByPage(free, leaks, StartOf(p))
  <2>1. \/ r \in NoMap(leaks)
        \/ leaks # MaxLeaks /\ r \in NothingFound(leaks)
        \/ \E d \in BigEnough(free) :
             r = [addr |-> IF HasRoomAfter(d, StartOf(p)) THEN Wrapped(StartOf(p) + 2)
                           ELSE StartOf(d.first),
                  leaks |-> leaks]
    BY <1>4 DEF ActuallyFreeAddressByPage, FirstInMap
  <2> QED BY <1>1, <1>2, <2>1, NoMapAddress, NothingFoundAddress
<1> QED BY <1>3, <1>4
=============================================================================
