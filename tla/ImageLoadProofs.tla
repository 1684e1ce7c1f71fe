-------------------------- MODULE ImageLoadProofs --------------------------
(* Proofs about ImageLoad: which files are refused, and what is left then. *)
EXTENDS ImageLoad, TLAPS

LEMMA ImageFacts ==
  ASSUME image \in Images
  PROVE  /\ image.kind \in Kinds /\ image.size \in Nat /\ image.headers \in Nat
         /\ image.segments \in Seq(Segment) /\ image.relocs \in Seq(Relocation)
         /\ image.kind = "DOS" => Len(image.segments) = 1
         /\ image.imageBase \in Address /\ image.entry \in Address /\ image.tableIn \in Nat
BY ImageAssumption

LEMMA Remainder == ASSUME NEW x \in Int PROVE x % WordSize \in Address
BY ImageAssumption DEF Address

LEMMA PagesForSize == ASSUME NEW size \in Nat PROVE PagesFor(size) \in Nat
BY ImageAssumption DEF PagesFor

\* A range of pages begins in memory.
LEMMA BaseInMemory ==
  ASSUME NEW p \in 0 .. NumPages - 1
  PROVE  p * PageWords \in Word
<1>1. p * PageWords \in Nat
  BY ImageAssumption
<1>2. (NumPages - p) * PageWords >= PageWords
  BY ImageAssumption
<1>3. p * PageWords + (NumPages - p) * PageWords = NumPages * PageWords
  BY ImageAssumption
<1> QED BY <1>1, <1>2, <1>3, ImageAssumption DEF Word

LEMMA ReadCells ==
  ASSUME memory \in [Word -> Cell], image \in Images,
         NEW off \in Nat, NEW n \in Nat, NEW dest \in Nat, Read(off, n, dest)
  PROVE  memory' \in [Word -> Cell]
<1>1. ASSUME NEW w \in Word, w - dest \in 0 .. n - 1
      PROVE  FileWord(off + w - dest) \in Cell
  BY <1>1, ImageAssumption DEF FileWord, Cell, Word, Address
<1> QED BY <1>1 DEF Read

LEMMA PatchedCell ==
  ASSUME image \in Images, base \in Word, NEW cell \in Cell, NEW r \in Relocation
  PROVE  Patched(cell, r) \in Cell
<1>1. base \in Int /\ image.imageBase \in Int /\ r.addend \in Int /\ cell.shift \in Int
  BY ImageFacts, ImageAssumption DEF Word, Address, Cell, Relocation
<1>2. (cell.shift + base - image.imageBase) % WordSize \in Address
      /\ (base + r.addend) % WordSize \in Address
  BY <1>1, Remainder
<1> QED BY <1>2 DEF Patched, Cell, Zero

\* An ELF file is relocated in the middle of its headers.
AtDynamic == step = "relocate" /\ image.kind = "ELF" => index <= Len(image.segments)

LEMMA InitTypes == Init => TypeOK /\ AtDynamic
<1> SUFFICES ASSUME Init PROVE TypeOK /\ AtDynamic
  OBVIOUS
<1>1. 0 \in Word /\ 0 \in Address /\ WordSize - 1 \in Address
  BY BaseInMemory, ImageAssumption DEF Address, Word
<1>2. Len(image.segments) \in Nat /\ Len(image.relocs) \in Nat
  BY ImageFacts DEF Init
<1>3. memory \in [Word -> Cell]
  BY <1>1 DEF Init, Cell, Other
<1>4. 1 \in 1 .. Len(image.segments) + 1 /\ 1 \in 1 .. Len(image.relocs) + 1
  BY <1>2
<1> QED BY <1>1, <1>3, <1>4 DEF Init, AtDynamic, TypeOK, Statuses

LEMMA StepTypes == TypeOK /\ AtDynamic /\ [Next]_vars => TypeOK'
<1> SUFFICES ASSUME TypeOK, AtDynamic, [Next]_vars PROVE TypeOK'
  OBVIOUS
<1>0. /\ image \in Images
      /\ image.segments \in Seq(Segment) /\ image.relocs \in Seq(Relocation)
      /\ Len(image.segments) \in Nat /\ Len(image.relocs) \in Nat
      /\ image.kind = "DOS" => Len(image.segments) = 1
      /\ image.headers \in Nat /\ image.entry \in Nat
      /\ base \in Nat
  BY ImageFacts, ImageAssumption DEF TypeOK, Address, Word
<1>h. \A n \in 1 .. Len(image.segments) :
        LET s == image.segments[n]
        IN  s.vaddr \in Address /\ s.filesz \in Nat /\ s.memsz \in Nat /\ s.fileoff \in Nat
  <2> SUFFICES ASSUME NEW n \in 1 .. Len(image.segments)
               PROVE  LET s == image.segments[n]
                      IN  s.vaddr \in Address /\ s.filesz \in Nat /\ s.memsz \in Nat /\ s.fileoff \in Nat
    OBVIOUS
  <2>1. image.segments[n] \in Segment
    BY <1>0
  <2> QED BY <2>1 DEF Segment
<1>n. /\ index <= Len(image.segments) => index \in 1 .. Len(image.segments)
                                         /\ index + 1 \in 1 .. Len(image.segments) + 1
      /\ rel <= Len(image.relocs) => rel + 1 \in 1 .. Len(image.relocs) + 1
      /\ 1 \in 1 .. Len(image.segments) + 1
      /\ 1 \in 1 .. Len(image.relocs) + 1 /\ Len(image.relocs) + 1 \in 1 .. Len(image.relocs) + 1
  BY <1>0 DEF TypeOK
<1> USE DEF TypeOK, Return, Statuses, extent
<1>1. CASE Identify
  <2>1. image.kind = "DOS" => image.segments[1].memsz \in Nat
    BY <1>0, <1>h
  <2>2. pages' \in Nat
    BY <1>1, <2>1, PagesForSize DEF Identify
  <2> QED BY <1>1, <2>2 DEF Identify
<1>2. CASE ReadTable BY <1>2 DEF ReadTable
<1>3. CASE ScanHeader
  <2> DEFINE s == image.segments[index]
  <2>0. index <= Len(image.segments)
    BY <1>3 DEF ScanHeader
  <2>1. s.vaddr \in Address /\ s.memsz \in Nat
    BY <1>h, <1>n, <2>0
  <2>2. (s.vaddr + s.memsz) % WordSize \in Address
    <3>1. s.vaddr + s.memsz \in Int
      BY <2>1, ImageAssumption DEF Address
    <3> QED BY <3>1, Remainder
  <2> HIDE DEF s
  <2>4. virtSize' \in Address /\ virtMin' \in Address
    BY <1>3, <2>1, <2>2 DEF ScanHeader, s
  <2>3. index' \in 1 .. Len(image.segments) + 1
    BY <1>n, <2>0, <1>3 DEF ScanHeader
  <2> QED BY <1>3, <2>4, <2>3 DEF ScanHeader
<1>4. CASE CountPages
  <2>1. ImageSize \in Nat
    <3>1. virtSize \in Nat /\ virtSize - virtMin \in Int
      BY ImageAssumption DEF Address
    <3>2. (virtSize - virtMin) % WordSize \in Nat
      BY <3>1, Remainder, ImageAssumption DEF Address
    <3> QED BY <3>1, <3>2 DEF ImageSize
  <2>2. pages' \in Nat /\ index' \in 1 .. Len(image.segments) + 1
    BY <1>n, <1>4, <2>1, PagesForSize DEF CountPages
  <2> QED BY <1>4, <2>2 DEF CountPages
<1>5. ASSUME NEW p \in 0 .. NumPages - 1, AllocatePages(p) PROVE TypeOK'
  <2>1. base' \in Word
    BY <1>5, BaseInMemory DEF AllocatePages
  <2>2. memory' \in [Word -> Cell]
    BY <1>5, ImageAssumption DEF AllocatePages, Cell, Zero, Address
  <2> QED BY <1>5, <2>1, <2>2 DEF AllocatePages
<1>6. CASE AllocatePagesFails BY <1>6 DEF AllocatePagesFails
<1>7. CASE CopyHeaders
  <2>1. memory' \in [Word -> Cell]
    BY <1>0, <1>7, ReadCells DEF CopyHeaders
  <2> QED BY <1>7, <2>1 DEF CopyHeaders
<1>8. CASE CopyDos
  <2>1. memory' \in [Word -> Cell]
    <3> DEFINE s == image.segments[1]
    <3>1. Read(s.fileoff, s.filesz, base) /\ image.kind = "DOS"
      BY <1>8 DEF CopyDos
    <3>2. s.fileoff \in Nat /\ s.filesz \in Nat
      BY <1>0, <1>h, <3>1
    <3> QED BY <1>0, <3>1, <3>2, ReadCells
  <2> QED BY <1>0, <1>8, <2>1 DEF CopyDos
<1>9. CASE CopySegment
  <2> DEFINE s == image.segments[index]
  <2>1. Read(s.fileoff, s.filesz, base + s.vaddr)
    BY <1>9 DEF CopySegment
  <2>2. s.fileoff \in Nat /\ s.filesz \in Nat /\ base + s.vaddr \in Nat
    <3>1. s.fileoff \in Nat /\ s.filesz \in Nat /\ s.vaddr \in Address
      BY <1>h, <1>n, <1>9 DEF CopySegment, AtHeader
    <3>2. s.vaddr \in Nat
      BY <3>1, ImageAssumption DEF Address
    <3> QED BY <1>0, <3>1, <3>2
  <2>3. memory' \in [Word -> Cell]
    BY <2>1, <2>2, ReadCells
  <2> QED BY <1>n, <1>9, <2>3 DEF CopySegment, AtHeader
<1>10. CASE SkipHeader \/ ThreadCommand \/ MainCommand
  <2>1. CASE SkipHeader BY <1>n, <2>1 DEF SkipHeader, AtHeader
  <2>2. CASE ThreadCommand BY <1>0, <1>n, <2>2 DEF ThreadCommand, AtHeader
  <2>3. CASE MainCommand BY <2>3 DEF MainCommand
  <2> QED BY <1>10, <2>1, <2>2, <2>3
<1>11. CASE ReadDynamic BY <1>n, <1>11 DEF ReadDynamic, AtHeader
<1>12. CASE Relocate
  <2> DEFINE r == image.relocs[rel]
  <2>1. r \in Relocation
    <3>1. rel \in 1 .. Len(image.relocs)
      BY <1>0, <1>12 DEF Relocate
    <3> QED BY <1>0, <3>1
  <2>2. \A w \in Word : Patched(memory[w], r) \in Cell
    BY <2>1, PatchedCell
  <2>3. memory' \in [Word -> Cell]
    BY <1>12, <2>2 DEF Relocate
  <2> QED BY <1>n, <1>12, <2>3 DEF Relocate
<1>13. ASSUME NEW freed \in BOOLEAN, FreeDynamic(freed) \/ FreeTable(freed) PROVE TypeOK'
  <2>1. CASE FreeTable(freed) BY <2>1 DEF FreeTable
  <2>2. CASE FreeDynamic(freed)
    <3>1. index <= Len(image.segments)
      BY <2>2 DEF FreeDynamic, AtDynamic
    <3> QED BY <1>n, <3>1, <2>2 DEF FreeDynamic
  <2> QED BY <1>13, <2>1, <2>2
<1>14. CASE PeRelocated \/ RefuseRelocation \/ AllocatePagesFails
  BY <1>14 DEF PeRelocated, RefuseRelocation, AllocatePagesFails
<1>15. CASE Finish BY <1>0, <1>15 DEF Finish
<1>16. CASE ServiceFails BY <1>16 DEF ServiceFails, AtHeader
<1>17. CASE UNCHANGED vars BY <1>17 DEF vars
<1> QED
  BY <1>1, <1>2, <1>3, <1>4, <1>5, <1>6, <1>7, <1>8, <1>9, <1>10, <1>11, <1>12, <1>13, <1>14,
     <1>15, <1>16, <1>17 DEF Next

-----------------------------------------------------------------------------
(* What each step knows of the file, the pages and the status.             *)

Loading == {"headers", "segments", "relocate", "finish", "loaded"}

FormatIsKnown ==
  /\ step \notin {"identify", "returned"} => image.kind # "other"
  /\ image.kind = "DOS" => step \in {"identify", "allocate", "headers", "returned"}
  /\ step = "relocate" => image.kind \in {"PE", "ELF"}
  /\ image.kind = "MACHO" /\ step \in Loading \cup {"allocate"} => image.commandsAgree

PagesAreKnown ==
  /\ step \in {"identify", "table", "scan", "allocate"} => ~held
  /\ step \in Loading => held

\* Header n has not made the file unfit.
Passed(n) ==
  /\ image.segments[n].type # "main"
  /\ HasDynamic(n) /\ image.tableIn # 0 => image.tableComplete

HeadersArePassed ==
  /\ step \in {"identify", "allocate", "headers"} => index = 1
  /\ step = "segments" => \A n \in 1 .. index - 1 : Passed(n)
  /\ step = "relocate" => \A n \in 1 .. index : n <= Len(image.segments) => Passed(n)
  /\ step = "relocate" /\ image.kind = "PE" => index > Len(image.segments)
  /\ step \in {"finish", "loaded"} => \A n \in 1 .. Len(image.segments) : Passed(n)

IsUnknown(n) == image.relocs[n].type = "unknown"

\* GoTimeStatus remembers an unknown relocation until all are done.
StatusIsKnown ==
  image.kind = "PE" =>
    /\ step \in {"scan", "allocate", "headers", "segments"} => "table" \in pools
    /\ step \notin {"relocate", "finish", "loaded", "returned"} => rel = 1
    /\ step = "relocate" =>
         /\ NeedsRelocation
         /\ \A n \in 1 .. rel - 1 : IsUnknown(n) => status = "INVALID_PARAMETER"
    /\ step \in {"relocate", "finish"} /\ status = "INVALID_PARAMETER" =>
         "table" \in pools \/ (NeedsRelocation /\ \E n \in 1 .. Len(image.relocs) : IsUnknown(n))
    /\ step \in {"finish", "loaded"} /\ NeedsRelocation /\ (\E n \in 1 .. Len(image.relocs) : IsUnknown(n))
         => step = "finish" /\ status = "INVALID_PARAMETER"

LoadInv ==
  /\ TypeOK /\ AtDynamic
  /\ FormatIsKnown /\ PagesAreKnown /\ HeadersArePassed /\ StatusIsKnown
  /\ RefusalHasReason /\ PagesFollowOutcome

LEMMA InitLoad == Init => LoadInv
<1> SUFFICES ASSUME Init PROVE LoadInv
  OBVIOUS
<1>1. TypeOK /\ AtDynamic
  BY InitTypes
<1>2. FormatIsKnown /\ PagesAreKnown /\ RefusalHasReason /\ PagesFollowOutcome
  BY DEF Init, FormatIsKnown, PagesAreKnown, RefusalHasReason, PagesFollowOutcome, Loading
<1>3. HeadersArePassed /\ StatusIsKnown
  BY DEF Init, HeadersArePassed, StatusIsKnown
<1> QED BY <1>1, <1>2, <1>3 DEF LoadInv

\* The file's headers are sequences of records, whatever the step.
LEMMA HeaderFacts ==
  ASSUME TypeOK
  PROVE  /\ Len(image.segments) \in Nat /\ Len(image.relocs) \in Nat
         /\ index \in Nat /\ rel \in Nat /\ rel >= 1 /\ index >= 1
         /\ rel <= Len(image.relocs) + 1 /\ index <= Len(image.segments) + 1
         /\ image.kind \in {"PE", "ELF", "MACHO", "DOS", "other"}
         /\ DOMAIN image.segments = 1 .. Len(image.segments)
         /\ DOMAIN image.relocs = 1 .. Len(image.relocs)
         /\ image.kind # "MACHO" =>
              \A n \in 1 .. Len(image.segments) : image.segments[n].type # "main"
<1>1. image.segments \in Seq(Segment) /\ image.relocs \in Seq(Relocation)
  BY ImageFacts DEF TypeOK
<1>2. DOMAIN image.segments = 1 .. Len(image.segments) /\ Len(image.segments) \in Nat
      /\ DOMAIN image.relocs = 1 .. Len(image.relocs) /\ Len(image.relocs) \in Nat
  BY <1>1
<1>3. image.kind # "MACHO" => \A n \in DOMAIN image.segments : image.segments[n].type # "main"
  BY ImageAssumption DEF TypeOK, Range
<1> QED BY <1>2, <1>3, ImageFacts DEF TypeOK, Kinds

\* Every action, by the next step it leads to.
LEMMA StepFormat ==
  ASSUME TypeOK, FormatIsKnown, [Next]_vars
  PROVE  FormatIsKnown'
<1> USE DEF FormatIsKnown, Loading, Return, AtHeader
<1>1. CASE Identify \/ ReadTable \/ ScanHeader \/ CountPages
  BY <1>1, HeaderFacts DEF Identify, ReadTable, ScanHeader, CountPages
<1>2. CASE \E p \in 0 .. NumPages - 1 : AllocatePages(p)
  BY <1>2 DEF AllocatePages
<1>3. CASE CopyHeaders \/ CopyDos \/ CopySegment \/ SkipHeader \/ ThreadCommand \/ MainCommand
  BY <1>3 DEF CopyHeaders, CopyDos, CopySegment, SkipHeader, ThreadCommand, MainCommand
<1>4. CASE ReadDynamic \/ Relocate \/ PeRelocated \/ RefuseRelocation
  BY <1>4 DEF ReadDynamic, HasDynamic, Relocate, PeRelocated, RefuseRelocation
<1>5. CASE \E freed \in BOOLEAN : FreeDynamic(freed) \/ FreeTable(freed)
  BY <1>5 DEF FreeDynamic, FreeTable, NeedsRelocation
<1>6. CASE Finish \/ ServiceFails \/ AllocatePagesFails \/ UNCHANGED vars
  BY <1>6 DEF Finish, ServiceFails, AllocatePagesFails, vars
<1> QED BY <1>1, <1>2, <1>3, <1>4, <1>5, <1>6 DEF Next

LEMMA StepPages ==
  ASSUME TypeOK, FormatIsKnown, PagesAreKnown, PagesFollowOutcome, [Next]_vars
  PROVE  PagesAreKnown' /\ PagesFollowOutcome'
<1> USE DEF PagesAreKnown, PagesFollowOutcome, Loading, Return, AtHeader
<1>1. CASE Identify \/ ReadTable \/ ScanHeader \/ CountPages
  BY <1>1 DEF Identify, ReadTable, ScanHeader, CountPages
<1>2. CASE \E p \in 0 .. NumPages - 1 : AllocatePages(p)
  BY <1>2 DEF AllocatePages
<1>3. CASE CopyHeaders \/ CopyDos \/ CopySegment \/ SkipHeader \/ ThreadCommand \/ MainCommand
  BY <1>3 DEF CopyHeaders, CopyDos, CopySegment, SkipHeader, ThreadCommand, MainCommand
<1>4. CASE ReadDynamic \/ Relocate \/ PeRelocated \/ RefuseRelocation
  BY <1>4 DEF ReadDynamic, Relocate, PeRelocated, RefuseRelocation
<1>5. CASE \E freed \in BOOLEAN : FreeDynamic(freed) \/ FreeTable(freed)
  BY <1>5 DEF FreeDynamic, FreeTable
<1>6. CASE Finish \/ ServiceFails \/ AllocatePagesFails \/ UNCHANGED vars
  BY <1>6 DEF Finish, ServiceFails, AllocatePagesFails, vars
<1> QED BY <1>1, <1>2, <1>3, <1>4, <1>5, <1>6 DEF Next

\* The image, and so what a header says, never changes.
LEMMA SameImage == [Next]_vars => image' = image
BY DEF Next, vars, extent, Identify, ReadTable, ScanHeader, CountPages, AllocatePages,
       AllocatePagesFails, CopyHeaders, CopyDos, CopySegment, SkipHeader, ThreadCommand,
       MainCommand, ReadDynamic, Relocate, PeRelocated, FreeDynamic, FreeTable,
       RefuseRelocation, Finish, ServiceFails

LEMMA StepHeaders ==
  ASSUME TypeOK, FormatIsKnown, HeadersArePassed, AtDynamic, [Next]_vars
  PROVE  HeadersArePassed' /\ AtDynamic'
<1>1. image' = image /\ \A n : Passed(n)' = Passed(n)
  BY SameImage DEF Passed, HasDynamic
<1>2. /\ Len(image.segments) \in Nat /\ index \in Nat /\ index >= 1
      /\ index <= Len(image.segments) + 1
  BY HeaderFacts
<1> USE DEF HeadersArePassed, AtDynamic, Return, AtHeader
<1>3. CASE Identify \/ ReadTable \/ ScanHeader \/ CountPages
  <2>1. step' = "allocate" => index' = 1 \/ (step = "identify" /\ index' = index)
    BY <1>3 DEF Identify, ReadTable, ScanHeader, CountPages
  <2>2. step' \in {"table", "scan", "allocate", "returned"}
    BY <1>3 DEF Identify, ReadTable, ScanHeader, CountPages
  <2> QED BY <1>1, <2>1, <2>2
<1>4. CASE (\E p \in 0 .. NumPages - 1 : AllocatePages(p)) \/ CopyHeaders
  BY <1>1, <1>4 DEF AllocatePages, CopyHeaders
<1>5. CASE CopySegment \/ SkipHeader \/ ThreadCommand
  <2>1. Passed(index)
    BY <1>5 DEF CopySegment, SkipHeader, ThreadCommand, Passed, HasDynamic
  <2>2. step = "segments" /\ step' = "segments" /\ index' = index + 1
    BY <1>5 DEF CopySegment, SkipHeader, ThreadCommand
  <2> QED BY <1>1, <1>2, <2>1, <2>2
<1>6. CASE ReadDynamic
  <2>1. step' = "relocate" => Passed(index)
    BY <1>6 DEF ReadDynamic, Passed, HasDynamic
  <2>2. step = "segments" /\ step' \in {"relocate", "returned"} /\ index' = index
        /\ index <= Len(image.segments) /\ image.kind = "ELF"
    BY <1>6 DEF ReadDynamic, HasDynamic
  <2> QED BY <1>1, <1>2, <2>1, <2>2
<1>7. ASSUME NEW freed \in BOOLEAN, FreeDynamic(freed) PROVE HeadersArePassed' /\ AtDynamic'
  BY <1>1, <1>2, <1>7 DEF FreeDynamic
<1>8. ASSUME NEW freed \in BOOLEAN, FreeTable(freed) PROVE HeadersArePassed' /\ AtDynamic'
  BY <1>1, <1>2, <1>8 DEF FreeTable, NeedsRelocation
<1>9. CASE Relocate \/ PeRelocated \/ Finish
  BY <1>1, <1>2, <1>9 DEF Relocate, PeRelocated, Finish
<1>10. CASE MainCommand \/ CopyDos \/ RefuseRelocation \/ ServiceFails \/ AllocatePagesFails
  BY <1>1, <1>10 DEF MainCommand, CopyDos, RefuseRelocation, ServiceFails, AllocatePagesFails
<1>11. CASE UNCHANGED vars
  BY <1>1, <1>11 DEF vars
<1> QED BY <1>3, <1>4, <1>5, <1>6, <1>7, <1>8, <1>9, <1>10, <1>11 DEF Next

LEMMA StepStatus ==
  ASSUME TypeOK, FormatIsKnown, StatusIsKnown, [Next]_vars
  PROVE  StatusIsKnown'
<1>1. image' = image /\ \A n : IsUnknown(n)' = IsUnknown(n)
  BY SameImage DEF IsUnknown
<1>2. CASE image.kind # "PE"
  BY <1>1, <1>2 DEF StatusIsKnown
<1>3. CASE image.kind = "PE"
  <2>1. Len(image.relocs) \in Nat /\ rel \in Nat /\ rel >= 1 /\ rel <= Len(image.relocs) + 1
    BY HeaderFacts
  <2> USE <1>3 DEF StatusIsKnown, Return, AtHeader
  <2>2. CASE Identify \/ ReadTable \/ ScanHeader \/ CountPages
    BY <1>1, <2>2 DEF Identify, ReadTable, ScanHeader, CountPages
  <2>3. CASE (\E p \in 0 .. NumPages - 1 : AllocatePages(p)) \/ CopyHeaders
    BY <1>1, <2>3 DEF AllocatePages, CopyHeaders
  <2>4. CASE CopySegment \/ SkipHeader \/ ThreadCommand
    BY <1>1, <2>4 DEF CopySegment, SkipHeader, ThreadCommand
  <2>5. CASE ReadDynamic \/ \E freed \in BOOLEAN : FreeDynamic(freed)
    BY <2>5 DEF ReadDynamic, HasDynamic, FreeDynamic
  <2>6. ASSUME NEW freed \in BOOLEAN, FreeTable(freed) PROVE StatusIsKnown'
    BY <1>1, <2>1, <2>6 DEF FreeTable, NeedsRelocation
  <2>7. CASE Relocate
    <3>1. /\ step' = step /\ rel' = rel + 1 /\ pools' = pools
          /\ NeedsRelocation' = NeedsRelocation
          /\ status' = IF IsUnknown(rel) THEN "INVALID_PARAMETER" ELSE status
          /\ step = "relocate" /\ rel \in 1 .. Len(image.relocs)
      BY <1>1, <2>1, <2>7 DEF Relocate, NeedsRelocation, IsUnknown
    <3> QED BY <1>1, <2>1, <3>1
  <2>8. CASE PeRelocated
    BY <1>1, <2>1, <2>8 DEF PeRelocated, NeedsRelocation
  <2>9. CASE Finish
    BY <1>1, <2>1, <2>9 DEF Finish, NeedsRelocation
  <2>10. CASE MainCommand \/ CopyDos \/ RefuseRelocation \/ ServiceFails \/ AllocatePagesFails
    BY <1>1, <2>10 DEF MainCommand, CopyDos, RefuseRelocation, ServiceFails, AllocatePagesFails
  <2>11. CASE UNCHANGED vars
    BY <1>1, <2>11 DEF vars, NeedsRelocation
  <2> QED BY <2>2, <2>3, <2>4, <2>5, <2>6, <2>7, <2>8, <2>9, <2>10, <2>11 DEF Next
<1> QED BY <1>2, <1>3

\* IsBad in terms of the headers and relocations by number.
LEMMA BadImages ==
  ASSUME TypeOK
  PROVE  IsBad <=>
    \/ image.kind \in {"other", "DOS"}
    \/ NeedsRelocation /\ \E n \in 1 .. Len(image.relocs) : IsUnknown(n)
    \/ /\ image.kind = "ELF" /\ image.tableIn # 0 /\ ~image.tableComplete
       /\ \E n \in 1 .. Len(image.segments) : HasDynamic(n)
    \/ image.kind = "MACHO" /\ ~image.commandsAgree
    \/ image.kind = "MACHO" /\ \E n \in 1 .. Len(image.segments) : image.segments[n].type = "main"
<1>1. HasUnknown <=> \E n \in 1 .. Len(image.relocs) : IsUnknown(n)
  BY HeaderFacts DEF HasUnknown, IsUnknown, Range
<1>2. HasType("main") <=> \E n \in 1 .. Len(image.segments) : image.segments[n].type = "main"
  BY HeaderFacts DEF HasType, Range
<1>3. HasTable <=> image.tableIn # 0
                     /\ (image.kind = "ELF" => \E n \in 1 .. Len(image.segments) : HasDynamic(n))
  BY HeaderFacts DEF HasTable
<1> QED BY <1>1, <1>2, <1>3 DEF IsBad, NeedsRelocation

LEMMA StepRefusal ==
  ASSUME LoadInv, [Next]_vars
  PROVE  RefusalHasReason'
<1> SUFFICES ASSUME step' = "returned", status' \in {"INVALID_PARAMETER", "LOAD_ERROR", "DOS_EXECUTABLE"}
             PROVE  (IsBad \/ (image.kind = "PE" /\ "table" \in pools))'
  BY DEF RefusalHasReason
<1>1. image' = image /\ (base' = base => IsBad' = IsBad)
  BY SameImage DEF IsBad, HasTable, HasDynamic, HasUnknown, HasType
<1>2. \A n \in 1 .. Len(image.segments) : image.segments[n].type = "main" => image.kind = "MACHO"
  BY HeaderFacts DEF LoadInv
<1> USE DEF Return, AtHeader
<1>3. CASE Identify \/ CountPages \/ CopyDos
  <2>1. base' = base /\ (image.kind \in {"other", "DOS"} \/ (image.kind = "MACHO" /\ ~image.commandsAgree))
    BY <1>3 DEF Identify, CountPages, CopyDos
  <2> QED BY <1>1, <2>1, BadImages DEF LoadInv
<1>4. CASE MainCommand
  <2>1. base' = base /\ index \in 1 .. Len(image.segments) /\ image.segments[index].type = "main"
    BY <1>4, HeaderFacts DEF MainCommand, LoadInv
  <2> QED BY <1>1, <1>2, <2>1, BadImages DEF LoadInv
<1>5. CASE ReadDynamic
  <2>1. base' = base /\ index \in 1 .. Len(image.segments) /\ HasDynamic(index)
        /\ image.tableIn # 0 /\ ~image.tableComplete
    BY <1>5, HeaderFacts DEF ReadDynamic, LoadInv
  <2> QED BY <1>1, <2>1, BadImages DEF LoadInv, HasDynamic
<1>6. CASE RefuseRelocation
  <2>1. base' = base /\ pools' = pools /\ image.kind = "PE"
        /\ ("table" \in pools \/ (NeedsRelocation /\ \E n \in 1 .. Len(image.relocs) : IsUnknown(n)))
    BY <1>6 DEF RefuseRelocation, LoadInv, StatusIsKnown
  <2> QED BY <1>1, <2>1, BadImages DEF LoadInv
<1>7. CASE UNCHANGED vars
  BY <1>1, <1>7 DEF vars, LoadInv, RefusalHasReason
<1>8. CASE ServiceFails \/ AllocatePagesFails
  BY <1>8 DEF ServiceFails, AllocatePagesFails
<1>9. CASE \/ ReadTable \/ ScanHeader \/ CopyHeaders \/ CopySegment \/ SkipHeader
           \/ ThreadCommand \/ Relocate \/ PeRelocated \/ Finish
           \/ \E p \in 0 .. NumPages - 1 : AllocatePages(p)
           \/ \E freed \in BOOLEAN : FreeDynamic(freed) \/ FreeTable(freed)
  BY <1>9 DEF ReadTable, ScanHeader, CopyHeaders, CopySegment, SkipHeader, ThreadCommand, Relocate,
              PeRelocated, Finish, AllocatePages, FreeDynamic, FreeTable
<1> QED BY <1>3, <1>4, <1>5, <1>6, <1>7, <1>8, <1>9 DEF Next

LEMMA LoadedIsGood == LoadInv => BadImageIsRefused
<1> SUFFICES ASSUME LoadInv, step = "loaded" PROVE ~IsBad
  BY DEF BadImageIsRefused
<1>1. /\ image.kind \notin {"other", "DOS"}
      /\ image.kind = "MACHO" => image.commandsAgree
      /\ \A n \in 1 .. Len(image.segments) : Passed(n)
      /\ ~(NeedsRelocation /\ \E n \in 1 .. Len(image.relocs) : IsUnknown(n))
  BY DEF LoadInv, FormatIsKnown, HeadersArePassed, StatusIsKnown, Loading, NeedsRelocation
<1> QED BY <1>1, BadImages DEF LoadInv, Passed

LEMMA LoadIsSafe == Spec => []LoadInv
<1>1. LoadInv /\ [Next]_vars => LoadInv'
  BY StepTypes, StepFormat, StepPages, StepHeaders, StepStatus, StepRefusal DEF LoadInv
<1> QED BY <1>1, InitLoad, PTL DEF Spec

-----------------------------------------------------------------------------
\* For any kernel file whose headers can be read, of any number of segments and
\* relocations, any memory and any failing call: the variables of the loading
\* keep to their types, and with 64-bit arithmetic no count of pages is negative.
THEOREM LoadTypes == Spec => []TypeOK
<1>1. LoadInv => TypeOK
  BY DEF LoadInv
<1> QED BY <1>1, LoadIsSafe, PTL

\* A file is refused for its contents if it cannot run, and otherwise only when
\* a FreePool before has failed.
THEOREM RefusedIfBadOnly == Spec => []RefusedIfBad
<1>1. LoadInv => RefusedIfBad
  BY LoadedIsGood DEF LoadInv, RefusedIfBad
<1> QED BY <1>1, LoadIsSafe, PTL

\* An image that is loaded has its pages, and one that is refused as invalid has
\* given them back.
THEOREM PagesFollow == Spec => []PagesFollowOutcome
<1>1. LoadInv => PagesFollowOutcome
  BY DEF LoadInv
<1> QED BY <1>1, LoadIsSafe, PTL

-----------------------------------------------------------------------------
(* Where the copies go.                                                    *)

\* The pages counted have room for the size, and for every smaller one.
LEMMA RoomForSize ==
  ASSUME NEW size \in Nat
  PROVE  Room(size) \in Nat /\ size <= Room(size) /\ Room(size) < size + PageWords
<1> DEFINE q == size \div PageWords
           m == size % PageWords
<1>1. PageWords \in Nat /\ PageWords > 0
  BY ImageAssumption
<1>2. q \in Nat /\ m \in 0 .. PageWords - 1 /\ size = q * PageWords + m
  BY <1>1
<1>3. PagesFor(size) = q + (IF m = 0 THEN 0 ELSE 1)
  BY DEF PagesFor
<1> HIDE DEF q, m
<1>4. Room(size) = q * PageWords + (IF m = 0 THEN 0 ELSE PageWords)
  <2>1. (q + 1) * PageWords = q * PageWords + PageWords
    BY <1>1, <1>2
  <2> QED BY <1>1, <1>2, <1>3, <2>1 DEF Room
<1>5. q * PageWords \in Nat
  BY <1>1, <1>2
<1> QED BY <1>1, <1>2, <1>4, <1>5

LEMMA MoreRoom ==
  ASSUME NEW a \in Nat, NEW b \in Nat, a <= b
  PROVE  Room(a) <= Room(b)
<1>1. PageWords \in Nat /\ PageWords > 0 /\ PagesFor(a) \in Nat /\ PagesFor(b) \in Nat
  BY PagesForSize, ImageAssumption
<1>2. Room(a) < a + PageWords /\ b <= Room(b)
  BY RoomForSize
<1>3. PagesFor(a) * PageWords < (PagesFor(b) + 1) * PageWords
  <2>1. (PagesFor(b) + 1) * PageWords = PagesFor(b) * PageWords + PageWords
    BY <1>1
  <2>2. Room(a) \in Nat /\ Room(b) \in Nat
    BY RoomForSize
  <2> QED BY <1>1, <1>2, <2>1, <2>2 DEF Room
<1>4. PagesFor(a) < PagesFor(b) + 1
  <2> SUFFICES ASSUME PagesFor(a) >= PagesFor(b) + 1 PROVE FALSE
    BY <1>1
  <2> DEFINE d == PagesFor(a) - (PagesFor(b) + 1)
  <2>1. d \in Nat /\ PagesFor(a) = (PagesFor(b) + 1) + d
    BY <1>1
  <2> HIDE DEF d
  <2>2. PagesFor(a) * PageWords = (PagesFor(b) + 1) * PageWords + d * PageWords /\ d * PageWords \in Nat
    BY <1>1, <2>1
  <2> QED BY <1>1, <1>3, <2>2
<1>5. (PagesFor(b) - PagesFor(a)) * PageWords \in Nat
  BY <1>1, <1>4
<1>6. PagesFor(b) * PageWords = PagesFor(a) * PageWords + (PagesFor(b) - PagesFor(a)) * PageWords
  BY <1>1
<1> QED BY <1>1, <1>5, <1>6 DEF Room

IsLoad(n) == image.segments[n].type = "load"
EndOf(n) == image.segments[n].vaddr + image.segments[n].memsz
RoomCounted == pages * PageWords

\* Everything the loading is going to write has its room.
EverythingFits ==
  /\ image.kind # "DOS" => \A n \in 1 .. Len(image.segments) : IsLoad(n) =>
       image.segments[n].vaddr + image.segments[n].filesz <= RoomCounted
  /\ image.kind = "DOS" => image.segments[1].filesz <= RoomCounted
  /\ image.kind = "PE" => image.headers <= RoomCounted
  /\ image.kind # "DOS" => \A n \in 1 .. Len(image.relocs) : image.relocs[n].type = "relative" =>
       image.relocs[n].offset < RoomCounted

CopyInv ==
  /\ step \in {"identify", "table"} => index = 1
  /\ step = "scan" => \A n \in 1 .. index - 1 : IsLoad(n) => /\ EndOf(n) <= virtSize
                                                           /\ virtMin <= image.segments[n].vaddr
  /\ step \in {"identify", "table", "scan", "allocate"} => \A w \in Word : memory[w] = Other
  /\ step \in Loading \cup {"allocate"} => EverythingFits
  /\ CopiesStayInside

LEMMA SegmentFacts ==
  ASSUME TypeOK, NEW n \in 1 .. Len(image.segments)
  PROVE  /\ image.segments[n] \in Segment /\ image.segments[n] \in Range(image.segments)
         /\ image.segments[n].vaddr \in Nat /\ image.segments[n].memsz \in Nat
         /\ image.segments[n].filesz \in Nat /\ image.segments[n].fileoff \in Nat /\ EndOf(n) \in Nat
<1>1. image.segments \in Seq(Segment)
  BY ImageFacts DEF TypeOK
<1>2. image.segments[n] \in Segment /\ image.segments[n] \in Range(image.segments)
  BY <1>1 DEF Range
<1>3. /\ image.segments[n].vaddr \in Nat /\ image.segments[n].memsz \in Nat
      /\ image.segments[n].filesz \in Nat /\ image.segments[n].fileoff \in Nat
  BY <1>2, ImageAssumption DEF Segment, Address
<1> QED BY <1>2, <1>3 DEF EndOf

LEMMA RelocationFacts ==
  ASSUME TypeOK, NEW n \in 1 .. Len(image.relocs)
  PROVE  image.relocs[n] \in Range(image.relocs) /\ image.relocs[n].offset \in Nat
<1>1. image.relocs \in Seq(Relocation)
  BY ImageFacts DEF TypeOK
<1>2. image.relocs[n] \in Relocation /\ image.relocs[n] \in Range(image.relocs)
  BY <1>1 DEF Range
<1> QED BY <1>2, ImageAssumption DEF Relocation, Address

\* Pages counted for a size no segment goes beyond have room for everything.
LEMMA CountedRoom ==
  ASSUME TypeOK, IsLinkedAtZero(image), image.kind \notin {"DOS", "other"}, NEW size \in Nat,
         \A n \in 1 .. Len(image.segments) : IsLoad(n) => EndOf(n) <= size,
         pages' = PagesFor(size), image' = image
  PROVE  EverythingFits'
<1>1. RoomCounted' = Room(size) /\ Room(size) \in Nat
  BY RoomForSize DEF RoomCounted, Room
<1>2. ASSUME NEW n \in 1 .. Len(image.segments), IsLoad(n)
      PROVE  Room(EndOf(n)) <= Room(size) /\ Room(EndOf(n)) \in Nat
  BY <1>2, SegmentFacts, MoreRoom, RoomForSize
<1> DEFINE loads == {s \in Range(image.segments) : s.type = "load"}
<1>3. \A s \in loads : \E n \in 1 .. Len(image.segments) : IsLoad(n) /\ s = image.segments[n]
  BY HeaderFacts DEF Range, IsLoad
<1>4. ASSUME NEW s \in loads
      PROVE  Room(s.vaddr + s.memsz) <= Room(size) /\ Room(s.vaddr + s.memsz) \in Nat
  BY <1>2, <1>3 DEF EndOf
<1>5. ASSUME NEW n \in 1 .. Len(image.segments), IsLoad(n)
      PROVE  image.segments[n].vaddr + image.segments[n].filesz <= Room(size)
  <2>1. image.segments[n] \in loads
    BY <1>5, SegmentFacts DEF IsLoad
  <2>2. image.segments[n].vaddr + image.segments[n].filesz <= Room(EndOf(n))
    BY <2>1 DEF IsLinkedAtZero, EndOf
  <2> QED BY <1>1, <1>2, <1>5, <2>2, SegmentFacts
<1>6. image.kind = "PE" => image.headers <= Room(size)
  <2> SUFFICES ASSUME image.kind = "PE" PROVE image.headers <= Room(size)
    OBVIOUS
  <2>1. PICK s \in loads : image.headers <= Room(s.vaddr + s.memsz)
    BY DEF IsLinkedAtZero
  <2>2. image.headers \in Nat
    BY ImageFacts DEF TypeOK
  <2> QED BY <1>1, <1>4, <2>1, <2>2
<1>7. ASSUME NEW n \in 1 .. Len(image.relocs), image.relocs[n].type = "relative"
      PROVE  image.relocs[n].offset < Room(size)
  <2>1. PICK s \in loads : image.relocs[n].offset < Room(s.vaddr + s.memsz)
    BY <1>7, RelocationFacts DEF IsLinkedAtZero
  <2> QED BY <1>1, <1>4, <2>1, RelocationFacts
<1> QED BY <1>1, <1>5, <1>6, <1>7 DEF EverythingFits, IsLoad

\* Scanning ends with the size of the whole image.
LEMMA ScannedSize ==
  ASSUME TypeOK, FormatIsKnown, IsLinkedAtZero(image), step = "scan", index > Len(image.segments),
         CopyInv, NEW n \in 1 .. Len(image.segments), IsLoad(n)
  PROVE  ImageSize = virtSize
<1>1. virtSize \in 0 .. WordSize - 1 /\ virtMin \in Nat /\ WordSize \in Nat
  BY ImageAssumption DEF TypeOK, Address
<1>2. CASE image.kind = "PE"
  BY <1>2 DEF ImageSize
<1>3. CASE image.kind # "PE"
  <2>1. image.kind \in {"ELF", "MACHO"}
    BY <1>3, HeaderFacts DEF FormatIsKnown
  <2>2. image.segments[n] \in {s \in Range(image.segments) : s.type = "load"}
    BY SegmentFacts DEF IsLoad
  <2>3. PICK s \in {s \in Range(image.segments) : s.type = "load"} : s.vaddr = 0
    BY <2>1, <2>2 DEF IsLinkedAtZero
  <2>4. PICK k \in 1 .. Len(image.segments) : IsLoad(k) /\ image.segments[k].vaddr = 0
    BY <2>3, HeaderFacts DEF Range, IsLoad
  <2>5. virtMin = 0
    <3>1. k \in 1 .. index - 1
      BY HeaderFacts
    <3> QED BY <1>1, <2>4, <3>1 DEF CopyInv
  <2>6. virtSize % WordSize = virtSize
    BY <1>1, ImageAssumption
  <2> QED BY <1>1, <1>3, <2>5, <2>6 DEF ImageSize
<1> QED BY <1>2, <1>3

\* A read within the room goes nowhere else.
LEMMA ReadInside ==
  ASSUME TypeOK, CopiesStayInside, NEW off, NEW v \in Nat, NEW n \in Nat, v + n <= RoomCounted,
         Read(off, n, base + v), UNCHANGED <<base, pages>>
  PROVE  CopiesStayInside'
<1>1. base \in Nat /\ RoomCounted \in Nat
  BY ImageAssumption DEF TypeOK, Word, RoomCounted
<1> SUFFICES ASSUME NEW w \in Word, w \notin base .. base + RoomCounted - 1 PROVE memory'[w] = Other
  BY DEF CopiesStayInside, RoomCounted
<1>2. memory[w] = Other
  BY DEF CopiesStayInside, RoomCounted
<1>3. w \in Nat
  BY ImageAssumption DEF Word
<1> HIDE DEF RoomCounted
<1>4. w - (base + v) \notin 0 .. n - 1
  BY <1>1, <1>3
<1> QED BY <1>2, <1>4 DEF Read

\* Steps that write no memory and count no pages.
LEMMA QuietStep ==
  ASSUME CopyInv, UNCHANGED <<image, base, pages, memory>>, index' = index,
         step' = "returned" \/ (step \in Loading /\ step' \in Loading)
  PROVE  CopyInv'
<1>1. CopiesStayInside'
  BY DEF CopyInv, CopiesStayInside
<1>2. EverythingFits' = EverythingFits
  BY DEF EverythingFits, IsLoad, RoomCounted
<1> QED BY <1>1, <1>2 DEF CopyInv, Loading

LEMMA StepCopy ==
  ASSUME \A im \in Images : IsLinkedAtZero(im), TypeOK, AtDynamic, FormatIsKnown, CopyInv, [Next]_vars
  PROVE  CopyInv'
<1>0. IsLinkedAtZero(image) /\ image' = image
  BY SameImage DEF TypeOK
<1>n. /\ Len(image.segments) \in Nat /\ index \in Nat /\ index >= 1
      /\ index <= Len(image.segments) + 1
  BY HeaderFacts
<1>f. pages' = pages => EverythingFits' = EverythingFits
  BY <1>0 DEF EverythingFits, IsLoad, RoomCounted
<1>r. base \in Nat /\ RoomCounted \in Nat
  BY ImageAssumption DEF TypeOK, Word, RoomCounted
<1>1. CASE Identify
  <2>1. step' \in {"table", "allocate", "returned"} /\ UNCHANGED <<base, memory, index>> /\ step = "identify"
    BY <1>1 DEF Identify, Return
  <2>2. step' = "allocate" => EverythingFits'
    <3> SUFFICES ASSUME step' = "allocate" PROVE EverythingFits'
      OBVIOUS
    <3>1. image.kind = "DOS" /\ pages' = PagesFor(image.segments[1].memsz)
      BY <1>1 DEF Identify, Return
    <3>2. image.segments[1].filesz <= Room(image.segments[1].memsz)
      BY <1>0, <3>1 DEF IsLinkedAtZero
    <3> QED BY <1>0, <3>1, <3>2 DEF EverythingFits, RoomCounted, Room
  <2> QED BY <2>1, <2>2 DEF CopyInv, CopiesStayInside, Loading
<1>2. CASE ReadTable
  BY <1>0, <1>2 DEF ReadTable, CopyInv, CopiesStayInside, Loading, extent
<1>3. CASE ScanHeader
  <2> DEFINE s == image.segments[index]
             end == (s.vaddr + s.memsz) % WordSize
  <2>1. step' = "scan" /\ index' = index + 1 /\ memory' = memory /\ index \in 1 .. Len(image.segments)
        /\ step = "scan"
    BY <1>n, <1>3 DEF ScanHeader
  <2>2. virtSize \in Nat /\ virtMin \in Nat
    BY ImageAssumption DEF TypeOK, Address
  <2>3. IsLoad(index) => EndOf(index) \in Nat /\ end = EndOf(index)
    <3> SUFFICES ASSUME IsLoad(index) PROVE EndOf(index) \in Nat /\ end = EndOf(index)
      OBVIOUS
    <3>1. EndOf(index) \in Nat /\ EndOf(index) < WordSize
      BY <1>0, <2>1, SegmentFacts DEF IsLinkedAtZero, IsLoad, EndOf
    <3> QED BY <3>1, ImageAssumption DEF EndOf
  <2>4. /\ virtSize' = IF IsLoad(index) /\ end > virtSize THEN end ELSE virtSize
        /\ virtMin' = IF IsLoad(index) /\ s.vaddr < virtMin THEN s.vaddr ELSE virtMin
    BY <1>3 DEF ScanHeader, IsLoad
  <2> HIDE DEF end
  <2>5. virtSize' >= virtSize /\ virtMin' <= virtMin /\ virtSize' \in Nat /\ virtMin' \in Nat
    BY <2>1, <2>2, <2>3, <2>4, SegmentFacts
  <2>6. IsLoad(index) => EndOf(index) <= virtSize' /\ virtMin' <= s.vaddr
    BY <2>1, <2>2, <2>3, <2>4, SegmentFacts
  <2>7. ASSUME NEW n \in 1 .. index, IsLoad(n)
        PROVE  EndOf(n) <= virtSize' /\ virtMin' <= image.segments[n].vaddr
    <3>1. CASE n = index
      BY <2>6, <2>7, <3>1
    <3>2. CASE n # index
      <4>1. n \in 1 .. index - 1 /\ n \in 1 .. Len(image.segments)
        BY <1>n, <2>1, <3>2
      <4>2. EndOf(n) <= virtSize /\ virtMin <= image.segments[n].vaddr
        BY <2>1, <2>7, <4>1 DEF CopyInv
      <4> QED BY <2>2, <2>5, <4>1, <4>2, SegmentFacts
    <3> QED BY <3>1, <3>2
  <2>8. \A n \in 1 .. index' - 1 : IsLoad(n)' => EndOf(n)' <= virtSize' /\ virtMin' <= image'.segments[n].vaddr
    BY <1>0, <1>n, <2>1, <2>7 DEF IsLoad, EndOf
  <2>9. (step \in {"identify", "table", "scan", "allocate"} => \A w \in Word : memory[w] = Other)'
        /\ CopiesStayInside'
    BY <2>1 DEF CopyInv, CopiesStayInside
  <2> QED BY <2>1, <2>8, <2>9 DEF CopyInv, Loading
<1>4. CASE CountPages
  <2>1. step' \in {"allocate", "returned"} /\ memory' = memory /\ step = "scan" /\ index > Len(image.segments)
    BY <1>4 DEF CountPages, Return
  <2>2. step' = "allocate" => EverythingFits'
    <3> SUFFICES ASSUME step' = "allocate" PROVE EverythingFits'
      OBVIOUS
    <3>1. pages' = PagesFor(ImageSize)
      BY <1>4 DEF CountPages, Return
    <3>2. ImageSize \in Nat
      <4>1. virtSize \in Nat /\ virtSize - virtMin \in Int
        BY ImageAssumption DEF TypeOK, Address
      <4>2. (virtSize - virtMin) % WordSize \in Nat
        BY <4>1, Remainder, ImageAssumption DEF Address
      <4> QED BY <4>1, <4>2 DEF ImageSize
    <3>3. ASSUME NEW n \in 1 .. Len(image.segments), IsLoad(n) PROVE EndOf(n) <= ImageSize
      <4>1. ImageSize = virtSize
        BY <1>0, <2>1, <3>3, ScannedSize
      <4>2. n \in 1 .. index - 1
        BY <1>n, <2>1
      <4> QED BY <2>1, <3>3, <4>1, <4>2 DEF CopyInv
    <3>4. image.kind \notin {"DOS", "other"}
      BY <2>1 DEF FormatIsKnown
    <3> QED BY <1>0, <3>1, <3>2, <3>3, <3>4, CountedRoom
  <2> QED BY <2>1, <2>2 DEF CopyInv, CopiesStayInside, Loading
<1>5. ASSUME NEW p \in 0 .. NumPages - 1, AllocatePages(p) PROVE CopyInv'
  <2>1. step = "allocate" /\ step' \in {"headers", "segments"} /\ pages' = pages
    BY <1>5 DEF AllocatePages
  <2>2. \A w \in Word : memory'[w] = IF w \in base' .. base' + pages * PageWords - 1 THEN Zero ELSE memory[w]
    BY <1>5 DEF AllocatePages
  <2>3. CopiesStayInside'
    BY <2>1, <2>2 DEF CopyInv, CopiesStayInside
  <2> QED BY <1>f, <2>1, <2>3 DEF CopyInv, Loading
<1>6. CASE CopyHeaders
  <2>1. Read(0, image.headers, base + 0) /\ image.kind = "PE" /\ image.headers \in Nat
    BY <1>6, <1>r, ImageFacts DEF CopyHeaders, TypeOK
  <2>2. step = "headers" /\ step' = "segments" /\ UNCHANGED <<base, pages>>
    BY <1>6 DEF CopyHeaders
  <2>3. 0 + image.headers <= RoomCounted
    BY <2>1, <2>2 DEF CopyInv, EverythingFits, Loading
  <2>4. CopiesStayInside'
    BY <2>1, <2>2, <2>3, ReadInside DEF CopyInv
  <2> QED BY <1>f, <2>2, <2>4 DEF CopyInv, Loading
<1>7. CASE CopyDos
  <2> DEFINE s == image.segments[1]
  <2>1. Read(s.fileoff, s.filesz, base + 0) /\ image.kind = "DOS"
    BY <1>7, <1>r DEF CopyDos
  <2>2. step = "headers" /\ step' = "returned" /\ UNCHANGED <<base, pages>>
    BY <1>7 DEF CopyDos, Return
  <2>3. s.filesz \in Nat /\ 0 + s.filesz <= RoomCounted
    <3>1. Len(image.segments) = 1
      BY <2>1, ImageFacts DEF TypeOK
    <3>2. s.filesz \in Nat
      BY <3>1, SegmentFacts
    <3> QED BY <2>1, <2>2, <3>2 DEF CopyInv, EverythingFits, Loading
  <2>4. CopiesStayInside'
    BY <2>1, <2>2, <2>3, ReadInside DEF CopyInv
  <2> QED BY <2>2, <2>4 DEF CopyInv, Loading
<1>8. CASE CopySegment
  <2> DEFINE s == image.segments[index]
  <2>1. Read(s.fileoff, s.filesz, base + s.vaddr) /\ IsLoad(index) /\ index \in 1 .. Len(image.segments)
    BY <1>n, <1>8 DEF CopySegment, AtHeader, IsLoad
  <2>2. step = "segments" /\ step' = "segments" /\ UNCHANGED <<base, pages>>
    BY <1>8 DEF CopySegment, AtHeader
  <2>3. s.vaddr \in Nat /\ s.filesz \in Nat /\ s.vaddr + s.filesz <= RoomCounted
    BY <2>1, <2>2, SegmentFacts DEF CopyInv, EverythingFits, Loading, FormatIsKnown
  <2>4. CopiesStayInside'
    BY <2>1, <2>2, <2>3, ReadInside DEF CopyInv
  <2> QED BY <1>f, <2>2, <2>4 DEF CopyInv, Loading
<1>9. CASE Relocate
  <2> DEFINE r == image.relocs[rel]
  <2>1. rel \in 1 .. Len(image.relocs)
    BY <1>9, HeaderFacts DEF Relocate
  <2>2. step = "relocate" /\ step' = step /\ UNCHANGED <<base, pages>>
        /\ \A w \in Word : memory'[w] = IF r.type = "relative" /\ w = base + r.offset
                                        THEN Patched(memory[w], r) ELSE memory[w]
    BY <1>9 DEF Relocate
  <2>3. r.type = "relative" => r.offset \in Nat /\ r.offset < RoomCounted
    BY <2>1, <2>2, RelocationFacts DEF CopyInv, EverythingFits, Loading, FormatIsKnown
  <2>4. CopiesStayInside'
    <3> SUFFICES ASSUME NEW w \in Word, w \notin base .. base + RoomCounted - 1 PROVE memory'[w] = Other
      BY <2>2 DEF CopiesStayInside, RoomCounted
    <3>1. memory[w] = Other
      BY DEF CopyInv, CopiesStayInside, RoomCounted
    <3>2. ~(r.type = "relative" /\ w = base + r.offset)
      BY <1>r, <2>3
    <3> QED BY <2>2, <3>1, <3>2
  <2> QED BY <1>f, <2>2, <2>4 DEF CopyInv, Loading
<1>10. CASE SkipHeader \/ ThreadCommand
  BY <1>f, <1>10 DEF SkipHeader, ThreadCommand, AtHeader, CopyInv, CopiesStayInside, Loading
<1>11. CASE MainCommand \/ ReadDynamic \/ PeRelocated \/ RefuseRelocation \/ Finish
  <2>1. step \in Loading /\ step' \in Loading \cup {"returned"} /\ UNCHANGED <<image, index, base, pages, memory>>
    BY <1>11 DEF MainCommand, ReadDynamic, PeRelocated, RefuseRelocation, Finish, AtHeader, Return, Loading
  <2> QED BY <2>1, QuietStep
<1>12. ASSUME NEW freed \in BOOLEAN, FreeDynamic(freed) PROVE CopyInv'
  BY <1>f, <1>12 DEF FreeDynamic, CopyInv, CopiesStayInside, Loading
<1>13. ASSUME NEW freed \in BOOLEAN, FreeTable(freed) PROVE CopyInv'
  <2>1. step \in Loading /\ step' \in Loading /\ UNCHANGED <<image, index, base, pages, memory>>
    BY <1>13 DEF FreeTable, Loading
  <2> QED BY <2>1, QuietStep
<1>14. CASE ServiceFails \/ AllocatePagesFails
  <2>1. step' = "returned" /\ UNCHANGED <<image, index, base, pages, memory>>
    BY <1>14 DEF ServiceFails, AllocatePagesFails, Return
  <2> QED BY <2>1, QuietStep
<1>15. CASE UNCHANGED vars
  BY <1>f, <1>15 DEF vars, extent, CopyInv, CopiesStayInside, IsLoad, EndOf
<1> QED
  BY <1>1, <1>2, <1>3, <1>4, <1>5, <1>6, <1>7, <1>8, <1>9, <1>10, <1>11, <1>12, <1>13, <1>14, <1>15
  DEF Next

\* A file linked to begin at zero is loaded inside the pages that were counted for
\* it, in any format: the overrun of those that are not is no matter of sizes.
THEOREM CopiesInside ==
  ASSUME \A im \in Images : IsLinkedAtZero(im)
  PROVE  Spec => []CopiesStayInside
<1>1. Init => CopyInv
  BY DEF Init, CopyInv, CopiesStayInside, Loading
<1>2. LoadInv /\ CopyInv /\ [Next]_vars => CopyInv'
  BY StepCopy DEF LoadInv
<1>3. CopyInv => CopiesStayInside
  BY DEF CopyInv
<1> QED BY <1>1, <1>2, <1>3, LoadIsSafe, PTL DEF Spec

-----------------------------------------------------------------------------
(* What is in the pages.                                                   *)

Covers(n, o) == IsLoad(n) /\ o - image.segments[n].vaddr \in 0 .. image.segments[n].filesz - 1
FromSegment(n, o) == FileWord(image.segments[n].fileoff + o - image.segments[n].vaddr)

\* Is this what the headers gone through so far have put o words into the image?
IsCopied(cell, o) ==
  /\ \A n \in 1 .. index - 1 : Covers(n, o) => cell = FromSegment(n, o)
  /\ (\A n \in 1 .. index - 1 : ~Covers(n, o)) =>
       cell = IF image.kind = "PE" /\ o < image.headers THEN FileWord(o) ELSE Zero

SitesAt(o) == {r \in Sites : image.relocs[r].offset = o}

\* Has relocation r been done?  A PT_DYNAMIC before is enough for an ELF file.
IsPatched(r) ==
  IF image.kind = "PE" THEN r < rel
  ELSE (\E n \in 1 .. index - 1 : HasDynamic(n)) \/ (step = "relocate" /\ r < rel)

IsPlaced(cell, o) ==
  /\ (\A r \in SitesAt(o) : ~IsPatched(r)) => IsCopied(cell, o)
  /\ \A r \in SitesAt(o) : IsPatched(r) =>
       IF image.kind = "ELF"
       THEN cell = [word |-> 0, shift |-> (base + image.relocs[r].addend) % WordSize]
       ELSE /\ IsCopied([word |-> cell.word, shift |-> 0], o)
            /\ cell.shift = (base - image.imageBase) % WordSize

PagesHold ==
  /\ step \in Loading => base + RoomCounted <= NumPages * PageWords
  /\ step = "headers" => \A o \in 0 .. RoomCounted - 1 : memory[base + o] = Zero
  /\ step \in Loading \ {"headers"} => \A o \in 0 .. RoomCounted - 1 : IsPlaced(memory[base + o], o)

RelocationIsKnown ==
  /\ step \in {"finish", "loaded"} => index > Len(image.segments)
  /\ step \in {"finish", "loaded"} /\ image.kind = "PE" =>
       IF NeedsRelocation THEN rel > Len(image.relocs) ELSE rel = 1
  /\ step = "relocate" /\ image.kind = "ELF" => HasDynamic(index)
  /\ step = "relocate" /\ rel <= Len(image.relocs) => HasTable

EntryIsKnown ==
  /\ image.kind = "MACHO" /\ step \in {"segments", "finish"} =>
       \A n \in 1 .. index - 1 : image.segments[n].type = "thread" => entry = image.entry
  /\ step = "loaded" => entry = base + image.entry

ContentsInv == PagesHold /\ RelocationIsKnown /\ EntryIsKnown

\* What a well-formed file promises, by the numbers of its headers.
LEMMA FormFacts ==
  ASSUME TypeOK, IsWellFormed(image)
  PROVE  /\ image.kind = "PE" => image.headers <= image.size
         /\ \A n \in 1 .. Len(image.segments) :
              IsLoad(n) => image.segments[n].fileoff + image.segments[n].filesz <= image.size
         /\ \A n, m \in 1 .. Len(image.segments) : \A o \in Word :
              Covers(n, o) /\ Covers(m, o) => FromSegment(n, o) = FromSegment(m, o)
         /\ \A r, q \in Sites : image.relocs[r].offset = image.relocs[q].offset => r = q
         /\ \A n, m \in 1 .. Len(image.segments) : IsLoad(n) /\ HasDynamic(m) => n < m
         /\ image.kind = "ELF" /\ image.tableIn # 0 =>
              image.tableIn \in 1 .. Len(image.segments) /\ IsLoad(image.tableIn)
         /\ image.kind = "MACHO" =>
              /\ Sites = {}
              /\ \E n \in 1 .. Len(image.segments) : image.segments[n].type \in {"thread", "main"}
<1>1. DOMAIN image.segments = 1 .. Len(image.segments) /\ DOMAIN image.relocs = 1 .. Len(image.relocs)
  BY HeaderFacts
<1>2. image.kind = "PE" => image.headers <= image.size
  BY DEF IsWellFormed
<1>3. ASSUME NEW n \in 1 .. Len(image.segments), IsLoad(n)
      PROVE  image.segments[n].fileoff + image.segments[n].filesz <= image.size
  BY <1>1, <1>3 DEF IsWellFormed, IsLoad
<1>4. ASSUME NEW n \in 1 .. Len(image.segments), NEW m \in 1 .. Len(image.segments), NEW o \in Word,
             Covers(n, o), Covers(m, o)
      PROVE  FromSegment(n, o) = FromSegment(m, o)
  <2> DEFINE fn == image.segments[n].fileoff
             vn == image.segments[n].vaddr
             fm == image.segments[m].fileoff
             vm == image.segments[m].vaddr
  <2>1. fn - vn = fm - vm
    BY <1>1, <1>4 DEF IsWellFormed, Covers, IsLoad
  <2>2. fn \in Nat /\ vn \in Nat /\ fm \in Nat /\ vm \in Nat
    BY SegmentFacts
  <2>3. o \in Int
    BY DEF Word
  <2>4. fn + o - vn = fm + o - vm
    <3> HIDE DEF fn, vn, fm, vm
    <3> QED BY <2>1, <2>2, <2>3
  <2> QED BY <2>4 DEF FromSegment
<1>5. ASSUME NEW r \in Sites, NEW q \in Sites, image.relocs[r].offset = image.relocs[q].offset
      PROVE  r = q
  BY <1>5 DEF IsWellFormed, Sites
<1>6. ASSUME NEW n \in 1 .. Len(image.segments), NEW m \in 1 .. Len(image.segments), IsLoad(n), HasDynamic(m)
      PROVE  n < m
  BY <1>1, <1>6 DEF IsWellFormed, IsLoad, HasDynamic
<1>7. image.kind = "ELF" /\ image.tableIn # 0 =>
        image.tableIn \in 1 .. Len(image.segments) /\ IsLoad(image.tableIn)
  BY <1>1 DEF IsWellFormed, IsLoad
<1>8. image.kind = "MACHO" =>
        /\ Sites = {}
        /\ \E n \in 1 .. Len(image.segments) : image.segments[n].type \in {"thread", "main"}
  BY <1>1 DEF IsWellFormed, Sites, HasTable
<1> QED BY <1>2, <1>3, <1>4, <1>5, <1>6, <1>7, <1>8

\* The pages are in memory, word for word.
LEMMA PlaceFacts ==
  ASSUME TypeOK, base + RoomCounted <= NumPages * PageWords, NEW o \in 0 .. RoomCounted - 1
  PROVE  /\ o \in Nat /\ base \in Nat /\ RoomCounted \in Nat
         /\ o \in Word /\ base + o \in Word /\ memory[base + o] \in Cell
<1>1. base \in Nat /\ RoomCounted \in Nat
  BY ImageAssumption DEF TypeOK, Word, RoomCounted
<1>s. NumPages * PageWords \in Nat
  BY ImageAssumption
<1> HIDE DEF RoomCounted
<1>2. o \in Word /\ base + o \in Word
  BY <1>1, <1>s DEF Word
<1> QED BY <1>1, <1>2 DEF TypeOK

\* A copied word is a word of the file or zero, as it is there.
LEMMA CopiedWord ==
  ASSUME NEW cell, NEW o, IsCopied(cell, o)
  PROVE  cell.shift = 0 /\ cell = [word |-> cell.word, shift |-> 0]
<1>1. (\E x : cell = FileWord(x)) \/ cell = Zero
  BY DEF IsCopied, FromSegment
<1> QED BY <1>1 DEF FileWord, Zero

\* Only the headers of segments change what is copied.
LEMMA SameCopied ==
  ASSUME TypeOK, image' = image, index' = index \/ (index' = index + 1 /\ ~IsLoad(index))
  PROVE  \A cell, o : IsCopied(cell, o)' <=> IsCopied(cell, o)
<1>1. \A n, o : /\ Covers(n, o)' <=> Covers(n, o)
               /\ FromSegment(n, o)' = FromSegment(n, o)
  BY DEF Covers, IsLoad, FromSegment
<1>2. index \in Nat
  BY HeaderFacts
<1>3. \A o : \A n \in 1 .. index' - 1 : n \in 1 .. index - 1 \/ ~Covers(n, o)
  BY <1>2 DEF Covers
<1>4. \A n \in 1 .. index - 1 : n \in 1 .. index' - 1
  BY <1>2
<1> QED BY <1>1, <1>3, <1>4 DEF IsCopied

LEMMA SameSites ==
  ASSUME image' = image
  PROVE  Sites' = Sites /\ HasTable' = HasTable /\ \A o : SitesAt(o)' = SitesAt(o)
BY DEF Sites, HasTable, HasDynamic, SitesAt

\* Steps that change no word of the image.
LEMMA SamePlaces ==
  ASSUME TypeOK, PagesHold, UNCHANGED <<image, base, pages, memory>>,
         step \in Loading \ {"headers"}, step' \in Loading \ {"headers"},
         index' = index \/ (index' = index + 1 /\ ~IsLoad(index)),
         \A r \in Sites : IsPatched(r)' <=> IsPatched(r)
  PROVE  PagesHold'
<1>1. \A cell, o : IsCopied(cell, o)' <=> IsCopied(cell, o)
  BY SameCopied
<1>2. \A o : SitesAt(o)' = SitesAt(o) /\ SitesAt(o) \subseteq Sites
  BY SameSites DEF SitesAt
<1>3. \A cell, o : IsPlaced(cell, o)' <=> IsPlaced(cell, o)
  BY <1>1, <1>2 DEF IsPlaced
<1>4. RoomCounted' = RoomCounted
  BY DEF RoomCounted
<1> QED BY <1>3, <1>4 DEF PagesHold

\* When all headers are through, what is copied is the file's image.
LEMMA CopiedIsFileImage ==
  ASSUME TypeOK, index > Len(image.segments), NEW cell, NEW o, IsCopied(cell, o)
  PROVE  cell = FileImage(o)
<1> DEFINE covering == {s \in Loads : o - s.vaddr \in 0 .. s.filesz - 1}
<1>1. /\ DOMAIN image.segments = 1 .. Len(image.segments) /\ Len(image.segments) \in Nat /\ index \in Nat
      /\ \A n \in 1 .. Len(image.segments) : n \in 1 .. index - 1
  BY HeaderFacts
<1>2. CASE covering # {}
  <2> DEFINE s == CHOOSE s \in covering : TRUE
  <2>1. s \in covering
    BY <1>2
  <2>2. FileImage(o) = FileWord(s.fileoff + o - s.vaddr)
    BY <1>2 DEF FileImage
  <2> HIDE DEF s
  <2>3. PICK n \in 1 .. Len(image.segments) : s = image.segments[n]
    BY <1>1, <2>1 DEF Loads, Range
  <2>4. Covers(n, o) /\ n \in 1 .. index - 1
    BY <1>1, <2>1, <2>3 DEF Covers, IsLoad, Loads
  <2> QED BY <2>2, <2>3, <2>4 DEF IsCopied, FromSegment
<1>3. CASE covering = {}
  <2>1. ASSUME NEW n \in 1 .. index - 1, Covers(n, o) PROVE FALSE
    <3>1. n \in 1 .. Len(image.segments)
      BY HeaderFacts
    <3>2. image.segments[n] \in covering
      BY <2>1, <3>1, SegmentFacts DEF Covers, IsLoad, Loads
    <3> QED BY <1>3, <3>2
  <2> QED BY <1>3, <2>1 DEF IsCopied, FileImage
<1> QED BY <1>2, <1>3

\* A loaded word is the one the format asks for.
LEMMA PlacedIsRelocated ==
  ASSUME TypeOK, FormatIsKnown, ContentsInv, IsWellFormed(image), step = "loaded",
         NEW o \in 0 .. RoomCounted - 1
  PROVE  memory[base + o] = Relocated(o)
<1> DEFINE cell == memory[base + o]
<1>1. IsPlaced(cell, o) /\ base + RoomCounted <= NumPages * PageWords
  BY DEF ContentsInv, PagesHold, Loading
<1>2. cell \in Cell /\ base \in Nat
  BY <1>1, PlaceFacts
<1> HIDE DEF cell
<1>3. index > Len(image.segments) /\ index \in Nat /\ Len(image.segments) \in Nat
  BY HeaderFacts DEF ContentsInv, RelocationIsKnown
<1>4. \A c : IsCopied(c, o) => c = FileImage(o)
  BY <1>3, CopiedIsFileImage
<1>5. CASE SitesAt(o) = {}
  <2>1. cell = FileImage(o)
    BY <1>1, <1>4, <1>5 DEF IsPlaced
  <2> QED BY <1>5, <2>1 DEF Relocated, SitesAt, cell
<1>6. CASE SitesAt(o) # {}
  <2>1. PICK r : r \in SitesAt(o)
    BY <1>6
  <2>2. r \in Sites /\ r \in 1 .. Len(image.relocs) /\ HasTable
    BY <2>1, HeaderFacts DEF SitesAt, Sites
  <2>3. SitesAt(o) = {r}
    <3>1. ASSUME NEW q \in SitesAt(o) PROVE q = r
      <4>1. q \in Sites /\ image.relocs[q].offset = image.relocs[r].offset
        BY <2>1 DEF SitesAt
      <4> QED BY <2>2, <4>1, FormFacts
    <3> QED BY <2>1, <3>1
  <2>4. (CHOOSE n \in SitesAt(o) : TRUE) = r
    BY <2>3
  <2>5. Relocated(o) = IF image.kind = "ELF"
                       THEN [word |-> 0, shift |-> (base + image.relocs[r].addend) % WordSize]
                       ELSE [word |-> FileImage(o).word, shift |-> (base - image.imageBase) % WordSize]
    BY <1>6, <2>4 DEF Relocated, SitesAt
  <2>6. cell = [word |-> cell.word, shift |-> cell.shift]
    BY <1>2 DEF Cell
  <2>7. CASE image.kind = "ELF"
    <3>1. PICK n \in 1 .. Len(image.segments) : HasDynamic(n)
      BY <2>2, <2>7, HeaderFacts DEF HasTable
    <3>2. IsPatched(r)
      BY <1>3, <2>7, <3>1 DEF IsPatched
    <3> QED BY <1>1, <2>1, <2>5, <2>7, <3>2 DEF IsPlaced, cell
  <2>8. CASE image.kind = "PE" /\ base # image.imageBase
    <3>1. rel > Len(image.relocs)
      BY <2>2, <2>8 DEF HasTable, NeedsRelocation, ContentsInv, RelocationIsKnown
    <3>2. IsPatched(r)
      BY <2>2, <2>8, <3>1, HeaderFacts DEF IsPatched
    <3>3. /\ IsCopied([word |-> cell.word, shift |-> 0], o)
          /\ cell.shift = (base - image.imageBase) % WordSize
      BY <1>1, <2>1, <2>8, <3>2 DEF IsPlaced
    <3>4. FileImage(o).word = cell.word
      <4>1. FileImage(o) = [word |-> cell.word, shift |-> 0]
        BY <1>4, <3>3
      <4> QED BY <4>1
    <3> QED BY <2>5, <2>6, <2>8, <3>3, <3>4 DEF cell
  <2>9. CASE image.kind = "PE" /\ base = image.imageBase
    <3>1. rel = 1
      BY <2>9 DEF NeedsRelocation, ContentsInv, RelocationIsKnown
    <3>2. \A q \in SitesAt(o) : ~IsPatched(q)
      BY <2>2, <2>3, <2>9, <3>1 DEF IsPatched
    <3>3. IsCopied(cell, o)
      BY <1>1, <3>2 DEF IsPlaced
    <3>4. cell = FileImage(o) /\ cell.shift = 0
      BY <1>4, <3>3, CopiedWord
    <3>5. (base - image.imageBase) % WordSize = 0
      <4>1. base - image.imageBase = 0
        BY <1>2, <2>9
      <4> QED BY <4>1, ImageAssumption
    <3> QED BY <2>5, <2>6, <2>9, <3>4, <3>5 DEF cell
  <2>10. image.kind \in {"ELF", "PE"}
    <3>1. image.kind # "MACHO"
      BY <2>2, FormFacts
    <3> QED BY <3>1, HeaderFacts DEF FormatIsKnown
  <2> QED BY <2>7, <2>8, <2>9, <2>10
<1> QED BY <1>5, <1>6

LEMMA LoadedIsExact ==
  ASSUME LoadInv, CopyInv, ContentsInv, IsWellFormed(image)
  PROVE  ImageIsExact
<1>1. CopiesStayInside
  BY DEF CopyInv
<1> SUFFICES ASSUME step = "loaded"
             PROVE  /\ \A w \in base .. base + pages * PageWords - 1 : memory[w] = Relocated(w - base)
                    /\ entry = base + image.entry
  BY <1>1 DEF ImageIsExact
<1>2. entry = base + image.entry
  BY DEF ContentsInv, EntryIsKnown
<1>3. ASSUME NEW w \in base .. base + pages * PageWords - 1
      PROVE  memory[w] = Relocated(w - base)
  <2>1. base \in Nat /\ RoomCounted \in Nat
    BY ImageAssumption DEF LoadInv, TypeOK, Word, RoomCounted
  <2>2. w - base \in 0 .. RoomCounted - 1 /\ base + (w - base) = w
    BY <2>1 DEF RoomCounted
  <2>3. memory[base + (w - base)] = Relocated(w - base)
    BY <2>2, PlacedIsRelocated DEF LoadInv
  <2> QED BY <2>2, <2>3
<1> QED BY <1>2, <1>3

LEMMA StepRelocation ==
  ASSUME LoadInv, RelocationIsKnown, [Next]_vars
  PROVE  RelocationIsKnown'
<1>0. /\ TypeOK /\ FormatIsKnown /\ HeadersArePassed /\ StatusIsKnown /\ image' = image
      /\ HasTable' = HasTable /\ \A n : HasDynamic(n)' = HasDynamic(n)
  BY SameImage, SameSites DEF LoadInv, HasDynamic
<1>n. index \in Nat /\ Len(image.segments) \in Nat /\ rel \in Nat /\ Len(image.relocs) \in Nat
  BY <1>0, HeaderFacts
<1>1. CASE step' \notin {"relocate", "finish", "loaded"}
  BY <1>1 DEF RelocationIsKnown
<1>2. CASE ReadDynamic
  <2>1. /\ image.kind = "ELF" /\ HasDynamic(index) /\ step' # "finish" /\ step' # "loaded" /\ index' = index
        /\ index \in 1 .. Len(image.segments)
        /\ rel' = IF image.tableIn \in 1 .. index - 1 THEN 1 ELSE Len(image.relocs) + 1
    BY <1>0, <1>2, HeaderFacts DEF ReadDynamic, AtHeader, HasDynamic, Return
  <2>2. rel' <= Len(image.relocs) => HasTable
    BY <1>0, <1>n, <2>1, HeaderFacts DEF HasTable
  <2> QED BY <1>0, <2>1, <2>2 DEF RelocationIsKnown
<1>3. CASE Relocate
  <2>1. step = "relocate" /\ step' = step /\ index' = index /\ rel' = rel + 1
    BY <1>3 DEF Relocate
  <2> QED BY <1>0, <1>n, <2>1 DEF RelocationIsKnown
<1>4. CASE PeRelocated
  <2>1. step = "relocate" /\ step' = "finish" /\ rel' = rel /\ index' = index /\ rel > Len(image.relocs)
        /\ image.kind = "PE" /\ base' = base
    BY <1>4 DEF PeRelocated
  <2>2. NeedsRelocation' /\ index > Len(image.segments)
    BY <1>0, <2>1 DEF StatusIsKnown, HeadersArePassed, NeedsRelocation
  <2> QED BY <1>0, <2>1, <2>2 DEF RelocationIsKnown
<1>5. ASSUME NEW freed \in BOOLEAN, FreeDynamic(freed) PROVE RelocationIsKnown'
  BY <1>5 DEF FreeDynamic, RelocationIsKnown
<1>6. ASSUME NEW freed \in BOOLEAN, FreeTable(freed) PROVE RelocationIsKnown'
  <2>1. /\ step = "segments" /\ index > Len(image.segments) /\ UNCHANGED <<index, rel, base>>
        /\ step' = IF NeedsRelocation THEN "relocate" ELSE "finish"
    BY <1>6 DEF FreeTable
  <2>2. NeedsRelocation' = NeedsRelocation /\ (NeedsRelocation => HasTable /\ image.kind = "PE")
    BY <1>0, <2>1 DEF NeedsRelocation, HasTable
  <2>3. image.kind = "PE" => rel = 1
    BY <1>0, <2>1 DEF StatusIsKnown
  <2> QED BY <1>0, <2>1, <2>2, <2>3 DEF RelocationIsKnown
<1>7. CASE Finish
  <2>1. step = "finish" /\ UNCHANGED <<index, rel, base>> /\ step' = "loaded"
    BY <1>7 DEF Finish
  <2>2. NeedsRelocation' = NeedsRelocation
    BY <1>0, <2>1 DEF NeedsRelocation
  <2> QED BY <1>0, <2>1, <2>2 DEF RelocationIsKnown
<1>8. CASE UNCHANGED vars
  <2>1. UNCHANGED <<image, step, index, rel, base>>
    BY <1>8 DEF vars
  <2>2. NeedsRelocation' = NeedsRelocation
    BY <2>1 DEF NeedsRelocation
  <2> QED BY <1>0, <2>1, <2>2 DEF RelocationIsKnown
<1>9. CASE \/ Identify \/ ReadTable \/ ScanHeader \/ CountPages \/ AllocatePagesFails
           \/ CopyHeaders \/ CopyDos \/ CopySegment \/ SkipHeader \/ ThreadCommand \/ MainCommand
           \/ RefuseRelocation \/ ServiceFails
  <2>1. step' \notin {"relocate", "finish", "loaded"}
    BY <1>9 DEF Identify, ReadTable, ScanHeader, CountPages, AllocatePagesFails, CopyHeaders, CopyDos,
       CopySegment, SkipHeader, ThreadCommand, MainCommand, RefuseRelocation, ServiceFails, AtHeader, Return
  <2> QED BY <1>1, <2>1
<1>10. CASE \E p \in 0 .. NumPages - 1 : AllocatePages(p)
  <2>1. step' \notin {"relocate", "finish", "loaded"}
    BY <1>10 DEF AllocatePages
  <2> QED BY <1>1, <2>1
<1> QED BY <1>2, <1>3, <1>4, <1>5, <1>6, <1>7, <1>8, <1>9, <1>10 DEF Next

LEMMA StepEntry ==
  ASSUME LoadInv, RelocationIsKnown, EntryIsKnown, IsWellFormed(image), [Next]_vars
  PROVE  EntryIsKnown'
<1>0. TypeOK /\ FormatIsKnown /\ HeadersArePassed /\ image' = image
  BY SameImage DEF LoadInv
<1>n. index \in Nat /\ Len(image.segments) \in Nat
  BY <1>0, HeaderFacts
<1>1. CASE CopySegment \/ SkipHeader
  <2>1. step = "segments" /\ step' = step /\ index' = index + 1 /\ entry' = entry
        /\ image.segments[index].type # "thread"
    BY <1>1 DEF CopySegment, SkipHeader, AtHeader
  <2>2. \A n \in 1 .. index' - 1 : n \in 1 .. index - 1 \/ n = index
    BY <1>n, <2>1
  <2> QED BY <1>0, <2>1, <2>2 DEF EntryIsKnown
<1>2. CASE ThreadCommand
  BY <1>0, <1>2 DEF ThreadCommand, AtHeader, EntryIsKnown
<1>3. CASE CopyHeaders
  BY <1>0, <1>3 DEF CopyHeaders, EntryIsKnown
<1>4. ASSUME NEW p \in 0 .. NumPages - 1, AllocatePages(p) PROVE EntryIsKnown'
  <2>1. step = "allocate" /\ step' # "loaded" /\ index' = index
    BY <1>4 DEF AllocatePages
  <2>2. index = 1
    BY <1>0, <2>1 DEF HeadersArePassed
  <2> QED BY <2>1, <2>2 DEF EntryIsKnown
<1>5. ASSUME NEW freed \in BOOLEAN, FreeDynamic(freed) PROVE EntryIsKnown'
  BY <1>0, <1>5 DEF FreeDynamic, EntryIsKnown
<1>6. ASSUME NEW freed \in BOOLEAN, FreeTable(freed) PROVE EntryIsKnown'
  BY <1>0, <1>6 DEF FreeTable, EntryIsKnown
<1>7. CASE Finish
  <2>1. /\ step = "finish" /\ step' = "loaded" /\ base' = base
        /\ entry' = base + IF image.kind = "MACHO" THEN entry ELSE image.entry
    BY <1>7 DEF Finish
  <2>2. image.kind = "MACHO" => entry = image.entry
    <3> SUFFICES ASSUME image.kind = "MACHO" PROVE entry = image.entry
      OBVIOUS
    <3>1. PICK n \in 1 .. Len(image.segments) : image.segments[n].type \in {"thread", "main"}
      BY <1>0, FormFacts
    <3>2. image.segments[n].type = "thread"
      BY <1>0, <2>1, <3>1 DEF HeadersArePassed, Passed
    <3>3. n \in 1 .. index - 1
      BY <1>n, <2>1 DEF RelocationIsKnown
    <3> QED BY <2>1, <3>2, <3>3 DEF EntryIsKnown
  <2> QED BY <1>0, <2>1, <2>2 DEF EntryIsKnown
<1>8. CASE PeRelocated
  BY <1>0, <1>8 DEF PeRelocated, EntryIsKnown
<1>9. CASE UNCHANGED vars
  BY <1>0, <1>9 DEF vars, EntryIsKnown
<1>10. CASE \/ Identify \/ ReadTable \/ ScanHeader \/ CountPages \/ AllocatePagesFails \/ CopyDos
            \/ MainCommand \/ ReadDynamic \/ Relocate \/ RefuseRelocation \/ ServiceFails
  <2>1. step' \notin {"segments", "finish", "loaded"}
    BY <1>10 DEF Identify, ReadTable, ScanHeader, CountPages, AllocatePagesFails, CopyDos,
       MainCommand, ReadDynamic, Relocate, RefuseRelocation, ServiceFails, AtHeader, Return
  <2> QED BY <2>1 DEF EntryIsKnown
<1> QED BY <1>1, <1>2, <1>3, <1>4, <1>5, <1>6, <1>7, <1>8, <1>9, <1>10 DEF Next

LEMMA StepPagesHold ==
  ASSUME LoadInv, CopyInv, PagesHold, RelocationIsKnown, IsWellFormed(image), [Next]_vars
  PROVE  PagesHold'
<1>0. /\ TypeOK /\ FormatIsKnown /\ HeadersArePassed /\ StatusIsKnown /\ image' = image
      /\ \A n : HasDynamic(n)' = HasDynamic(n)
  BY SameImage DEF LoadInv, HasDynamic
<1>n. index \in Nat /\ index >= 1 /\ Len(image.segments) \in Nat /\ rel \in Nat /\ rel >= 1 /\ Len(image.relocs) \in Nat
  BY <1>0, HeaderFacts
<1>s. /\ Sites \subseteq 1 .. Len(image.relocs)
      /\ Sites # {} => HasTable
      /\ \A o : SitesAt(o) \subseteq Sites /\ SitesAt(o)' = SitesAt(o)
  <2>1. \A o : SitesAt(o)' = SitesAt(o)
    BY <1>0, SameSites
  <2>2. \A o : SitesAt(o) \subseteq Sites
    BY DEF SitesAt
  <2>3. Sites \subseteq 1 .. Len(image.relocs) /\ (Sites # {} => HasTable)
    BY <1>0, HeaderFacts DEF Sites
  <2> QED
    <3> HIDE DEF Sites, SitesAt
    <3> QED BY <2>1, <2>2, <2>3
<1>1. CASE step' \notin Loading
  BY <1>1 DEF PagesHold, Loading
<1>2. ASSUME NEW p \in 0 .. NumPages - 1, AllocatePages(p) PROVE PagesHold'
  <2>1. /\ pages' = pages /\ index' = index /\ rel' = rel /\ base' = p * PageWords /\ p + pages <= NumPages
        /\ step = "allocate" /\ step' = IF image.kind \in {"PE", "DOS"} THEN "headers" ELSE "segments"
        /\ \A w \in Word : w \in base' .. base' + pages * PageWords - 1 => memory'[w] = Zero
    BY <1>2 DEF AllocatePages
  <2>2. base' + RoomCounted <= NumPages * PageWords /\ base' \in Nat /\ RoomCounted \in Nat
    <3>1. p \in Nat /\ pages \in Nat /\ PageWords \in Nat /\ NumPages \in Nat
      BY <1>0, ImageAssumption DEF TypeOK
    <3>2. (NumPages - (p + pages)) * PageWords \in Nat
      BY <2>1, <3>1
    <3>3. NumPages * PageWords = p * PageWords + pages * PageWords + (NumPages - (p + pages)) * PageWords
      BY <3>1
    <3>4. p * PageWords \in Nat /\ pages * PageWords \in Nat
      BY <3>1
    <3> QED BY <2>1, <3>2, <3>3, <3>4 DEF RoomCounted
  <2>3. ASSUME NEW o \in 0 .. RoomCounted - 1 PROVE memory'[base' + o] = Zero
    <3>1. NumPages * PageWords \in Nat
      BY ImageAssumption
    <3>2. base' + o \in Word /\ base' + o \in base' .. base' + RoomCounted - 1
      <4> DEFINE b == base'
                 room == RoomCounted
                 all == NumPages * PageWords
      <4>1. b + room <= all /\ b \in Nat /\ room \in Nat /\ all \in Nat /\ o \in 0 .. room - 1
        BY <2>2, <3>1
      <4>2. b + o \in 0 .. all - 1 /\ b + o \in b .. b + room - 1
        <5> HIDE DEF b, room, all
        <5> QED BY <4>1
      <4> QED BY <4>2 DEF Word
    <3> QED BY <2>1, <3>2 DEF RoomCounted
  <2>4. RoomCounted' = RoomCounted
    BY <2>1 DEF RoomCounted
  <2>5. ASSUME NEW o, step' = "segments" PROVE IsPlaced(Zero, o)'
    <3>1. image.kind # "PE" /\ index' = 1
      BY <1>0, <2>1, <2>5 DEF HeadersArePassed
    <3>2. \A r : ~IsPatched(r)'
      BY <1>0, <2>5, <3>1 DEF IsPatched
    <3>3. IsCopied(Zero, o)'
      BY <1>0, <3>1 DEF IsCopied
    <3> QED BY <3>2, <3>3 DEF IsPlaced, Zero
  <2>6. \A o \in 0 .. RoomCounted - 1 : step' = "segments" => IsPlaced(memory[base + o], o)'
    BY <2>3, <2>5 DEF IsPlaced, IsCopied, Zero
  <2> QED BY <2>1, <2>2, <2>3, <2>4, <2>6 DEF PagesHold
<1>3. CASE CopyHeaders
  <2>1. /\ step = "headers" /\ step' = "segments" /\ image.kind = "PE" /\ Read(0, image.headers, base)
        /\ UNCHANGED <<base, pages, index, rel>>
    BY <1>3 DEF CopyHeaders
  <2>2. index' = 1 /\ rel' = 1 /\ RoomCounted' = RoomCounted /\ base + RoomCounted <= NumPages * PageWords
    BY <1>0, <2>1 DEF HeadersArePassed, StatusIsKnown, RoomCounted, PagesHold, Loading
  <2>3. ASSUME NEW o \in 0 .. RoomCounted - 1 PROVE IsPlaced(memory[base + o], o)'
    <3>1. memory[base + o] = Zero /\ base + o \in Word /\ o \in Nat /\ base \in Nat
      BY <1>0, <2>1, <2>2, PlaceFacts DEF PagesHold
    <3>2. image.headers <= image.size /\ image.headers \in Nat /\ image.size \in Nat
      BY <1>0, <2>1, ImageFacts, FormFacts DEF TypeOK
    <3>3. (base + o) - base = o /\ 0 + (base + o) - base = o
      BY <3>1
    <3>4. memory'[base + o] = IF o \in 0 .. image.headers - 1 /\ o < image.size THEN FileWord(o) ELSE Zero
      BY <2>1, <3>1, <3>3 DEF Read
    <3>5. memory'[base + o] = IF o < image.headers THEN FileWord(o) ELSE Zero
      BY <3>1, <3>2, <3>4
    <3>6. IsCopied(memory[base + o], o)'
      BY <1>0, <2>1, <2>2, <3>5 DEF IsCopied
    <3>7. \A r \in Sites : ~IsPatched(r)'
      BY <1>0, <1>s, <2>1, <2>2 DEF IsPatched
    <3> QED BY <1>s, <3>6, <3>7 DEF IsPlaced
  <2> QED BY <2>1, <2>2, <2>3 DEF PagesHold
<1>4. CASE CopySegment
  <2> DEFINE s == image.segments[index]
  <2>1. /\ step = "segments" /\ step' = step /\ index' = index + 1 /\ IsLoad(index) /\ index \in 1 .. Len(image.segments)
        /\ Read(s.fileoff, s.filesz, base + s.vaddr) /\ UNCHANGED <<base, pages, rel>>
    BY <1>n, <1>4 DEF CopySegment, AtHeader, IsLoad
  <2>2. RoomCounted' = RoomCounted /\ base + RoomCounted <= NumPages * PageWords
    BY <2>1 DEF RoomCounted, PagesHold, Loading
  <2>3. \A r \in Sites : ~IsPatched(r) /\ ~IsPatched(r)'
    <3>1. ASSUME NEW n \in 1 .. index, HasDynamic(n) PROVE FALSE
      <4>1. n \in 1 .. Len(image.segments)
        BY <2>1
      <4>2. index < n
        BY <1>0, <2>1, <3>1, <4>1, FormFacts
      <4> QED BY <1>n, <4>2
    <3>2. image.kind = "PE" => rel = 1
      BY <1>0, <2>1 DEF StatusIsKnown
    <3>3. 1 .. index - 1 \subseteq 1 .. index /\ 1 .. index' - 1 \subseteq 1 .. index
      BY <1>n, <2>1
    <3> QED BY <1>0, <1>s, <2>1, <3>1, <3>2, <3>3 DEF IsPatched
  <2>4. ASSUME NEW o \in 0 .. RoomCounted - 1 PROVE IsPlaced(memory[base + o], o)'
    <3>1. base + o \in Word /\ o \in Nat /\ base \in Nat /\ o \in Word
      BY <1>0, <2>2, PlaceFacts
    <3>2. IsCopied(memory[base + o], o)
      BY <1>s, <2>1, <2>3 DEF PagesHold, IsPlaced, Loading
    <3>3. s.vaddr \in Nat /\ s.filesz \in Nat /\ s.fileoff \in Nat /\ s.fileoff + s.filesz <= image.size /\ image.size \in Nat
      BY <1>0, <2>1, SegmentFacts, FormFacts, ImageFacts DEF TypeOK
    <3>4. memory'[base + o] = IF Covers(index, o) THEN FromSegment(index, o) ELSE memory[base + o]
      <4> DEFINE v == s.vaddr
                 z == s.filesz
                 f == s.fileoff
                 b == base + o
      <4>1. memory'[b] = IF b - (base + v) \in 0 .. z - 1 /\ f + b - (base + v) < image.size
                         THEN FileWord(f + b - (base + v)) ELSE memory[b]
        BY <2>1, <3>1 DEF Read
      <4>2. b - (base + v) = o - v /\ f + b - (base + v) = f + o - v
            /\ (o - v \in 0 .. z - 1 => f + o - v < image.size)
        <5> HIDE DEF v, z, f
        <5>1. v \in Nat /\ z \in Nat /\ f \in Nat /\ f + z <= image.size /\ image.size \in Nat
          BY <3>3 DEF v, z, f
        <5> QED BY <3>1, <5>1
      <4>3. memory'[b] = IF o - v \in 0 .. z - 1 THEN FileWord(f + o - v) ELSE memory[b]
        <5> HIDE DEF v, z, f, b
        <5> QED BY <4>1, <4>2
      <4> QED BY <2>1, <4>3 DEF Covers, FromSegment
    <3>5. ASSUME NEW n \in 1 .. index' - 1, Covers(n, o) PROVE memory'[base + o] = FromSegment(n, o)
      <4>1. CASE Covers(index, o)
        <5>1. n \in 1 .. Len(image.segments)
          BY <1>n, <2>1
        <5>2. FromSegment(n, o) = FromSegment(index, o)
          BY <1>0, <2>1, <3>1, <3>5, <4>1, <5>1, FormFacts
        <5> QED BY <3>4, <4>1, <5>2
      <4>2. CASE ~Covers(index, o)
        <5>1. n \in 1 .. index - 1
          BY <1>n, <2>1, <3>5, <4>2
        <5> QED BY <3>2, <3>4, <3>5, <4>2, <5>1 DEF IsCopied
      <4> QED BY <4>1, <4>2
    <3>6. (\A n \in 1 .. index' - 1 : ~Covers(n, o)) =>
            memory'[base + o] = IF image.kind = "PE" /\ o < image.headers THEN FileWord(o) ELSE Zero
      <4> SUFFICES ASSUME \A n \in 1 .. index' - 1 : ~Covers(n, o)
                   PROVE  memory'[base + o] = IF image.kind = "PE" /\ o < image.headers THEN FileWord(o) ELSE Zero
        OBVIOUS
      <4>1. ~Covers(index, o) /\ \A n \in 1 .. index - 1 : ~Covers(n, o)
        BY <1>n, <2>1
      <4> QED BY <3>2, <3>4, <4>1 DEF IsCopied
    <3>7. \A n : (Covers(n, o)' <=> Covers(n, o)) /\ FromSegment(n, o)' = FromSegment(n, o)
      BY <1>0 DEF Covers, FromSegment, IsLoad
    <3>8. IsCopied(memory[base + o], o)'
      BY <1>0, <2>1, <3>5, <3>6, <3>7 DEF IsCopied
    <3> QED BY <1>s, <2>3, <3>8 DEF IsPlaced
  <2> QED BY <2>1, <2>2, <2>4 DEF PagesHold
<1>5. CASE SkipHeader \/ ThreadCommand
  <2>1. /\ step = "segments" /\ step' = step /\ index' = index + 1 /\ UNCHANGED <<rel, base, pages, memory>>
        /\ ~IsLoad(index) /\ ~HasDynamic(index)
    BY <1>5 DEF SkipHeader, ThreadCommand, AtHeader, IsLoad, HasDynamic
  <2>2. \A n \in 1 .. index' - 1 : n \in 1 .. index - 1 \/ n = index
    BY <1>n, <2>1
  <2>3. \A n \in 1 .. index - 1 : n \in 1 .. index' - 1
    BY <1>n, <2>1
  <2>4. \A r \in Sites : IsPatched(r)' <=> IsPatched(r)
    BY <1>0, <2>1, <2>2, <2>3 DEF IsPatched
  <2> QED BY <1>0, <2>1, <2>4, SamePlaces DEF Loading
<1>6. CASE ReadDynamic /\ step' = "relocate"
  <2>1. /\ step = "segments" /\ UNCHANGED <<index, base, pages, memory>> /\ image.kind = "ELF"
        /\ HasDynamic(index) /\ index \in 1 .. Len(image.segments)
        /\ rel' = IF image.tableIn \in 1 .. index - 1 THEN 1 ELSE Len(image.relocs) + 1
    BY <1>n, <1>6 DEF ReadDynamic, AtHeader, HasDynamic
  <2>2. Sites # {} => rel' = 1
    <3> SUFFICES ASSUME Sites # {} PROVE image.tableIn \in 1 .. index - 1
      BY <2>1
    <3>1. image.tableIn \in 1 .. Len(image.segments) /\ IsLoad(image.tableIn)
      BY <1>0, <1>s, <2>1, FormFacts DEF HasTable
    <3>2. image.tableIn < index
      BY <1>0, <2>1, <3>1, FormFacts
    <3> QED BY <1>n, <3>1, <3>2
  <2>3. \A r \in Sites : IsPatched(r)' <=> IsPatched(r)
    <3> SUFFICES ASSUME NEW r \in Sites PROVE IsPatched(r)' <=> IsPatched(r)
      OBVIOUS
    <3>1. ~(r < rel') /\ step # "relocate"
      BY <1>s, <2>1, <2>2
    <3> QED BY <1>0, <2>1, <3>1 DEF IsPatched
  <2> QED BY <1>0, <1>6, <2>1, <2>3, SamePlaces DEF Loading
<1>7. CASE Relocate
  <2> DEFINE r == image.relocs[rel]
  <2>1. /\ step = "relocate" /\ step' = step /\ rel' = rel + 1 /\ rel \in 1 .. Len(image.relocs)
        /\ UNCHANGED <<index, base, pages>> /\ image.kind \in {"PE", "ELF"} /\ HasTable
        /\ \A w \in Word : memory'[w] = IF r.type = "relative" /\ w = base + r.offset
                                        THEN Patched(memory[w], r) ELSE memory[w]
    BY <1>0, <1>n, <1>7 DEF Relocate, FormatIsKnown, RelocationIsKnown
  <2>2. RoomCounted' = RoomCounted /\ base + RoomCounted <= NumPages * PageWords
    BY <2>1 DEF RoomCounted, PagesHold, Loading
  <2>3. \A cell, o : IsCopied(cell, o)' <=> IsCopied(cell, o)
    BY <1>0, <2>1, SameCopied
  <2>k. PICK k : k = rel
    OBVIOUS
  <2>4. /\ \A q \in Sites : q # rel => (IsPatched(q)' <=> IsPatched(q))
        /\ IsPatched(k)'
    <3>1. \A q \in Sites : q # rel => (q < rel' <=> q < rel)
      BY <1>n, <1>s, <2>1
    <3>2. rel < rel'
      BY <1>n, <2>1
    <3> QED BY <1>0, <2>1, <2>k, <3>1, <3>2 DEF IsPatched
  <2>5. rel \in Sites <=> r.type = "relative"
    BY <1>0, <2>1, HeaderFacts DEF Sites
  <2>6. ASSUME NEW o \in 0 .. RoomCounted - 1 PROVE IsPlaced(memory[base + o], o)'
    <3>1. base + o \in Word /\ o \in Nat /\ base \in Nat /\ memory[base + o] \in Cell
      BY <1>0, <2>2, PlaceFacts
    <3>2. IsPlaced(memory[base + o], o)
      BY <2>1 DEF PagesHold, Loading
    <3>3. r.offset \in Nat
      BY <1>0, <2>1, RelocationFacts
    <3>4. CASE rel \notin SitesAt(o)
      <4>1. memory'[base + o] = memory[base + o]
        <5>1. ~(r.type = "relative" /\ base + o = base + r.offset)
          BY <2>5, <3>1, <3>3, <3>4 DEF SitesAt
        <5> QED BY <2>1, <3>1, <5>1
      <4>2. \A q \in SitesAt(o) : q \in Sites /\ (IsPatched(q)' <=> IsPatched(q))
        BY <1>s, <2>4, <3>4
      <4> QED BY <1>0, <1>s, <2>1, <2>3, <3>2, <4>1, <4>2 DEF IsPlaced
    <3>5. CASE rel \in SitesAt(o)
      <4>1. r.type = "relative" /\ r.offset = o /\ rel \in Sites
        BY <2>5, <3>5 DEF SitesAt
      <4>2. memory'[base + o] = Patched(memory[base + o], r)
        BY <2>1, <3>1, <4>1
      <4>3. \A q \in SitesAt(o) : q = rel
        BY <1>0, <3>5, FormFacts DEF SitesAt
      <4>4. CASE image.kind = "ELF"
        <5>1. memory'[base + o] = [word |-> 0, shift |-> (base + r.addend) % WordSize]
          BY <4>2, <4>4 DEF Patched, Zero
        <5>2. IsPatched(k)' /\ k \in SitesAt(o)' /\ \A q \in SitesAt(o)' : q = k
          BY <1>s, <2>k, <2>4, <3>5, <4>3
        <5>3. image'.kind = "ELF" /\ memory'[base' + o] = [word |-> 0, shift |-> (base' + image'.relocs[k].addend) % WordSize]
          BY <1>0, <2>k, <2>1, <4>4, <5>1
        <5> QED BY <5>2, <5>3 DEF IsPlaced
      <4>5. CASE image.kind = "PE"
        <5>1. ~IsPatched(rel)
          BY <1>n, <4>5 DEF IsPatched
        <5>2. IsCopied(memory[base + o], o)
          BY <3>2, <4>3, <5>1 DEF IsPlaced
        <5>3. memory[base + o].shift = 0 /\ memory[base + o] = [word |-> memory[base + o].word, shift |-> 0]
          BY <5>2, CopiedWord
        <5>4. 0 + base - image.imageBase = base - image.imageBase
          BY <1>0, <3>1, ImageFacts, ImageAssumption DEF TypeOK, Address
        <5>5. memory'[base + o] = [word |-> memory[base + o].word, shift |-> (base - image.imageBase) % WordSize]
          BY <3>1, <4>2, <4>5, <5>3, <5>4 DEF Patched, Cell
        <5>6. /\ [word |-> memory'[base + o].word, shift |-> 0] = memory[base + o]
              /\ memory'[base + o].shift = (base - image.imageBase) % WordSize
          BY <5>3, <5>5
        <5>7. IsCopied([word |-> memory[base + o].word, shift |-> 0], o)'
          BY <1>0, <2>1, <2>3, <5>2, <5>6 DEF IsCopied, Covers, FromSegment, IsLoad
        <5>8. IsPatched(k)' /\ k \in SitesAt(o)' /\ \A q \in SitesAt(o)' : q = k
          BY <1>s, <2>k, <2>4, <3>5, <4>3
        <5>9. image'.kind = "PE" /\ memory'[base' + o].shift = (base' - image'.imageBase) % WordSize
          BY <1>0, <2>1, <4>5, <5>6
        <5> QED BY <5>7, <5>8, <5>9 DEF IsPlaced
      <4> QED BY <2>1, <4>4, <4>5
    <3> QED BY <3>4, <3>5
  <2> QED BY <2>1, <2>2, <2>6 DEF PagesHold
<1>8. ASSUME NEW freed \in BOOLEAN, FreeDynamic(freed) PROVE PagesHold'
  <2>1. /\ step = "relocate" /\ step' = "segments" /\ index' = index + 1 /\ UNCHANGED <<rel, base, pages, memory>>
        /\ image.kind = "ELF" /\ rel > Len(image.relocs)
    BY <1>8 DEF FreeDynamic
  <2>2. HasDynamic(index) /\ ~IsLoad(index)
    BY <2>1 DEF RelocationIsKnown, HasDynamic, IsLoad
  <2>3. index \in 1 .. index' - 1
    BY <1>n, <2>1
  <2>4. ASSUME NEW r \in Sites PROVE IsPatched(r) /\ IsPatched(r)'
    <3>1. r < rel
      BY <1>n, <1>s, <2>1
    <3> QED BY <1>0, <2>1, <2>2, <2>3, <3>1 DEF IsPatched
  <2> QED BY <1>0, <2>1, <2>2, <2>4, SamePlaces DEF Loading
<1>9. ASSUME NEW freed \in BOOLEAN, FreeTable(freed) PROVE PagesHold'
  <2>1. /\ step = "segments" /\ UNCHANGED <<index, rel, base, pages, memory>>
        /\ step' = IF NeedsRelocation THEN "relocate" ELSE "finish"
    BY <1>9 DEF FreeTable
  <2>2. \A r \in Sites : IsPatched(r)' <=> IsPatched(r)
    BY <1>0, <2>1 DEF IsPatched, NeedsRelocation
  <2> QED BY <1>0, <2>1, <2>2, SamePlaces DEF Loading
<1>10. CASE PeRelocated
  <2>1. /\ step = "relocate" /\ step' = "finish" /\ UNCHANGED <<index, rel, base, pages, memory>> /\ image.kind = "PE"
    BY <1>10 DEF PeRelocated
  <2>2. \A r \in Sites : IsPatched(r)' <=> IsPatched(r)
    BY <1>0, <2>1 DEF IsPatched
  <2> QED BY <1>0, <2>1, <2>2, SamePlaces DEF Loading
<1>11. CASE Finish
  <2>1. /\ step = "finish" /\ step' = "loaded" /\ UNCHANGED <<index, rel, base, pages, memory>>
    BY <1>11 DEF Finish
  <2>2. \A r \in Sites : IsPatched(r)' <=> IsPatched(r)
    BY <1>0, <2>1 DEF IsPatched
  <2> QED BY <1>0, <2>1, <2>2, SamePlaces DEF Loading
<1>12. CASE UNCHANGED vars
  <2>1. UNCHANGED <<step, index, rel, base, pages, memory>>
    BY <1>12 DEF vars
  <2>2. \A r \in Sites : IsPatched(r)' <=> IsPatched(r)
    BY <1>0, <2>1 DEF IsPatched
  <2>3. RoomCounted' = RoomCounted
    BY <2>1 DEF RoomCounted
  <2>4. CASE step \in Loading \ {"headers"}
    BY <1>0, <2>1, <2>2, <2>4, SamePlaces
  <2>5. CASE step \notin Loading \ {"headers"}
    BY <2>1, <2>3, <2>5 DEF PagesHold
  <2> QED BY <2>4, <2>5
<1>13. CASE \/ Identify \/ ReadTable \/ ScanHeader \/ CountPages \/ AllocatePagesFails \/ CopyDos
            \/ MainCommand \/ RefuseRelocation \/ ServiceFails \/ (ReadDynamic /\ step' # "relocate")
  <2>1. step' \notin Loading
    BY <1>13 DEF Identify, ReadTable, ScanHeader, CountPages, AllocatePagesFails, CopyDos, ReadDynamic,
       MainCommand, RefuseRelocation, ServiceFails, AtHeader, Return, Loading
  <2> QED BY <1>1, <2>1
<1> QED BY <1>2, <1>3, <1>4, <1>5, <1>6, <1>7, <1>8, <1>9, <1>10, <1>11, <1>12, <1>13 DEF Next

\* A well-formed file that is linked to begin at zero becomes, word for word, the
\* image its format describes, at whatever pages the search has found: however
\* its headers are ordered and whatever fails, no segment is copied over a word
\* that is relocated already, and none is relocated twice or not at all.
THEOREM ImagesAreExact ==
  ASSUME \A im \in Images : IsLinkedAtZero(im) /\ IsWellFormed(im)
  PROVE  Spec => []ImageIsExact
<1>1. Init => CopyInv /\ ContentsInv
  BY DEF Init, CopyInv, CopiesStayInside, Loading, ContentsInv, PagesHold, RelocationIsKnown, EntryIsKnown
<1>2. LoadInv /\ CopyInv /\ [Next]_vars => CopyInv'
  BY StepCopy DEF LoadInv
<1>3. LoadInv => IsWellFormed(image)
  BY DEF LoadInv, TypeOK
<1>4. LoadInv /\ CopyInv /\ ContentsInv /\ [Next]_vars => ContentsInv'
  BY <1>3, StepPagesHold, StepRelocation, StepEntry DEF ContentsInv
<1>5. LoadInv /\ CopyInv /\ ContentsInv => ImageIsExact
  BY <1>3, LoadedIsExact
<1> QED BY <1>1, <1>2, <1>4, <1>5, LoadIsSafe, PTL DEF Spec
=============================================================================
