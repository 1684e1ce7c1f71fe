----------------------------- MODULE ImageLoad -----------------------------
(***************************************************************************)
(* Loader.c, the middle of GoTime: read the kernel file's headers, count   *)
(* the pages it needs, copy its segments there and relocate it, for PE32+, *)
(* ELF and Mach-O files; 16-bit DOS files are loaded, too, and then        *)
(* refused.  KernelAlloc is the search for the pages in between.           *)
(*                                                                         *)
(* Memory and files are counted in 64-bit words, the unit relocations      *)
(* patch.  A word of memory is a word of the file plus what relocation has *)
(* added to it, so that where each came from can be told.                  *)
(***************************************************************************)
EXTENDS Integers, Sequences, Functions

CONSTANTS
  NumPages,        \* pages of memory
  PageWords,       \* EFI_PAGE_SIZE, in words
  WordSize,        \* 2^64
  Images,          \* the kernel files to load
  ServicesMayFail  \* may a firmware call fail?

Word == 0 .. NumPages * PageWords - 1
Address == 0 .. WordSize - 1

\* A program header, section header or load command; a PE32+ section's file
\* size is SizeOfRawData and its size in memory VirtualSize.
Segment ==
  [type : {"load", "dynamic", "thread", "main", "other"},
   vaddr : Address, filesz : Nat, memsz : Nat, fileoff : Nat]

\* "none" is padding, "relative" DIR64 or R_X86_64_RELATIVE.
Relocation == [type : {"none", "relative", "unknown"}, offset : Address, addend : Address]

Kinds == {"PE", "ELF", "MACHO", "DOS", "other"}

ASSUME ImageAssumption ==
  /\ NumPages \in Nat \ {0} /\ PageWords \in Nat \ {0}
  /\ WordSize \in Nat /\ NumPages * PageWords < WordSize
  /\ ServicesMayFail \in BOOLEAN
  /\ \A im \in Images :
       /\ im.kind \in Kinds
       /\ im.size \in Nat              \* of the file
       /\ im.headers \in Nat           \* SizeOfHeaders
       /\ im.segments \in Seq(Segment) \* of a DOS file: the load module
       /\ im.kind = "DOS" => Len(im.segments) = 1
       /\ im.kind # "MACHO" => \A s \in Range(im.segments) : s.type \notin {"thread", "main"}
       /\ im.commandsAgree \in BOOLEAN \* do the commands' sizes add up to sizeofcmds?
       /\ im.imageBase \in Address
       /\ im.relocs \in Seq(Relocation)
       /\ im.tableIn \in Nat           \* the segment the table of relocations is in; 0: none
       /\ im.tableComplete \in BOOLEAN \* DT_RELASZ and DT_RELAENT are there
       /\ im.entry \in Address

VARIABLES
  image,   \* the kernel file
  step,    \* where GoTime is
  index,   \* i: the header it is at
  rel,     \* the relocation it is at
  virtSize, virtMin,   \* as in the code: where the image ends and begins
  pages,   \* pages
  base,    \* AllocatedMemory
  held,    \* are the pages at base allocated?
  memory,  \* what memory holds
  pools,   \* pools allocated: the table of headers, PT_DYNAMIC's contents
  entry,   \* entrypointoffset, then Header_memory
  status   \* GoTimeStatus

extent == <<virtSize, virtMin>>
vars == <<image, step, index, rel, extent, pages, base, held, memory, pools, entry, status>>

\* The file's word o, with s added by relocation; Zero plus s is the number s.
FileWord(o) == [word |-> o + 1, shift |-> 0]
Zero == [word |-> 0, shift |-> 0]
Other == [word |-> -1, shift |-> 0]

Cell == [word : Nat \cup {-1}, shift : Address]
Statuses == {"SUCCESS", "INVALID_PARAMETER", "LOAD_ERROR", "DOS_EXECUTABLE", "OUT_OF_RESOURCES",
             "DEVICE_ERROR"}

TypeOK ==
  /\ image \in Images
  /\ step \in {"identify", "table", "scan", "allocate", "headers", "segments", "relocate",
               "finish", "loaded", "returned"}
  /\ index \in 1 .. Len(image.segments) + 1
  /\ rel \in 1 .. Len(image.relocs) + 1
  /\ virtSize \in Address /\ virtMin \in Address
  /\ pages \in Nat
  /\ base \in Word
  /\ held \in BOOLEAN
  /\ memory \in [Word -> Cell]
  /\ pools \subseteq {"table", "dynamic"}
  /\ entry \in Nat
  /\ status \in Statuses

Init ==
  /\ image \in Images
  /\ step = "identify"
  /\ index = 1 /\ rel = 1
  /\ virtSize = 0 /\ virtMin = WordSize - 1
  /\ pages = 0 /\ base = 0 /\ held = FALSE
  /\ memory = [w \in Word |-> Other]
  /\ pools = {}
  /\ entry = 0
  /\ status = "SUCCESS"

Return(error) == step' = "returned" /\ status' = error

-----------------------------------------------------------------------------
(* Headers.                                                                *)

PagesFor(size) == size \div PageWords + IF size % PageWords = 0 THEN 0 ELSE 1

\* (A name with Bug in it is a mutant of the definition after it: what the
\* code could have done wrong, for the runs to notice.)

\* The size in memory: of a PE32+ file from its base address on.
ImageSizeBugSigned == IF image.kind = "PE" THEN virtSize ELSE virtSize - virtMin
ImageSize == IF image.kind = "PE" THEN virtSize ELSE (virtSize - virtMin) % WordSize

\* Each format is tried in turn; none has pages or pools before its header is
\* accepted.
Identify ==
  /\ step = "identify"
  /\ IF image.kind = "other"
     THEN Return("INVALID_PARAMETER")
     ELSE step' = (IF image.kind = "DOS" THEN "allocate" ELSE "table") /\ UNCHANGED status
  /\ pages' = IF image.kind = "DOS" THEN PagesFor(image.segments[1].memsz) ELSE 0
  /\ UNCHANGED <<image, index, rel, extent, base, held, memory, pools, entry>>

ReadTable ==
  /\ step = "table"
  /\ pools' = pools \cup {"table"}
  /\ step' = "scan"
  /\ UNCHANGED <<image, index, rel, extent, pages, base, held, memory, entry, status>>

\* Go through the table to see from where to where it loads.
ScanHeader ==
  /\ step = "scan" /\ index <= Len(image.segments)
  /\ LET s == image.segments[index]
         end == (s.vaddr + s.memsz) % WordSize
         higher == s.type = "load" /\ end > virtSize
         lower == s.type = "load" /\ s.vaddr < virtMin
     IN  /\ virtSize' = IF higher THEN end ELSE virtSize
         /\ virtMin' = IF lower THEN s.vaddr ELSE virtMin
  /\ index' = index + 1
  /\ UNCHANGED <<image, step, rel, pages, base, held, memory, pools, entry, status>>

CountPagesBugAnySize ==
  /\ step = "scan" /\ index > Len(image.segments)
  /\ pages' = PagesFor(ImageSize) /\ step' = "allocate" /\ index' = 1
  /\ UNCHANGED <<image, rel, extent, base, held, memory, pools, entry, status>>

\* The sizes of a Mach-O file's commands must add up (current_spot).
CountPages ==
  /\ step = "scan" /\ index > Len(image.segments)
  /\ IF image.kind = "MACHO" /\ ~image.commandsAgree
     THEN Return("INVALID_PARAMETER") /\ UNCHANGED <<pages, index>>
     ELSE pages' = PagesFor(ImageSize) /\ step' = "allocate" /\ index' = 1 /\ UNCHANGED status
  /\ UNCHANGED <<image, rel, extent, base, held, memory, pools, entry>>

\* AllocatePages and ZeroMem, or the search.
AllocatePages(p) ==
  /\ step = "allocate"
  /\ pages > 0 /\ p + pages <= NumPages
  /\ base' = p * PageWords
  /\ held' = TRUE
  /\ memory' = [w \in Word |-> IF w \in base' .. base' + pages * PageWords - 1 THEN Zero
                               ELSE memory[w]]
  /\ step' = IF image.kind \in {"PE", "DOS"} THEN "headers" ELSE "segments"
  /\ UNCHANGED <<image, index, rel, extent, pages, pools, entry, status>>

AllocatePagesFails ==
  /\ step = "allocate"
  /\ Return("OUT_OF_RESOURCES")
  /\ UNCHANGED <<image, index, rel, extent, pages, base, held, memory, pools, entry>>

-----------------------------------------------------------------------------
(* Copying.                                                                *)

\* SetPosition(off) and Read of n words to dest; a file that ends before
\* fills less.
Read(off, n, dest) ==
  memory' = [w \in Word |-> IF w - dest \in 0 .. n - 1 /\ off + w - dest < image.size
                            THEN FileWord(off + w - dest)
                            ELSE memory[w]]

CopyHeaders ==
  /\ step = "headers" /\ image.kind = "PE"
  /\ Read(0, image.headers, base)
  /\ step' = "segments"
  /\ UNCHANGED <<image, index, rel, extent, pages, base, held, pools, entry, status>>

\* A DOS executable is loaded, told that it cannot run, and left there.
CopyDos ==
  /\ step = "headers" /\ image.kind = "DOS"
  /\ LET module == image.segments[1] IN Read(module.fileoff, module.filesz, base)
  /\ entry' = base + image.entry
  /\ Return("DOS_EXECUTABLE")
  /\ UNCHANGED <<image, index, rel, extent, pages, base, held, pools>>

AtHeader(types) ==
  /\ step = "segments"
  /\ index <= Len(image.segments)
  /\ image.segments[index].type \in types

CopySegmentBugMemSize ==
  /\ AtHeader({"load"})
  /\ LET s == image.segments[index] IN Read(s.fileoff, s.memsz, base + s.vaddr)
  /\ index' = index + 1
  /\ UNCHANGED <<image, step, rel, extent, pages, base, held, pools, entry, status>>

CopySegment ==
  /\ AtHeader({"load"})
  /\ LET s == image.segments[index] IN Read(s.fileoff, s.filesz, base + s.vaddr)
  /\ index' = index + 1
  /\ UNCHANGED <<image, step, rel, extent, pages, base, held, pools, entry, status>>

HasDynamic(n) ==
  image.kind = "ELF" /\ image.segments[n].type = "dynamic" /\ image.segments[n].filesz > 0

SkipHeader ==
  /\ AtHeader({"dynamic", "other"}) /\ ~HasDynamic(index)
  /\ index' = index + 1
  /\ UNCHANGED <<image, step, rel, extent, pages, base, held, memory, pools, entry, status>>

\* LC_UNIXTHREAD has the entry point; LC_MAIN ends it.  (FreePages of a range
\* AllocatePages has given does not fail.)
ThreadCommand ==
  /\ AtHeader({"thread"})
  /\ entry' = image.entry
  /\ index' = index + 1
  /\ UNCHANGED <<image, step, rel, extent, pages, base, held, memory, pools, status>>

MainCommandBugKept ==
  /\ AtHeader({"main"})
  /\ Return("INVALID_PARAMETER")
  /\ UNCHANGED <<image, index, rel, extent, pages, base, held, memory, pools, entry>>

MainCommand ==
  /\ AtHeader({"main"})
  /\ held' = FALSE
  /\ Return("INVALID_PARAMETER")
  /\ UNCHANGED <<image, index, rel, extent, pages, base, memory, pools, entry>>

-----------------------------------------------------------------------------
(* Relocating.  An ELF file is relocated when its PT_DYNAMIC header comes   *)
(* up, from the table as it is in memory by then; a PE32+ file when all its *)
(* sections are there.                                                      *)

ReadDynamic ==
  /\ AtHeader({"dynamic"}) /\ HasDynamic(index)
  /\ pools' = pools \cup {"dynamic"}
  /\ IF image.tableIn # 0 /\ ~image.tableComplete
     THEN Return("LOAD_ERROR")
     ELSE step' = "relocate" /\ UNCHANGED status
  /\ rel' = IF image.tableIn \in 1 .. index - 1 THEN 1 ELSE Len(image.relocs) + 1
  /\ UNCHANGED <<image, index, extent, pages, base, held, memory, entry>>

\* *(UINT64*)site += delta in a PE32+ file, = AllocatedMemory + r_addend in an
\* ELF file.
Patched(cell, r) ==
  IF image.kind = "PE"
  THEN [cell EXCEPT !.shift = (@ + base - image.imageBase) % WordSize]
  ELSE [Zero EXCEPT !.shift = (base + r.addend) % WordSize]

\* ELF relocations of other types are left out in silence (but for debug
\* builds); PE32+ ones are remembered as an error, and the rest is done.
Relocate ==
  /\ step = "relocate" /\ rel <= Len(image.relocs)
  /\ LET r == image.relocs[rel] IN
       /\ memory' = [w \in Word |-> IF r.type = "relative" /\ w = base + r.offset
                                    THEN Patched(memory[w], r) ELSE memory[w]]
       /\ status' = IF r.type = "unknown" /\ image.kind = "PE" THEN "INVALID_PARAMETER" ELSE status
  /\ rel' = rel + 1
  /\ UNCHANGED <<image, step, index, extent, pages, base, held, pools, entry>>

\* FreePool(Elf64_dynamic_array), and on with the next header.  A FreePool
\* that fails is only printed.
FreeDynamic(freed) ==
  /\ step = "relocate" /\ rel > Len(image.relocs) /\ image.kind = "ELF"
  /\ pools' = IF freed THEN pools \ {"dynamic"} ELSE pools
  /\ status' = IF freed THEN "SUCCESS" ELSE "INVALID_PARAMETER"
  /\ step' = "segments" /\ index' = index + 1
  /\ UNCHANGED <<image, rel, extent, pages, base, held, memory, entry>>

NeedsRelocation == image.kind = "PE" /\ base # image.imageBase /\ image.tableIn # 0

\* FreePool of the table of headers, after the last of them.
FreeTable(freed) ==
  /\ step = "segments" /\ index > Len(image.segments)
  /\ pools' = IF freed THEN pools \ {"table"} ELSE pools
  /\ status' = IF freed THEN "SUCCESS" ELSE "INVALID_PARAMETER"
  /\ step' = IF NeedsRelocation THEN "relocate" ELSE "finish"
  /\ UNCHANGED <<image, index, rel, extent, pages, base, held, memory, entry>>

PeRelocated ==
  /\ step = "relocate" /\ rel > Len(image.relocs) /\ image.kind = "PE"
  /\ step' = "finish"
  /\ UNCHANGED <<image, index, rel, extent, pages, base, held, memory, pools, entry, status>>

-----------------------------------------------------------------------------
(* The entry point.                                                        *)

\* "Relocation failed", whichever call the status is from.
RefuseRelocation ==
  /\ step = "finish" /\ image.kind = "PE" /\ status = "INVALID_PARAMETER"
  /\ held' = FALSE
  /\ Return("INVALID_PARAMETER")
  /\ UNCHANGED <<image, index, rel, extent, pages, base, memory, pools, entry>>

Finish ==
  /\ step = "finish" /\ (image.kind = "PE" => status # "INVALID_PARAMETER")
  /\ entry' = base + IF image.kind = "MACHO" THEN entry ELSE image.entry
  /\ step' = "loaded"
  /\ UNCHANGED <<image, index, rel, extent, pages, base, held, memory, pools, status>>

\* Reading the file or allocating a pool fails: the error is returned at once,
\* with pages and pools as they are; the pool to read into may be there already.
ServiceFails ==
  /\ ServicesMayFail
  /\ \/ step \in {"identify", "headers"} /\ UNCHANGED pools
     \/ step = "table" /\ pools' \in {pools, pools \cup {"table"}}
     \/ AtHeader({"load"}) /\ UNCHANGED pools
     \/ AtHeader({"dynamic"}) /\ HasDynamic(index) /\ pools' \in {pools, pools \cup {"dynamic"}}
  /\ Return("DEVICE_ERROR")
  /\ UNCHANGED <<image, index, rel, extent, pages, base, held, memory, entry>>

Next ==
  \/ Identify \/ ReadTable \/ ScanHeader \/ CountPages
  \/ \E p \in 0 .. NumPages - 1 : AllocatePages(p)
  \/ AllocatePagesFails
  \/ CopyHeaders \/ CopyDos \/ CopySegment \/ SkipHeader \/ ThreadCommand \/ MainCommand
  \/ ReadDynamic \/ Relocate \/ PeRelocated
  \/ \E freed \in BOOLEAN : (freed \/ ServicesMayFail) /\ (FreeDynamic(freed) \/ FreeTable(freed))
  \/ RefuseRelocation \/ Finish \/ ServiceFails

Spec == Init /\ [][Next]_vars

-----------------------------------------------------------------------------
(* What the kernel's image is, by the rules of its format, and what must   *)
(* become of it.                                                           *)

\* All sections of a PE32+ file are loaded.
Loads == {s \in Range(image.segments) : s.type = "load"}

\* The word of the file that belongs o words into the image.
FileImage(o) ==
  LET covering == {s \in Loads : o - s.vaddr \in 0 .. s.filesz - 1}
      s == CHOOSE s \in covering : TRUE
  IN  IF covering # {} THEN FileWord(s.fileoff + o - s.vaddr)
      ELSE IF image.kind = "PE" /\ o < image.headers THEN FileWord(o) ELSE Zero

\* Does the image have a table of relocations?  An ELF file's is found by way of
\* PT_DYNAMIC.
HasTable ==
  image.tableIn # 0 /\ (image.kind = "ELF" => \E n \in DOMAIN image.segments : HasDynamic(n))

Sites == {n \in DOMAIN image.relocs : HasTable /\ image.relocs[n].type = "relative"}

Relocated(o) ==
  LET sites == {n \in Sites : image.relocs[n].offset = o}
      addend == image.relocs[CHOOSE n \in sites : TRUE].addend
  IN  IF sites = {} THEN FileImage(o)
      ELSE IF image.kind = "ELF" THEN [word |-> 0, shift |-> (base + addend) % WordSize]
      ELSE [word |-> FileImage(o).word, shift |-> (base - image.imageBase) % WordSize]

HasType(type) == \E s \in Range(image.segments) : s.type = type
HasUnknown == \E r \in Range(image.relocs) : r.type = "unknown"

\* Images that cannot run where they are (an ELF file's unknown relocations are
\* not looked at).
IsBad ==
  \/ image.kind \in {"other", "DOS"}
  \/ image.kind = "PE" /\ HasTable /\ base # image.imageBase /\ HasUnknown
  \/ image.kind = "ELF" /\ HasTable /\ ~image.tableComplete
  \/ image.kind = "MACHO" /\ (~image.commandsAgree \/ HasType("main"))

\* The room in the pages counted for an image that ends at word end.
Room(end) == PagesFor(end) * PageWords

\* Files whose copies fit: linked to begin at zero, nowhere past the last
\* address, with no more in the file than the pages have room for, and with
\* headers and relocations inside.
IsLinkedAtZero(im) ==
  LET loads == {s \in Range(im.segments) : s.type = "load"} IN
  /\ \A s \in loads :
       /\ s.vaddr + s.memsz < WordSize
       /\ im.kind # "DOS" => s.vaddr + s.filesz <= Room(s.vaddr + s.memsz)
  /\ im.kind = "DOS" => im.segments[1].filesz <= Room(im.segments[1].memsz)
  /\ im.kind \in {"ELF", "MACHO"} => loads = {} \/ \E s \in loads : s.vaddr = 0
  /\ im.kind = "PE" => \E s \in loads : im.headers <= Room(s.vaddr + s.memsz)
  /\ \A r \in Range(im.relocs) :
       r.type = "relative" => \E s \in loads : r.offset < Room(s.vaddr + s.memsz)

\* Files that mean one image: what they load is all there, and where segments
\* share a word they agree on it; a site is relocated once; an ELF file's
\* segments, the table of relocations among them, come before its PT_DYNAMIC;
\* a Mach-O file says where it begins, and has no relocations.
IsWellFormed(im) ==
  LET header == DOMAIN im.segments
      segment(n) == im.segments[n]
      loads == {n \in header : segment(n).type = "load"}
      Covers(n, o) == o - segment(n).vaddr \in 0 .. segment(n).filesz - 1
  IN
  /\ im.kind = "PE" => im.headers <= im.size
  /\ \A n \in loads : segment(n).fileoff + segment(n).filesz <= im.size
  /\ \A n, m \in loads : \A o \in Word : Covers(n, o) /\ Covers(m, o) =>
       segment(n).fileoff - segment(n).vaddr = segment(m).fileoff - segment(m).vaddr
  /\ \A n, m \in DOMAIN im.relocs :
       /\ im.relocs[n].type = "relative" /\ im.relocs[m].type = "relative"
       /\ im.relocs[n].offset = im.relocs[m].offset
       => n = m
  /\ im.kind = "ELF" =>
       /\ \A n \in loads, m \in header : segment(m).type = "dynamic" /\ segment(m).filesz > 0 => n < m
       /\ im.tableIn # 0 => im.tableIn \in loads
  /\ im.kind = "MACHO" =>
       /\ im.tableIn = 0
       /\ \E n \in header : segment(n).type \in {"thread", "main"}

\* Loading writes nothing outside the pages that were counted and allocated for
\* the image: not its segments, not their relocation (1049, 1782, 1897,
\* 1152, 2455).
CopiesStayInside ==
  \A w \in Word : w \notin base .. base + pages * PageWords - 1 => memory[w] = Other

\* Nothing is ever written outside the image's pages, and a loaded image is,
\* word for word, what its format says: every segment at its place, zero between
\* and after what the file gives, every relocation done once and upon the final
\* contents, and the entry point in it.
ImageIsExact ==
  /\ CopiesStayInside
  /\ step = "loaded" =>
    /\ \A w \in base .. base + pages * PageWords - 1 : memory[w] = Relocated(w - base)
    /\ entry = base + image.entry

\* No image that cannot run is taken for loaded.
BadImageIsRefused == step = "loaded" => ~IsBad

\* An image is refused only for what it is: a good one comes to grief only when a
\* call fails.  (That FreePool's failure counts as a failed relocation is the
\* code's doing, 1068-1073 and 1193.)
RefusalHasReason ==
  step = "returned" /\ status \in {"INVALID_PARAMETER", "LOAD_ERROR", "DOS_EXECUTABLE"} =>
    IsBad \/ (image.kind = "PE" /\ "table" \in pools)

\* A file is refused for its contents if and only if it cannot run.
RefusedIfBad == BadImageIsRefused /\ RefusalHasReason

\* The pages stay with an image that is loaded and are given back, with an error,
\* when one is refused for its contents - but for an incomplete ELF table and DOS
\* files, which leave them behind (1193-1204, 2481-2491).
PagesFollowOutcome ==
  /\ step = "loaded" => held
  /\ step = "returned" => status # "SUCCESS" /\ (status = "INVALID_PARAMETER" => ~held)
=============================================================================
