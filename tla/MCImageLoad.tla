---------------------------- MODULE MCImageLoad ----------------------------
(* Small kernel files.  A page has four words, the file alignment is two.  *)
EXTENDS ImageLoad

Load(vaddr, filesz, memsz, fileoff) ==
  [type |-> "load", vaddr |-> vaddr, filesz |-> filesz, memsz |-> memsz, fileoff |-> fileoff]
Header(type) == [type |-> type, vaddr |-> 0, filesz |-> 2, memsz |-> 2, fileoff |-> 0]
At(offset) == [type |-> "relative", offset |-> offset, addend |-> 3]
Padding == [type |-> "none", offset |-> 0, addend |-> 0]
Unknown == [type |-> "unknown", offset |-> 4, addend |-> 0]

File(kind, segments) ==
  [kind |-> kind, size |-> 16, headers |-> 2, segments |-> segments, commandsAgree |-> TRUE,
   imageBase |-> 4, relocs |-> <<>>, tableIn |-> 0, tableComplete |-> TRUE, entry |-> 5]

\* Sections start on pages and have whole blocks of the file.
PEFiles ==
  {[File("PE", <<Load(4, raw1, size1, 2), Load(8, raw2, size2, 2 + raw1)>>) EXCEPT
      !.relocs = relocs, !.tableIn = table, !.imageBase = imageBase] :
   raw1 \in {2, 4}, size1 \in {1, 4}, raw2 \in {0, 2}, size2 \in {2, 3, 7},
   relocs \in {<<>>, <<At(4)>>, <<At(5), Padding, At(8), At(4)>>, <<At(4), Unknown, At(8)>>,
               <<Unknown>>},
   table \in {0, 2}, imageBase \in {0, 4, 24}}

\* The first segment is at zero and the second anywhere after it; their order in
\* the table is free, PT_DYNAMIC is last.
ELFFiles ==
  {[File("ELF", IF swapped THEN <<second, first, Header("other"), last>>
                ELSE <<first, Header("other"), second, last>>) EXCEPT
      !.relocs = relocs, !.tableIn = table, !.tableComplete = complete] :
   first \in {Load(0, 2, 3, 1)}, swapped \in BOOLEAN,
   second \in {Load(3, 3, 3, 4), Load(4, 1, 4, 3), Load(6, 2, 7, 3), Load(5, 0, 2, 3)},
   last \in {Header("dynamic"), [Header("dynamic") EXCEPT !.filesz = 0], Header("other")},
   relocs \in {<<>>, <<At(0), At(4), At(7)>>, <<At(5), Padding>>}, table \in {0, 1},
   complete \in BOOLEAN}

\* Nothing to load at all.
EmptyELF == File("ELF", <<Header("other")>>)

MachFiles ==
  {[File("MACHO", <<Load(0, 2, 4, 1), second, third, Header("other")>>) EXCEPT
      !.commandsAgree = agree] :
   second \in {Load(4, 2, 4, 3), Load(5, 3, 4, 3), Load(4, 3, 9, 4)},
   third \in {Header("thread"), Header("main")}, agree \in BOOLEAN}

DosFile == File("DOS", <<Load(0, 6, 6, 2)>>)
OtherFile == File("other", <<>>)

LinkedFiles == PEFiles \cup ELFFiles \cup MachFiles \cup {EmptyELF, DosFile, OtherFile}

\* For these files ImageLoadProofs has its theorems.
ASSUME LinkedFilesFit == \A im \in LinkedFiles : IsLinkedAtZero(im) /\ IsWellFormed(im)

\* An image linked for an address of its own.
BasedFiles == {[File("ELF", <<Load(4, 4, 4, 0), Load(8, 2, 2, 4)>>) EXCEPT !.entry = 4]}
=============================================================================
