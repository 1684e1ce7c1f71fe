--------------------------- MODULE MCKernelAlloc ---------------------------
(* Small memories for the kernel's allocation.                             *)
EXTENDS KernelAlloc

\* Any map of conventional memory that has room for the kernel.
AnyFree == {f \in SUBSET Page : \E p \in Page : PagesFrom(p) \subseteq f}
AnyContents == [Page -> Content]
\* ZeroMem always works, or never: enough to send the search everywhere.
CleanDirtyOrOurs == [Page -> {"zero", "stuckJunk", "magic"}]
ZeroOrStuck == [Page -> {"zero", "stuckJunk"}]

\* What Piece->PhysicalStart may read once the map is freed: the start of a
\* page, the end of one, nothing, the remains of another pointer.
SomeReads == {0, 2, 5, NoAddr}
=============================================================================
