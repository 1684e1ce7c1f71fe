--------------------------- MODULE MCKernelText ---------------------------
(* Small texts and paths.                                                  *)
EXTENDS KernelText

TwoLetters == {"x", "y"}

UpTo(S, n) == UNION {[1 .. m -> S] : m \in 0 .. n}

\* Every text of a mark and up to five units, and a few without the mark.
AllTexts ==
  {<<Bom>> \o t : t \in UpTo(TwoLetters \cup LineEnd \cup {Space}, 5)}
    \cup {<<>>, <<Swapped, "x", LF>>, <<"x", LF, "y">>}

\* A space or two before the path.
ErrantSpaces == {<<Bom, Space, "x", "y", LF>>, <<Bom, Space, Space, "x", LF>>}

SomeBootPaths ==
  {<<Backslash, "x", "x">>, <<Backslash, "x", Backslash, "y">>, <<"x", Backslash, "y">>,
   <<"x", "y">>}
OneBootPath == {<<Backslash, "x">>}
SomeKernels == {<<"x">>, <<"x", "y">>}
=============================================================================
