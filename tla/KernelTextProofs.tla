------------------------- MODULE KernelTextProofs -------------------------
(* Kernel64.txt, whatever it holds, is found, split and given back in      *)
(* order: the two counting loops and the two copying ones agree.           *)
EXTENDS KernelText, FiniteSetTheorems, WellFoundedInduction, TLAPS

\* A set of naturals has a least element.
LEMMA LeastIsInSet ==
  ASSUME NEW S \in SUBSET Nat, S # {}
  PROVE  Min(S) \in S /\ \A y \in S : Min(S) <= y
<1> DEFINE R == OpToRel(<, Nat)
<1>1. IsWellFoundedOn(R, Nat)
  BY NatLessThanWellFounded
<1> HIDE DEF R
<1>2. \E x \in S : \A y \in S : ~(<<y, x>> \in R)
  BY <1>1, WFMin
<1>3. PICK x \in S : \A y \in S : ~(<<y, x>> \in R)
  BY <1>2
<1>4. \A y \in S : x <= y
  <2> TAKE y \in S
  <2>1. <<y, x>> \notin R /\ x \in Nat /\ y \in Nat
    BY <1>3
  <2>2. ~(y < x)
    BY <2>1 DEF R, OpToRel
  <2> QED BY <2>1, <2>2
<1> QED BY <1>3, <1>4 DEF Min

\* An element that is below all others is the least, one above them the greatest.
LEMMA LeastIs ==
  ASSUME NEW S \in SUBSET Nat, NEW x \in S, \A y \in S : x <= y
  PROVE  Min(S) = x
<1>1. \A z \in S : (\A y \in S : z <= y) => z = x
  BY SMT
<1> QED BY <1>1 DEF Min

LEMMA GreatestIs ==
  ASSUME NEW S \in SUBSET Nat, NEW x \in S, \A y \in S : x >= y
  PROVE  Max(S) = x
<1>1. \A z \in S : (\A y \in S : z >= y) => z = x
  BY SMT
<1> QED BY <1>1 DEF Max

LEMMA GreatestOf ==
  ASSUME NEW n \in Nat, NEW S \in SUBSET (1 .. n), S # {}
  PROVE  Max(S) \in 1 .. n
<1> DEFINE D == {n - i : i \in S}
<1>1. D \in SUBSET Nat /\ D # {}
  <2>1. \A i \in S : n - i \in Nat
    OBVIOUS
  <2> QED BY <2>1
<1>2. Min(D) \in D /\ \A d \in D : Min(D) <= d
  BY <1>1, LeastIsInSet
<1>3. PICK x \in S : Min(D) = n - x
  BY <1>2
<1>4. \A y \in S : x >= y
  <2> TAKE y \in S
  <2>1. n - y \in D
    OBVIOUS
  <2>2. n - x <= n - y
    BY <1>2, <1>3, <2>1
  <2> QED BY <2>2
<1>5. S \in SUBSET Nat
  OBVIOUS
<1>6. Max(S) = x
  BY <1>4, <1>5, GreatestIs
<1> QED BY <1>6

LEMMA GreaterOfTwo ==
  ASSUME NEW a \in Nat, NEW b \in Nat
  PROVE  Max({a, b}) = IF a >= b THEN a ELSE b
<1>1. CASE a >= b
  BY <1>1, GreatestIs
<1>2. CASE ~(a >= b)
  BY <1>2, GreatestIs
<1> QED BY <1>1, <1>2

\* A counting loop stops at a line end, the first one, or after the last unit.
LEMMA StopIsFirstEnd ==
  ASSUME NEW t \in Seq(Unit), NEW from \in Nat
  PROVE  /\ Stop(t, from) \in Nat /\ Stop(t, from) >= from
         /\ from < Len(t) => Stop(t, from) <= Len(t)
         /\ from >= Len(t) => Stop(t, from) = from
         /\ Stop(t, from) < Len(t) => t[Stop(t, from) + 1] \in LineEnd
         /\ Ends(t, from) # {} => Stop(t, from) < Len(t)
         /\ \A i \in from .. Stop(t, from) - 1 : i < Len(t) /\ t[i + 1] \notin LineEnd
<1>1. Len(t) \in Nat /\ Ends(t, from) \in SUBSET Nat
  BY DEF Ends
<1>2. CASE Ends(t, from) # {}
  <2>1. Stop(t, from) \in Ends(t, from) /\ \A y \in Ends(t, from) : Stop(t, from) <= y
    BY <1>1, <1>2, LeastIsInSet DEF Stop
  <2> DEFINE s == Stop(t, from)
  <2>2. s \in from .. Len(t) - 1 /\ t[s + 1] \in LineEnd
    BY <2>1 DEF Ends
  <2>3. \A i \in from .. s - 1 : i < Len(t) /\ t[i + 1] \notin LineEnd
    BY <2>1, <2>2, <1>1 DEF Ends
  <2> HIDE DEF s
  <2>4. s \in Nat /\ s >= from /\ s < Len(t) /\ from < Len(t)
    BY <2>2, <1>1
  <2>5. s <= Len(t) /\ ~(from >= Len(t))
    BY <2>4, <1>1
  <2> QED BY <2>2, <2>3, <2>4, <2>5 DEF s
<1>3. CASE Ends(t, from) = {}
  <2>1. Stop(t, from) = IF from >= Len(t) THEN from ELSE Len(t)
    BY <1>1, <1>3, GreaterOfTwo DEF Stop
  <2>2. \A i \in from .. Len(t) - 1 : t[i + 1] \notin LineEnd
    BY <1>3 DEF Ends
  <2> QED BY <1>1, <1>3, <2>1, <2>2
<1> QED BY <1>2, <1>3

\* The second line starts after the first, or at the beginning.
LEMMA FirstLineIsInText ==
  ASSUME NEW t \in Seq(Unit)
  PROVE  FirstLineLength(t) \in Nat
BY StopIsFirstEnd DEF FirstLineLength

\* The path's units are a finite number, all of them in the text.
LEMMA PathUnitsAreInText ==
  ASSUME NEW t \in Seq(Unit)
  PROVE  /\ Cardinality(PathUnits(t)) \in Nat
         /\ \A i \in PathUnits(t) : i \in Nat /\ t[i + 1] \in Unit
<1>1. Stop(t, 1) \in Nat /\ \A i \in 1 .. Stop(t, 1) - 1 : i < Len(t)
  BY StopIsFirstEnd
<1>2. IsFiniteSet(1 .. Stop(t, 1) - 1)
  BY <1>1, FS_Interval
<1>3. IsFiniteSet(PathUnits(t))
  BY <1>2, FS_Subset DEF PathUnits
<1>4. \A i \in PathUnits(t) : i \in Nat /\ i + 1 \in 1 .. Len(t)
  BY <1>1 DEF PathUnits
<1> QED BY <1>3, <1>4, FS_CardinalityType

LEMMA PathIsUnits ==
  ASSUME NEW t \in Seq(Unit), NEW n \in Nat
  PROVE  Path(t, n) \in Seq(Unit \cup {Nul, Garbage})
<1>1. \A k \in 1 .. n + 1 : k \in Copied(t, FirstLineLength(t)) => t[k + 1] \in Unit
  BY PathUnitsAreInText DEF Copied
<1> DEFINE P == Path(t, n)
<1>2. P \in [1 .. n + 1 -> Unit \cup {Nul, Garbage}]
  BY <1>1 DEF Path
<1> HIDE DEF P
<1>3. n + 1 \in Nat
  OBVIOUS
<1>4. P \in Seq(Unit \cup {Nul, Garbage})
  BY <1>2, <1>3
<1> QED BY <1>4 DEF P

\* The counted command line is in the text.
LEMMA CmdlineIsUnits ==
  ASSUME NEW t \in Seq(Unit), NEW from \in Nat
  PROVE  /\ Stop(t, from) - from \in Nat
         /\ [k \in 1 .. Stop(t, from) - from |-> t[from + k]] \in Seq(Unit)
<1> DEFINE n == Stop(t, from) - from
<1>1. n \in Nat /\ \A k \in 1 .. n : from + k \in 1 .. Len(t)
  <2>1. /\ Len(t) \in Nat /\ Stop(t, from) \in Nat /\ Stop(t, from) >= from
        /\ from < Len(t) => Stop(t, from) <= Len(t)
        /\ from >= Len(t) => Stop(t, from) = from
    BY StopIsFirstEnd
  <2>2. \A k \in 1 .. Stop(t, from) - from : from + k \in 1 .. Len(t)
    BY <2>1
  <2> QED BY <2>1, <2>2
<1> HIDE DEF n
<1>2. \A k \in 1 .. n : t[from + k] \in Unit
  <2>1. \A j \in 1 .. Len(t) : t[j] \in Unit
    OBVIOUS
  <2> QED BY <1>1, <2>1
<1>3. [k \in 1 .. n |-> t[from + k]] \in [1 .. n -> Unit]
  BY <1>2
<1>4. [k \in 1 .. n |-> t[from + k]] \in Seq(Unit)
  BY <1>1, <1>3
<1> QED BY <1>1, <1>4 DEF n

\* What a text in the documented format is measured to be.
LEMMA FormatIsMeasured ==
  ASSUME KernelTextAssumption, NEW t \in Seq(Unit), NEW end \in 2 .. Len(t), NEW n \in 0 .. end - 2,
         EndsPath(t, n, end)
  PROVE  /\ FirstLineLength(t) = end
         /\ PathUnits(t) = 1 .. n
<1>1. Len(t) \in Nat /\ end \in Nat /\ n \in Nat /\ Ends(t, 1) \in SUBSET Nat
  BY DEF Ends
<1>2. LF \notin Letters /\ CR \notin Letters /\ Space \notin Letters
  BY DEF KernelTextAssumption
<1>3. \A i \in 1 .. n : t[i + 1] \in Letters
  <2> TAKE i \in 1 .. n
  <2> QED BY <1>1 DEF EndsPath
<1>4. \A i \in n + 1 .. end - 2 : t[i + 1] = Space \/ (t[i + 1] = CR /\ i = end - 2)
  <2> TAKE i \in n + 1 .. end - 2
  <2>1. i + 1 \in n + 2 .. end - 1
    BY <1>1
  <2>2. t[i + 1] = Space \/ (t[i + 1] = CR /\ i + 1 = end - 1)
    BY <2>1 DEF EndsPath
  <2> QED BY <1>1, <2>2
<1>5. t[end] = LF /\ end - 1 \in 1 .. Len(t) - 1 /\ (end - 1) + 1 = end
  BY <1>1 DEF EndsPath
<1>6. Space # LF /\ Space # CR /\ LF # CR
  BY DEF Space, LF, CR
<1>7. CASE end - 2 >= n + 1 /\ t[end - 1] = CR
  <2>1. (end - 2) + 1 = end - 1 /\ end - 2 \in 1 .. Len(t) - 1 /\ end - 2 \in n + 1 .. end - 2
    BY <1>1, <1>7
  <2>2. end - 2 \in Ends(t, 1)
    BY <1>7, <2>1 DEF Ends, LineEnd
  <2>3. \A y \in Ends(t, 1) : end - 2 <= y
    <3> SUFFICES ASSUME NEW y \in Ends(t, 1), y < end - 2 PROVE FALSE
      BY <1>1, <2>1
    <3>1. y \in 1 .. Len(t) - 1 /\ t[y + 1] \in {LF, CR}
      BY DEF Ends, LineEnd
    <3>2. y \in 1 .. n \/ (y \in n + 1 .. end - 2 /\ y # end - 2)
      BY <1>1, <3>1
    <3> QED BY <1>2, <1>3, <1>4, <1>6, <3>1, <3>2
  <2>4. Stop(t, 1) = end - 2
    BY <1>1, <2>2, <2>3, LeastIs DEF Stop
  <2>5. FirstLineLength(t) = end
    BY <1>1, <1>6, <1>7, <2>1, <2>2, <2>4 DEF FirstLineLength
  <2>6. \A i \in 1 .. end - 3 : t[i + 1] # Space <=> i <= n
    <3> TAKE i \in 1 .. end - 3
    <3>1. i \in 1 .. n \/ (i \in n + 1 .. end - 2 /\ i # end - 2)
      BY <1>1
    <3> QED BY <1>1, <1>2, <1>3, <1>4, <3>1
  <2>7. PathUnits(t) = 1 .. n
    BY <1>1, <1>7, <2>4, <2>6 DEF PathUnits
  <2> QED BY <2>5, <2>7
<1>8. CASE ~(end - 2 >= n + 1 /\ t[end - 1] = CR)
  <2>1. end - 1 \in Ends(t, 1)
    BY <1>5 DEF Ends, LineEnd
  <2>2. \A i \in n + 1 .. end - 2 : t[i + 1] = Space
    <3> TAKE i \in n + 1 .. end - 2
    <3>1. CASE i = end - 2
      <4>1. i + 1 = end - 1 /\ end - 2 >= n + 1
        BY <1>1, <3>1
      <4> QED BY <1>4, <1>8, <4>1
    <3>2. CASE i # end - 2
      BY <1>4, <3>2
    <3> QED BY <3>1, <3>2
  <2>3. \A y \in Ends(t, 1) : end - 1 <= y
    <3> SUFFICES ASSUME NEW y \in Ends(t, 1), y < end - 1 PROVE FALSE
      BY <1>1
    <3>1. y \in 1 .. Len(t) - 1 /\ t[y + 1] \in {LF, CR}
      BY DEF Ends, LineEnd
    <3>2. y \in 1 .. n \/ y \in n + 1 .. end - 2
      BY <1>1, <3>1
    <3> QED BY <1>2, <1>3, <1>6, <2>2, <3>1, <3>2
  <2>4. Stop(t, 1) = end - 1
    BY <1>1, <1>5, <2>1, <2>3, LeastIs DEF Stop
  <2>5. FirstLineLength(t) = end
    BY <1>1, <1>5, <2>1, <2>4 DEF FirstLineLength
  <2>6. \A i \in 1 .. end - 2 : t[i + 1] # Space <=> i <= n
    <3> TAKE i \in 1 .. end - 2
    <3>1. i \in 1 .. n \/ i \in n + 1 .. end - 2
      BY <1>1
    <3> QED BY <1>1, <1>2, <1>3, <2>2, <3>1
  <2>7. PathUnits(t) = 1 .. n
    BY <1>1, <2>4, <2>6 DEF PathUnits
  <2> QED BY <2>5, <2>7
<1> QED BY <1>7, <1>8

\* Such a path is copied whole, within its pool.
LEMMA FormatIsCopied ==
  ASSUME KernelTextAssumption, NEW t \in Seq(Unit), NEW end \in 2 .. Len(t), NEW n \in 0 .. end - 2,
         EndsPath(t, n, end)
  PROVE  /\ Cardinality(PathUnits(t)) = n
         /\ Path(t, n) = Append(SubSeq(t, 2, n + 1), Nul)
         /\ \A i \in Copied(t, FirstLineLength(t)) : i <= n + 1
<1>1. FirstLineLength(t) = end /\ PathUnits(t) = 1 .. n /\ n \in Nat /\ Len(t) \in Nat
  BY FormatIsMeasured
<1>2. Cardinality(PathUnits(t)) = n
  BY <1>1, FS_Interval
<1>3. Copied(t, FirstLineLength(t)) = 1 .. n
  BY <1>1 DEF Copied
<1>4. Path(t, n) = [k \in 1 .. n + 1 |-> IF k = n + 1 THEN Nul ELSE t[k + 1]]
  <2>1. \A k \in 1 .. n + 1 : k # n + 1 => k \in 1 .. n
    BY <1>1
  <2> QED BY <1>3, <2>1 DEF Path
<1>5. SubSeq(t, 2, n + 1) = [k \in 1 .. n |-> t[k + 1]]
  BY <1>1
<1>6. Append(SubSeq(t, 2, n + 1), Nul) = [k \in 1 .. n + 1 |-> IF k = n + 1 THEN Nul ELSE t[k + 1]]
  BY <1>1, <1>5
<1> QED BY <1>1, <1>2, <1>3, <1>4, <1>6

\* The command line copied is the second line.
LEMMA CmdlineIsALine ==
  ASSUME NEW t \in Seq(Unit), NEW from \in 1 .. Len(t)
  PROVE  IsLine(t, from + 1, [k \in 1 .. Stop(t, from) - from |-> t[from + k]])
<1> DEFINE s == Stop(t, from)
           line == [k \in 1 .. s - from |-> t[from + k]]
<1>1. from \in Nat /\ Len(t) \in Nat /\ s \in Nat /\ s >= from /\ s <= Len(t)
  <2>1. from \in Nat /\ Len(t) \in Nat /\ from <= Len(t)
    OBVIOUS
  <2>2. /\ Stop(t, from) \in Nat /\ Stop(t, from) >= from
        /\ from < Len(t) => Stop(t, from) <= Len(t)
        /\ from >= Len(t) => Stop(t, from) = from
    BY <2>1, StopIsFirstEnd
  <2> QED BY <2>1, <2>2
<1>2. /\ s < Len(t) => t[s + 1] \in LineEnd
      /\ \A i \in from .. s - 1 : t[i + 1] \notin LineEnd
  BY <1>1, StopIsFirstEnd
<1> HIDE DEF s
<1>3. Len(line) = s - from
  BY <1>1
<1>4. \A k \in 1 .. s - from : line[k] = t[from + 1 + k - 1] /\ line[k] \notin LineEnd
  <2> TAKE k \in 1 .. s - from
  <2>1. from + k - 1 \in from .. s - 1 /\ (from + k - 1) + 1 = from + k /\ from + 1 + k - 1 = from + k
    BY <1>1
  <2> QED BY <1>2, <2>1
<1>5. from + 1 + Len(line) - 1 = s /\ from + 1 + Len(line) = s + 1
  BY <1>1, <1>3
<1> HIDE DEF line
<1>6. IsLine(t, from + 1, line)
  BY <1>1, <1>2, <1>3, <1>4, <1>5 DEF IsLine
<1> QED BY <1>6 DEF s, line

-----------------------------------------------------------------------------
(* The invariant.                                                          *)

LEMMA InitText == Init => TextInv
<1> SUFFICES ASSUME Init PROVE TextInv
  OBVIOUS
<1> USE DEF Init
<1>1. <<>> \in Seq(PathUnit) /\ <<>> \in Seq(Unit) /\ <<>> \in Seq(Unit \cup {Nul, Garbage})
  OBVIOUS
<1>2. TypeOK
  <2>1. step \in Steps
    BY DEF Steps
  <2> QED BY <1>1, <2>1 DEF TypeOK
<1> QED BY <1>2 DEF TextInv, PoolIsKnown, PoolIsReturned, OnlyTheMarkIsSilent, TxtIsBesideLoader,
                    LinesAreMeasured, LinesAreCopied, Split

\* The last \ of a path, if there is one, is where its prefix ends.
LEMMA PrefixIsFolder ==
  ASSUME NEW path \in Seq(PathUnit), NEW k \in 1 .. Len(path), path[k] = Backslash,
         \A l \in k + 1 .. Len(path) : path[l] # Backslash
  PROVE  PrefixLength(path) = k
<1> DEFINE slashes == {i \in 1 .. Len(path) : path[i] = Backslash}
<1>1. k \in slashes /\ slashes \in SUBSET Nat
  OBVIOUS
<1>2. \A i \in slashes : k >= i
  <2> SUFFICES ASSUME NEW i \in 1 .. Len(path), path[i] = Backslash, i > k PROVE FALSE
    OBVIOUS
  <2> QED OBVIOUS
<1> HIDE DEF slashes
<1>3. Max(slashes) = k /\ slashes # {}
  BY <1>1, <1>2, GreatestIs
<1> QED BY <1>3 DEF PrefixLength, slashes

\* Any prefix of a boot path with the name after it is a path.
LEMMA TxtPathIsPath ==
  ASSUME KernelTextAssumption, NEW path \in BootPaths
  PROVE  Append(SubSeq(path, 1, PrefixLength(path)), TxtFileName) \in Seq(PathUnit)
<1>1. path \in Seq(PathUnit) /\ Len(path) \in Nat /\ Len(path) >= 1 /\ TxtFileName \in PathUnit
  BY DEF KernelTextAssumption, PathUnit
<1> DEFINE slashes == {i \in 1 .. Len(path) : path[i] = Backslash}
<1>2. PrefixLength(path) \in 1 .. Len(path)
  <2>1. CASE slashes = {}
    BY <1>1, <2>1 DEF PrefixLength
  <2>2. CASE slashes # {}
    <3>1. slashes \subseteq 1 .. Len(path)
      OBVIOUS
    <3> QED BY <1>1, <2>2, <3>1, GreatestOf DEF PrefixLength
  <2> QED BY <2>1, <2>2
<1> QED BY <1>1, <1>2

\* Steps that change none of the text, the lines and the paths.
LEMMA SameText ==
  ASSUME TextInv, step' \in Steps, status' \in {"success", "error"}, pool' \subseteq Pools,
         UNCHANGED <<bootPath, txtPath, text, lengths, copies>>
  PROVE  TypeOK'
BY DEF TextInv, TypeOK, lengths, copies

LEMMA SameLines ==
  ASSUME TextInv, UNCHANGED <<text, lengths, copies>>,
         Split' => Split, step' \in {"allocate", "copy"} => step \in {"allocate", "copy"}
  PROVE  LinesAreMeasured' /\ LinesAreCopied'
BY DEF TextInv, lengths, copies, Split, LinesAreMeasured, LinesAreCopied

LEMMA AllocatedIsPools == \A s \in Steps : \A a \in AllocatedBefore(s) : a \subseteq Pools
BY Zenon DEF AllocatedBefore, Steps, Pools, TxtPools, HandedPools

LEMMA StepText == KernelTextAssumption /\ TextInv /\ [Next]_vars => TextInv'
<1> SUFFICES ASSUME KernelTextAssumption, TextInv, [Next]_vars PROVE TextInv'
  OBVIOUS
<1> DEFINE Rest == PoolIsKnown' /\ PoolIsReturned' /\ OnlyTheMarkIsSilent' /\ TxtIsBesideLoader'
                   /\ (step' = "bom" => status' = "success")
<1> USE DEF Steps, Pools, TxtPools, HandedPools
<1>0. /\ step \in Steps /\ status \in {"success", "error"} /\ pool \subseteq Pools
      /\ PoolIsKnown /\ PoolIsReturned /\ OnlyTheMarkIsSilent /\ TxtIsBesideLoader
      /\ step = "bom" => status = "success"
  BY DEF TextInv, TypeOK
<1>1. CASE OpenImage
  <2>1. TypeOK'
    BY <1>1, <1>0, SameText DEF OpenImage
  <2>2. LinesAreMeasured' /\ LinesAreCopied'
    BY <1>1, SameLines DEF OpenImage, Split
  <2>3. Rest
    BY <1>1, <1>0 DEF OpenImage, Split, PoolIsKnown, PoolIsReturned, OnlyTheMarkIsSilent, TxtIsBesideLoader
  <2> QED BY <2>1, <2>2, <2>3 DEF TextInv
<1>2. CASE CopyRoot
  <2>1. TypeOK'
    BY <1>2, <1>0, SameText DEF CopyRoot
  <2>2. LinesAreMeasured' /\ LinesAreCopied'
    BY <1>2, SameLines DEF CopyRoot, Split
  <2>3. Rest
    BY <1>2, <1>0 DEF CopyRoot, Split, PoolIsKnown, PoolIsReturned, OnlyTheMarkIsSilent, TxtIsBesideLoader
  <2> QED BY <2>1, <2>2, <2>3 DEF TextInv
<1>3. CASE OpenVolume
  <2>1. TypeOK'
    BY <1>3, <1>0, SameText DEF OpenVolume
  <2>2. LinesAreMeasured' /\ LinesAreCopied'
    BY <1>3, SameLines DEF OpenVolume, Split
  <2>3. Rest
    BY <1>3, <1>0 DEF OpenVolume, Split, PoolIsKnown, PoolIsReturned, OnlyTheMarkIsSilent, TxtIsBesideLoader
  <2> QED BY <2>1, <2>2, <2>3 DEF TextInv
<1>4. CASE OpenTxt
  <2>1. TypeOK'
    BY <1>4, <1>0, SameText DEF OpenTxt
  <2>2. LinesAreMeasured' /\ LinesAreCopied'
    BY <1>4, SameLines DEF OpenTxt, Split
  <2>3. Rest
    BY <1>4, <1>0 DEF OpenTxt, Split, PoolIsKnown, PoolIsReturned, OnlyTheMarkIsSilent, TxtIsBesideLoader
  <2> QED BY <2>1, <2>2, <2>3 DEF TextInv
<1>5. CASE GetTxtInfo
  <2>1. TypeOK'
    BY <1>5, <1>0, SameText DEF GetTxtInfo
  <2>2. LinesAreMeasured' /\ LinesAreCopied'
    BY <1>5, SameLines DEF GetTxtInfo, Split
  <2>3. Rest
    BY <1>5, <1>0 DEF GetTxtInfo, Split, PoolIsKnown, PoolIsReturned, OnlyTheMarkIsSilent, TxtIsBesideLoader
  <2> QED BY <2>1, <2>2, <2>3 DEF TextInv
<1>6. CASE AllocateLines
  <2>1. TypeOK'
    BY <1>6, <1>0, SameText DEF AllocateLines
  <2>2. LinesAreMeasured' /\ LinesAreCopied'
    BY <1>6, SameLines DEF AllocateLines, Split
  <2>3. Rest
    BY <1>6, <1>0 DEF AllocateLines, Split, PoolIsKnown, PoolIsReturned, OnlyTheMarkIsSilent, TxtIsBesideLoader
  <2> QED BY <2>1, <2>2, <2>3 DEF TextInv
<1>7. CASE FreeTxt
  <2>1. TypeOK'
    BY <1>7, <1>0, SameText DEF FreeTxt
  <2>2. LinesAreMeasured' /\ LinesAreCopied'
    BY <1>7, SameLines DEF FreeTxt, Split
  <2>3. Rest
    BY <1>7, <1>0 DEF FreeTxt, Split, PoolIsKnown, PoolIsReturned, OnlyTheMarkIsSilent, TxtIsBesideLoader
  <2> QED BY <2>1, <2>2, <2>3 DEF TextInv
<1>8. CASE OpenKernel
  <2>1. TypeOK'
    BY <1>8, <1>0, SameText DEF OpenKernel
  <2>2. LinesAreMeasured' /\ LinesAreCopied'
    BY <1>8, SameLines DEF OpenKernel, Split
  <2>3. Rest
    BY <1>8, <1>0 DEF OpenKernel, Split, PoolIsKnown, PoolIsReturned, OnlyTheMarkIsSilent, TxtIsBesideLoader
  <2> QED BY <2>1, <2>2, <2>3 DEF TextInv
<1>9. CASE KernelMissing
  <2>1. TypeOK'
    BY <1>9, <1>0, SameText DEF KernelMissing
  <2>2. LinesAreMeasured' /\ LinesAreCopied'
    BY <1>9, SameLines DEF KernelMissing, Split
  <2>3. Rest
    BY <1>9, <1>0 DEF KernelMissing, Split, PoolIsKnown, PoolIsReturned, OnlyTheMarkIsSilent, TxtIsBesideLoader
  <2> QED BY <2>1, <2>2, <2>3 DEF TextInv
<1>10. CASE GetKernelInfo
  <2>1. TypeOK'
    BY <1>10, <1>0, SameText DEF GetKernelInfo
  <2>2. LinesAreMeasured' /\ LinesAreCopied'
    BY <1>10, SameLines DEF GetKernelInfo, Split
  <2>3. Rest
    BY <1>10, <1>0 DEF GetKernelInfo, Split, PoolIsKnown, PoolIsReturned, OnlyTheMarkIsSilent, TxtIsBesideLoader
  <2> QED BY <2>1, <2>2, <2>3 DEF TextInv
<1>11. CASE ServiceFails
  <2>1. TypeOK'
    BY <1>11, <1>0, SameText, AllocatedIsPools DEF ServiceFails
  <2>2. LinesAreMeasured' /\ LinesAreCopied'
    BY <1>11, SameLines DEF ServiceFails, Split
  <2>3. Rest
    BY <1>11, <1>0, AllocatedIsPools DEF ServiceFails, Split, PoolIsKnown, PoolIsReturned, OnlyTheMarkIsSilent, TxtIsBesideLoader
  <2> QED BY <2>1, <2>2, <2>3 DEF TextInv
<1>12. CASE FreeTxtFails
  <2>1. TypeOK'
    BY <1>12, <1>0, SameText DEF FreeTxtFails
  <2>2. LinesAreMeasured' /\ LinesAreCopied'
    BY <1>12, SameLines DEF FreeTxtFails, Split
  <2>3. Rest
    BY <1>12, <1>0 DEF FreeTxtFails, Split, PoolIsKnown, PoolIsReturned, OnlyTheMarkIsSilent, TxtIsBesideLoader
  <2> QED BY <2>1, <2>2, <2>3 DEF TextInv
<1>13. CASE CheckBom
  <2>1. TypeOK'
    BY <1>13, <1>0, SameText DEF CheckBom
  <2>2. LinesAreMeasured' /\ LinesAreCopied'
    BY <1>13, SameLines DEF CheckBom, Split
  <2>3. Rest
    BY <1>13, <1>0 DEF CheckBom, FirstUnits, Split, Bom, PoolIsKnown, PoolIsReturned, OnlyTheMarkIsSilent, TxtIsBesideLoader
  <2> QED BY <2>1, <2>2, <2>3 DEF TextInv
<1>14. CASE BuildTxtPath
  <2>1. TypeOK'
    <3>1. txtPath' \in Seq(PathUnit)
      BY <1>14, TxtPathIsPath DEF BuildTxtPath, TextInv, TypeOK
    <3> QED BY <1>14, <1>0, <3>1 DEF BuildTxtPath, TextInv, TypeOK, lengths, copies
  <2>2. LinesAreMeasured' /\ LinesAreCopied'
    BY <1>14, SameLines DEF BuildTxtPath, Split
  <2>3. TxtIsBesideLoader'
    <3> SUFFICES ASSUME NEW k \in 1 .. Len(bootPath), bootPath[k] = Backslash,
                        \A l \in k + 1 .. Len(bootPath) : bootPath[l] # Backslash
                 PROVE  txtPath' = Append(SubSeq(bootPath, 1, k), TxtFileName)
      BY <1>14 DEF BuildTxtPath, TxtIsBesideLoader
    <3>1. bootPath \in Seq(PathUnit)
      BY DEF TextInv, TypeOK, KernelTextAssumption
    <3>2. PrefixLength(bootPath) = k
      BY <3>1, PrefixIsFolder
    <3> QED BY <1>14, <3>2 DEF BuildTxtPath
  <2>4. Rest
    BY <1>14, <1>0, <2>3 DEF BuildTxtPath, Split, PoolIsKnown, PoolIsReturned, OnlyTheMarkIsSilent
  <2> QED BY <2>1, <2>2, <2>4 DEF TextInv
<1>15. CASE ReadTxt
  <2>1. TypeOK'
    BY <1>15, <1>0 DEF ReadTxt, TextInv, TypeOK, KernelTextAssumption, lengths, copies
  <2>2. LinesAreMeasured' /\ LinesAreCopied'
    BY <1>15 DEF ReadTxt, Split, LinesAreMeasured, LinesAreCopied
  <2>3. Rest
    BY <1>15, <1>0 DEF ReadTxt, Split, PoolIsKnown, PoolIsReturned, OnlyTheMarkIsSilent, TxtIsBesideLoader
  <2> QED BY <2>1, <2>2, <2>3 DEF TextInv
<1>16. CASE Measure
  <2>1. /\ FirstLineLength(text) \in Nat
        /\ Cardinality(PathUnits(text)) \in Nat
        /\ Stop(text, FirstLineLength(text)) - FirstLineLength(text) \in Nat
    BY FirstLineIsInText, PathUnitsAreInText, CmdlineIsUnits DEF TextInv, TypeOK
  <2>2. TypeOK'
    BY <1>16, <1>0, <2>1 DEF Measure, TextInv, TypeOK, copies
  <2>3. LinesAreMeasured' /\ LinesAreCopied'
    BY <1>16 DEF Measure, Split, LinesAreMeasured, LinesAreCopied
  <2>4. Rest
    BY <1>16, <1>0 DEF Measure, Split, PoolIsKnown, PoolIsReturned, OnlyTheMarkIsSilent, TxtIsBesideLoader
  <2> QED BY <2>2, <2>3, <2>4 DEF TextInv
<1>17. CASE CopyLines
  <2>1. text \in Seq(Unit) /\ pathLen \in Nat /\ lineLen \in Nat
    BY DEF TextInv, TypeOK
  <2>2. cmdLen = Stop(text, lineLen) - lineLen
    BY <1>17 DEF CopyLines, TextInv, LinesAreMeasured
  <2>3. Path(text, pathLen) \in Seq(Unit \cup {Nul, Garbage})
    BY <2>1, PathIsUnits
  <2>4. [k \in 1 .. cmdLen |-> text[lineLen + k]] \in Seq(Unit)
    BY <2>1, <2>2, CmdlineIsUnits
  <2>5. TypeOK'
    BY <1>17, <1>0, <2>3, <2>4 DEF CopyLines, TextInv, TypeOK, lengths
  <2>6. LinesAreMeasured'
    BY <1>17 DEF CopyLines, TextInv, Split, LinesAreMeasured, lengths
  <2>7. LinesAreCopied'
    BY <1>17 DEF CopyLines, LinesAreCopied, lengths
  <2>8. Rest
    BY <1>17, <1>0 DEF CopyLines, TextInv, Split, PoolIsKnown, PoolIsReturned, OnlyTheMarkIsSilent, TxtIsBesideLoader
  <2> QED BY <2>5, <2>6, <2>7, <2>8 DEF TextInv
<1>18. CASE UNCHANGED vars
  <2> USE DEF vars, lengths, copies
  <2>1. TypeOK'
    BY <1>18, <1>0, SameText
  <2>2. LinesAreMeasured' /\ LinesAreCopied'
    BY <1>18, SameLines DEF Split
  <2>3. Rest
    BY <1>18, <1>0 DEF Split, PoolIsKnown, PoolIsReturned, OnlyTheMarkIsSilent, TxtIsBesideLoader
  <2> QED BY <2>1, <2>2, <2>3 DEF TextInv
<1> QED BY <1>1, <1>2, <1>3, <1>4, <1>5, <1>6, <1>7, <1>8, <1>9, <1>10, <1>11, <1>12, <1>13, <1>14,
        <1>15, <1>16, <1>17, <1>18 DEF Next

LEMMA TextIsInvariant == Spec => []TextInv
BY KernelTextAssumption, InitText, StepText, PTL DEF Spec

\* What Kernel64.txt holds never takes a length or an index out of its type.
THEOREM TextTypes == Spec => []TypeOK
<1>1. TextInv => TypeOK
  BY DEF TextInv
<1> QED BY <1>1, TextIsInvariant, PTL

\* With the kernel open, the pools left are those the kernel is given.
THEOREM TextPools == Spec => []PoolIsReturned
<1>1. TextInv => PoolIsReturned
  BY DEF TextInv
<1> QED BY <1>1, TextIsInvariant, PTL

\* Only a text with the right mark is split, and only one without it ends the
\* loader without an error.
THEOREM MarkIsSilent == Spec => []OnlyTheMarkIsSilent
<1>1. TextInv => OnlyTheMarkIsSilent
  BY DEF TextInv
<1> QED BY <1>1, TextIsInvariant, PTL

\* The text looked for is in the folder the boot loader was started from.
THEOREM TxtBeside == Spec => []TxtIsBesideLoader
<1>1. TextInv => TxtIsBesideLoader
  BY DEF TextInv
<1> QED BY <1>1, TextIsInvariant, PTL

\* From every text in the documented format, of any length, exactly the path and
\* the second line are read, and nothing is written outside the two pools.
THEOREM LinesAreRead == Spec => []WrittenLinesAreRead
<1>1. TextInv => WrittenLinesAreRead
  <2> SUFFICES ASSUME TextInv, Split, NEW end \in 2 .. Len(text), NEW n \in 0 .. end - 2,
                      EndsPath(text, n, end)
               PROVE  /\ kernelPath = Append(SubSeq(text, 2, n + 1), Nul)
                      /\ IsLine(text, end + 1, cmdline)
                      /\ ~overrun
    BY DEF WrittenLinesAreRead
  <2>1. text \in Seq(Unit)
    BY DEF TextInv, TypeOK
  <2>2. /\ lineLen = FirstLineLength(text) /\ pathLen = Cardinality(PathUnits(text))
        /\ cmdLen = Stop(text, lineLen) - lineLen
        /\ kernelPath = Path(text, pathLen)
        /\ overrun = \E i \in Copied(text, lineLen) : i > pathLen + 1
        /\ cmdline = [k \in 1 .. cmdLen |-> text[lineLen + k]]
    BY DEF TextInv, LinesAreMeasured, LinesAreCopied
  <2>3. lineLen = end /\ pathLen = n
    BY <2>1, <2>2, KernelTextAssumption, FormatIsMeasured, FormatIsCopied
  <2>4. kernelPath = Append(SubSeq(text, 2, n + 1), Nul)
    BY <2>1, <2>2, <2>3, KernelTextAssumption, FormatIsCopied
  <2>5. n \in Nat /\ \A i \in Copied(text, lineLen) : i \in Nat /\ i <= n + 1
    BY <2>1, <2>2, KernelTextAssumption, FormatIsCopied, PathUnitsAreInText DEF Copied
  <2>6. ~overrun
    BY <2>2, <2>3, <2>5
  <2>7. end \in 1 .. Len(text)
    OBVIOUS
  <2>8. IsLine(text, end + 1, cmdline)
    BY <2>1, <2>2, <2>3, <2>7, CmdlineIsALine
  <2> QED BY <2>4, <2>6, <2>8
<1> QED BY <1>1, TextIsInvariant, PTL
=============================================================================
