---------------------------- MODULE KernelMemory ----------------------------
(***************************************************************************)
(* What the loader promises about the memory it takes for the kernel,      *)
(* whichever file format it loads and however it searches: it takes one    *)
(* range at a time out of the free pages and puts back exactly what it     *)
(* took, until it keeps one for good or gives up without any.  The         *)
(* firmware may take and return pages of its own in between.               *)
(***************************************************************************)
CONSTANTS
  Page,     \* the pages of physical memory
  Ranges    \* the sets of pages the kernel fits in

VARIABLES
  free,     \* pages nobody uses
  held,     \* pages taken for the kernel
  outcome   \* "searching", "granted", or "refused"

mvars == <<free, held, outcome>>

MemInit ==
  /\ free \in SUBSET Page
  /\ held = {}
  /\ outcome = "searching"

Take ==
  /\ outcome = "searching" /\ held = {}
  /\ held' \in Ranges
  /\ held' \subseteq free
  /\ free' = free \ held'
  /\ UNCHANGED outcome

PutBack ==
  /\ outcome = "searching" /\ held # {}
  /\ free' = free \cup held
  /\ held' = {}
  /\ UNCHANGED outcome

Grant ==
  /\ outcome = "searching" /\ held # {}
  /\ outcome' = "granted"
  /\ UNCHANGED <<free, held>>

\* The firmware may refuse to take a range back; then it is lost.
Refuse ==
  /\ outcome = "searching"
  /\ outcome' = "refused"
  /\ UNCHANGED <<free, held>>

FirmwareStep ==
  /\ outcome = "searching"
  /\ free' \in SUBSET (Page \ held)
  /\ UNCHANGED <<held, outcome>>

MemNext == Take \/ PutBack \/ Grant \/ Refuse \/ FirmwareStep
MemSpec == MemInit /\ [][MemNext]_mvars
=============================================================================
