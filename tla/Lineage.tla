------------------------------ MODULE Lineage ------------------------------
(***************************************************************************)
(* Parents and children on their way into a manifest or a stack.  A scan   *)
(* joins each child to its parent instance (resolveParentAddresses), and   *)
(* every list of resources then loses the rows that cannot be imported and *)
(* the children whose parent is not in the list:                           *)
(*                                                                         *)
(*   scan, manifest   insideout-import discover, from the cloud or with    *)
(*                    --from-manifest: refuse, sweep, write imported.json, *)
(*                    and unsupported.json if a scan was asked for it      *)
(*   compose          ComposeStackWithIssues on the resources of a         *)
(*                    session: sweep, drop, validate                       *)
(*                                                                         *)
(* A row is its position in the list, and stands for its address.  Of the  *)
(* validator only the check of the parents is modelled; of unsupported.json *)
(* only the rows of the list.                                              *)
(***************************************************************************)
EXTENDS Naturals, FiniteSets

CONSTANTS
  NumRows,
  Region, Name

ASSUME LineageAssumption == NumRows \in Nat \ {0}

Row == 1..NumRows
NoParent == 0
Gone == NumRows + 1      \* an address that no row of the list has

VARIABLES
  use,          \* "scan", "manifest" or "compose"
  pc,           \* "join", "refuse", "sweep", "drop", "check", "report" or "done"
  world,        \* of a scan: what the rows are and the identifiers they carry
  parent,       \* ParentAddress
  forget,       \* rows that render a removed block
  foreign,      \* rows of a tier that is not an imported one
  refusable,    \* rows with an UnimportableReason
  include,      \* --include-unsupported
  rows,         \* the list
  present,      \* the index of the sweep
  orphans,      \* droppedIdx
  at, changed,  \* the row the sweep is at, and whether it dropped one
  dropped,      \* unimportableRows: refused or orphaned, counted on stderr
  flagged,      \* rows with a dangling-parent issue
  wrote,        \* whether unsupported.json was written
  unsupported   \* and the rows in it

lineageVars == <<use, pc, world, parent, forget, foreign, refusable, include, rows, present,
                 orphans, at, changed, dropped, flagged, wrote, unsupported>>
given == <<use, world, forget, foreign, refusable, include>>
sweep == <<present, orphans, at, changed>>
report == <<wrote, unsupported>>

(* The identifiers a join compares.  Within a region two parents share one  *)
(* only if they point at the child (a parameter group of two databases).    *)
Worlds ==
  {w \in [region: [Row -> Region], child: SUBSET Row, id: [Row -> Name], reverse: BOOLEAN] :
     w.reverse \/ \A p, q \in Row \ w.child :
                    w.region[p] = w.region[q] /\ w.id[p] = w.id[q] => p = q}

(* What is loaded of a manifest that could be read: --resource-ids may have *)
(* left a parent out, but none can have been of a tier that the reader does *)
(* not look parents up in. *)
Reads(p, f, x) == \A r \in Row \ (f \cup x) : p[r] \notin x

First(u) == CASE u = "scan" -> "join" [] u = "manifest" -> "refuse" [] u = "compose" -> "sweep"

LineageInit ==
  /\ use \in {"scan", "manifest", "compose"}
  /\ pc = First(use)
  /\ IF use = "scan"
     THEN /\ world \in Worlds /\ parent = [r \in Row |-> NoParent]
          /\ forget = {} /\ foreign = {} /\ include \in BOOLEAN
     ELSE /\ world = [child |-> {}] /\ include = FALSE
          /\ parent \in [Row -> Row \cup {NoParent, Gone}]
          /\ forget \in SUBSET Row /\ foreign \in SUBSET (Row \ forget)
          /\ use = "manifest" => Reads(parent, forget, foreign)
  /\ refusable \in SUBSET Row
  /\ rows = Row /\ present = Row /\ orphans = {} /\ at = 1 /\ changed = FALSE
  /\ dropped = {} /\ flagged = {} /\ wrote = FALSE /\ unsupported = {}
-----------------------------------------------------------------------------
(* The rows of the parent type that carry the identifier: no region in it.  *)
Candidates(c) == {p \in Row \ world.child : world.id[p] = world.id[c]}

(* Fault: the first candidate wins. *)
FirstMatch(c) ==
  IF Candidates(c) = {} THEN NoParent
  ELSE CHOOSE p \in Candidates(c) : \A q \in Candidates(c) : p <= q
(* An identifier of several rows is ambiguous and links to none. *)
Match(c) ==
  IF \E p \in Row : Candidates(c) = {p} THEN CHOOSE p \in Row : Candidates(c) = {p}
  ELSE NoParent

JoinParents ==
  /\ pc = "join"
  /\ parent' = [r \in Row |-> IF r \in world.child THEN Match(r) ELSE NoParent]
  /\ pc' = "refuse"
  /\ UNCHANGED <<given, rows, sweep, dropped, flagged, report>>

Index(R) == R

(* partitionUnimportable, and the index of the sweep over what it kept.     *)
Refuse ==
  /\ pc = "refuse"
  /\ rows' = rows \ refusable
  /\ present' = Index(rows')
  /\ dropped' = dropped \cup (rows \cap refusable)
  /\ pc' = "sweep"
  /\ UNCHANGED <<given, parent, orphans, at, changed, flagged, report>>
-----------------------------------------------------------------------------
IsOrphan(r) == parent[r] # NoParent /\ parent[r] \notin present /\ r \notin forget

(* Fault: dropped rows are visited again. *)
AllRows == rows
Kept == rows \ orphans

(* Fault: a dropped row stays in the index. *)
NotRetracted(r) == present
Retracted(r) == present \ {r}

(* One row of DropOrphanedChildren's pass over the list. *)
Visit ==
  /\ pc = "sweep" /\ at \in Row
  /\ IF at \in Kept /\ IsOrphan(at)
     THEN orphans' = orphans \cup {at} /\ present' = Retracted(at) /\ changed' = TRUE
     ELSE UNCHANGED <<orphans, present, changed>>
  /\ at' = at + 1
  /\ UNCHANGED <<given, pc, parent, rows, dropped, flagged, report>>

(* Fault: one pass is enough. *)
OnePass == TRUE
NoChange == ~changed

SweepAgain ==
  /\ pc = "sweep" /\ at > NumRows /\ ~NoChange
  /\ at' = 1 /\ changed' = FALSE
  /\ UNCHANGED <<given, pc, parent, rows, present, orphans, dropped, flagged, report>>

(* Fault: the orphans of a scan are not added to what it left out. *)
Unreported == {}
Reported == IF use = "compose" THEN {} ELSE orphans

SweepEnds ==
  /\ pc = "sweep" /\ at > NumRows /\ NoChange
  /\ rows' = rows \ orphans
  /\ dropped' = dropped \cup Reported
  /\ pc' = IF use = "compose" THEN "drop" ELSE "check"
  /\ UNCHANGED <<given, parent, sweep, flagged, report>>

(* DropUnimportable of the composer. *)
DropRefusable ==
  /\ pc = "drop"
  /\ rows' = rows \ refusable
  /\ pc' = "check"
  /\ UNCHANGED <<given, parent, sweep, dropped, flagged, report>>

(* For the sweep, a row of whatever tier is a parent. *)
Anchored(r, S) == parent[r] \in S \cup {NoParent} \/ r \in forget

(* The largest part of a list in which nothing dangles. *)
Closed(R) == UNION {S \in SUBSET R : \A r \in S : Anchored(r, S)}

(* For the validator, only a row of an imported tier is a parent, and only  *)
(* such a row is looked at. *)
Indexed(S) == S \ foreign
Sound(r, S) == parent[r] \in Indexed(S) \cup {NoParent} \/ r \in forget \cup foreign

SoundPart(R) == UNION {S \in SUBSET R : \A r \in S : Sound(r, S)}

(* ValidateImportedResources; writeManifest drops what it flags until       *)
(* nothing is. *)
Check ==
  /\ pc = "check"
  /\ flagged' = {r \in rows : ~Sound(r, rows)}
  /\ rows' = IF use = "compose" THEN rows ELSE SoundPart(rows)
  /\ pc' = IF include THEN "report" ELSE "done"
  /\ UNCHANGED <<given, parent, sweep, dropped, report>>

(* unsupported.json, of what was left out before: neither a failure to      *)
(* enumerate the unsupported types nor one to write the file ends the run.  *)
WriteUnsupported ==
  /\ pc = "report"
  /\ \/ wrote' = TRUE /\ unsupported' = dropped
     \/ UNCHANGED report
  /\ pc' = "done"
  /\ UNCHANGED <<given, parent, rows, sweep, dropped, flagged>>

LineageNext ==
  JoinParents \/ Refuse \/ Visit \/ SweepAgain \/ SweepEnds \/ DropRefusable \/ Check
    \/ WriteUnsupported

LineageSpec == LineageInit /\ [][LineageNext]_lineageVars /\ WF_lineageVars(LineageNext)
-----------------------------------------------------------------------------
LineageTypeOK ==
  /\ use \in {"scan", "manifest", "compose"}
  /\ pc \in {"join", "refuse", "sweep", "drop", "check", "report", "done"}
  /\ parent \in [Row -> Row \cup {NoParent, Gone}]
  /\ forget \subseteq Row /\ foreign \subseteq Row \ forget
  /\ refusable \subseteq Row /\ include \in BOOLEAN
  /\ rows \subseteq Row /\ orphans \subseteq Row
  /\ present \subseteq (IF pc = "sweep" THEN rows ELSE Row)
  /\ at \in 1..(NumRows + 1) /\ changed \in BOOLEAN
  /\ dropped \subseteq Row /\ flagged \subseteq Row
  /\ wrote \in BOOLEAN /\ unsupported \subseteq Row

(* The list the sweep started from. *)
Swept == IF use = "compose" THEN Row ELSE Row \ refusable

(* The sweep drops exactly the rows that cannot be kept: whatever the order *)
(* of the list, a row stays if and only if its line of parents stays in the *)
(* list, closes on itself or ends at a row that is only forgotten.          *)
SweepIsExact ==
  /\ orphans \cap Closed(rows) = {}
  /\ pc = (IF use = "compose" THEN "drop" ELSE "check") => rows = Closed(Swept)

(* A manifest has no dangling parent, so that it can be read again, every   *)
(* row it does not hold was counted as left out, and unsupported.json, if   *)
(* asked for and written, holds exactly the rows that imported.json         *)
(* does not: none of the passes in between loses a row or keeps it in both. *)
ManifestIsComplete ==
  pc = "done" /\ use # "compose" =>
    /\ flagged = {}
    /\ rows \cup dropped = Row /\ rows \cap dropped = {}
    /\ wrote => unsupported = Row \ rows

(* A row that is only to be forgotten is never dropped for its parent: its  *)
(* removed block protects the resource from deletion.                       *)
ForgetIsKept == orphans \cap forget = {}

(* What dangles in a composition: the children of a row that was refused    *)
(* after the sweep, and those of a row of a foreign tier, which the sweep    *)
(* takes for a parent and the validator does not.  Nothing else does. *)
DanglingIsExplained ==
  pc = "done" /\ use = "compose" =>
    flagged = {r \in Closed(Row) \ (refusable \cup forget \cup foreign) :
                 parent[r] \in refusable \cup foreign}

(* The row a child of a scan belongs to, of its own region. *)
Own(c) == {p \in Candidates(c) : world.region[p] = world.region[c]}

(* A child whose parent was found shares the fate of that parent: whatever  *)
(* rows of other regions carry the same identifier, and whatever becomes of *)
(* them, it is left out only if its own parent was refused, and it is kept  *)
(* under no other. *)
ChildFollowsItsOwn ==
  pc = "done" /\ use = "scan" => \A c \in world.child \ refusable : Own(c) # {} =>
    /\ c \notin rows => Own(c) \subseteq refusable
    /\ c \in rows => parent[c] \in Own(c) \cup {NoParent}

(* The pipeline comes to its end: a pass that dropped nothing is the last.  *)
LineageEnds == <>(pc = "done")

(* "Drop orphaned children ... BEFORE validation": a composition of rows of *)
(* imported tiers has no child whose parent is not in the stack. *)
NoChildDanglesInAStack == use = "compose" /\ foreign = {} => flagged = {}
=============================================================================
