---------------------------- MODULE LineageProofs ----------------------------
(***************************************************************************)
(* Proofs about parents and children, for every number of rows, every      *)
(* parentage, every refusal and every set of forgotten rows.               *)
(***************************************************************************)
EXTENDS Lineage, FiniteSetTheorems, TLAPS

AllAnchored(R) == \A r \in R : Anchored(r, R)

(* The rows the sweep works on are those it started from, the index is what *)
(* is left of them, and nothing that could be kept was dropped.             *)
Sweeping ==
  /\ rows = Swept
  /\ present = rows \ orphans
  /\ \A S \in SUBSET rows : AllAnchored(S) => S \cap orphans = {}
  /\ ~changed => \A r \in present : r < at => ~IsOrphan(r)

(* Before the sweep nothing has happened, and after it the list is the      *)
(* largest closed part of what was swept, less what a composition refuses.  *)
Phases ==
  /\ pc = "join" => use = "scan"
  /\ pc \in {"join", "refuse"} => use # "compose" /\ rows = Row /\ orphans = {} /\ dropped = {}
                                  /\ at = 1 /\ ~changed
  /\ pc = "sweep" => Sweeping
  /\ pc = "drop" => use = "compose" /\ rows = Closed(Swept)
  /\ pc \in {"drop", "check", "report", "done"} => rows \cap orphans = {}
  /\ pc \in {"check", "report", "done"} =>
       rows = Closed(Swept) \ (IF use = "compose" THEN refusable ELSE {})
  /\ pc \notin {"report", "done"} => flagged = {}
  /\ pc = "report" => use # "compose"
  /\ wrote => pc = "done"

(* Of a manifest, no row is lost on the way. *)
Reporting ==
  /\ pc = "sweep" /\ use # "compose" => dropped = Row \cap refusable
  /\ pc \in {"check", "report", "done"} /\ use # "compose" =>
       rows \cup dropped = Row /\ rows \cap dropped = {}
  /\ pc \in {"report", "done"} /\ use # "compose" => flagged = {}
  /\ wrote => unsupported = dropped

(* Of a scan every row is of an imported tier, a manifest that was read has *)
(* no child of a foreign one, and only a scan is asked for unsupported.json.*)
Inputs ==
  /\ use = "scan" => world.child \subseteq Row /\ foreign = {} /\ forget = {}
  /\ use = "manifest" => Reads(parent, forget, foreign)
  /\ include => use = "scan"

(* The parent of a child is the only row that answers to the identifier the *)
(* child carries, and a row that is no child has no parent. *)
Joined ==
  use = "scan" => \A c \in Row :
    parent[c] # NoParent => c \in world.child /\ Candidates(c) = {parent[c]}

LineageInv ==
  /\ LineageTypeOK /\ Phases /\ Reporting /\ Inputs /\ Joined
  /\ ForgetIsKept /\ DanglingIsExplained
-----------------------------------------------------------------------------
LEMMA ClosedIsPart == ASSUME NEW R PROVE Closed(R) \subseteq R
BY DEF Closed

LEMMA InClosed ==
  ASSUME NEW R, NEW S \in SUBSET R, AllAnchored(S) PROVE S \subseteq Closed(R)
BY DEF Closed, AllAnchored

LEMMA ClosedIsAnchored == ASSUME NEW R PROVE AllAnchored(Closed(R))
BY DEF Closed, AllAnchored, Anchored

LEMMA FirstRow == 1 \in 1..(NumRows + 1)
BY LineageAssumption

LEMMA InputsStay ==
  ASSUME Inputs, Joined, UNCHANGED <<given, parent>> PROVE Inputs' /\ Joined'
BY DEF Inputs, Joined, Reads, Candidates, given

LEMMA InitInv == ASSUME LineageInit PROVE LineageInv
<1> USE DEF LineageInit, First
<1>1. LineageTypeOK
    <2>1. parent \in [Row -> Row \cup {NoParent, Gone}]
        OBVIOUS
    <2>2. use \in {"scan", "manifest", "compose"} /\ pc \in {"join", "refuse", "sweep"}
        OBVIOUS
    <2> QED BY <2>1, <2>2, FirstRow DEF LineageTypeOK
<1>2. pc = "sweep" => Sweeping
    BY DEF Sweeping, Swept, Row
<1>3. Phases
    BY <1>2 DEF Phases
<1> QED BY <1>1, <1>3
    DEF LineageInv, Reporting, ForgetIsKept, DanglingIsExplained, Inputs, Joined, Worlds

LEMMA JoinKeepsInv == ASSUME LineageInv, JoinParents PROVE LineageInv'
<1> USE DEF LineageInv, JoinParents, given, sweep, report
<1>1. \A c \in Row : Match(c) # NoParent => Match(c) \in Row /\ Candidates(c) = {Match(c)}
    BY DEF Match
<1>2. Joined'
    BY <1>1 DEF Joined, Candidates
<1>3. parent' \in [Row -> Row \cup {NoParent, Gone}]
    BY <1>1
<1>4. LineageTypeOK'
    BY <1>3 DEF LineageTypeOK
<1>5. Phases' /\ Inputs'
    BY DEF Phases, Inputs, Reads
<1> QED BY <1>2, <1>4, <1>5 DEF Phases, Reporting, ForgetIsKept, DanglingIsExplained

LEMMA RefuseKeepsInv == ASSUME LineageInv, Refuse PROVE LineageInv'
<1> USE DEF LineageInv, Refuse, given, Index, report
<1>1. rows = Row /\ orphans = {} /\ dropped = {} /\ at = 1 /\ use # "compose"
    BY DEF Phases
<1>2. LineageTypeOK'
    <2>1. at' \in 1..(NumRows + 1) /\ changed' \in BOOLEAN /\ flagged' \subseteq rows'
        BY <1>1 DEF LineageTypeOK, Phases
    <2>2. present' \subseteq rows' /\ rows' \subseteq Row /\ orphans' \subseteq Row
          /\ dropped' \subseteq Row
        BY <1>1 DEF LineageTypeOK
    <2> QED BY <2>1, <2>2 DEF LineageTypeOK
<1>3. Sweeping'
    <2>1. \A r \in Row : ~(r < 1)
        BY DEF Row
    <2> QED BY <1>1, <2>1 DEF Sweeping, Swept, AllAnchored
<1>4. Phases'
    BY <1>3 DEF Phases
<1> QED BY <1>1, <1>2, <1>4, InputsStay DEF Reporting, ForgetIsKept, DanglingIsExplained, Phases
-----------------------------------------------------------------------------
(* A row that the sweep drops is in no closed part of the list: its parent  *)
(* would have to be in that part, and so in the index. *)
LEMMA DropsNoClosedRow ==
  ASSUME Sweeping, NEW S \in SUBSET rows, AllAnchored(S), NEW r, IsOrphan(r)
  PROVE  r \notin S
<1> SUFFICES ASSUME r \in S PROVE FALSE
    OBVIOUS
<1>1. parent[r] \in S
    BY DEF AllAnchored, Anchored, IsOrphan
<1>2. parent[r] \in rows /\ parent[r] \notin orphans
    BY <1>1 DEF Sweeping
<1> QED BY <1>2 DEF Sweeping, IsOrphan

LEMMA VisitKeepsInv == ASSUME LineageInv, Visit PROVE LineageInv'
<1> USE DEF LineageInv, Visit, given, report
<1>1. Sweeping /\ at \in Row /\ at' = at + 1
    BY DEF Phases
<1>2. at \in Nat /\ at \in 1..NumRows /\ at + 1 \in 1..(NumRows + 1)
    BY <1>1, LineageAssumption DEF Row
<1>3. CASE at \in Kept /\ IsOrphan(at)
    <2>1. orphans' = orphans \cup {at} /\ present' = present \ {at} /\ changed' = TRUE
        BY <1>3 DEF Retracted
    <2>2. LineageTypeOK'
        BY <1>1, <1>2, <2>1 DEF LineageTypeOK
    <2>3. Sweeping'
        <3>1. \A S \in SUBSET rows : AllAnchored(S) => at \notin S
            BY <1>1, <1>3, DropsNoClosedRow
        <3> QED BY <1>1, <2>1, <3>1 DEF Sweeping, Swept, AllAnchored, Anchored
    <2>4. ForgetIsKept'
        BY <1>3, <2>1 DEF ForgetIsKept, IsOrphan
    <2> QED BY <2>2, <2>3, <2>4, InputsStay DEF Phases, Reporting, DanglingIsExplained
<1>4. CASE ~(at \in Kept /\ IsOrphan(at))
    <2>1. UNCHANGED <<orphans, present, changed>>
        BY <1>4
    <2>2. LineageTypeOK'
        BY <1>1, <1>2, <2>1 DEF LineageTypeOK
    <2>3. ~changed => \A r \in present : r < at + 1 => ~IsOrphan(r)
        <3> SUFFICES ASSUME ~changed, NEW r \in present, r < at + 1 PROVE ~IsOrphan(r)
            OBVIOUS
        <3>1. r \in Nat
            BY <1>1 DEF LineageTypeOK, Row, Sweeping
        <3>2. CASE r = at
            BY <1>1, <1>4, <3>2 DEF Kept, Sweeping
        <3>3. CASE r < at
            BY <1>1, <3>3 DEF Sweeping
        <3> QED BY <1>2, <3>1, <3>2, <3>3
    <2>4. Sweeping'
        BY <1>1, <2>1, <2>3 DEF Sweeping, Swept, AllAnchored, Anchored, IsOrphan
    <2> QED BY <2>1, <2>2, <2>4, InputsStay DEF Phases, Reporting, ForgetIsKept, DanglingIsExplained
<1> QED BY <1>3, <1>4

LEMMA AgainKeepsInv == ASSUME LineageInv, SweepAgain PROVE LineageInv'
<1> USE DEF LineageInv, SweepAgain, given, report
<1>1. LineageTypeOK'
    <2>1. at' \in 1..(NumRows + 1)
        BY FirstRow
    <2> QED BY <2>1 DEF LineageTypeOK
<1>2. \A r \in Row : ~(r < 1)
    BY DEF Row
<1>3. Sweeping'
    BY <1>2 DEF Phases, Sweeping, Swept, AllAnchored, Anchored, LineageTypeOK
<1> QED BY <1>1, <1>3, InputsStay DEF Phases, Reporting, ForgetIsKept, DanglingIsExplained

(* A pass over the whole list that dropped nothing leaves the largest part  *)
(* of it in which nothing dangles. *)
LEMMA LastPassIsExact ==
  ASSUME LineageInv, SweepEnds
  PROVE  AllAnchored(present) /\ present = Closed(rows) /\ present = rows \ orphans
<1> USE DEF LineageInv
<1>1. Sweeping /\ ~changed /\ at > NumRows
    BY DEF SweepEnds, Phases, NoChange
<1>2. present \subseteq Row /\ present \subseteq rows
    BY <1>1 DEF LineageTypeOK, Sweeping
<1>3. \A r \in present : ~IsOrphan(r)
    <2>1. \A r \in Row : r < at
        BY <1>1, LineageAssumption DEF LineageTypeOK, Row
    <2> QED BY <1>1, <1>2, <2>1 DEF Sweeping
<1>4. AllAnchored(present)
    BY <1>3 DEF AllAnchored, Anchored, IsOrphan
<1>5. present \subseteq Closed(rows)
    BY <1>2, <1>4, InClosed
<1>6. Closed(rows) \subseteq rows /\ Closed(rows) \cap orphans = {}
    BY <1>1 DEF Closed, Sweeping, AllAnchored
<1> QED BY <1>1, <1>4, <1>5, <1>6 DEF Sweeping

LEMMA SweepEndsKeepsInv == ASSUME LineageInv, SweepEnds PROVE LineageInv'
<1> USE DEF LineageInv, SweepEnds, given, sweep, report
<1>1. AllAnchored(present) /\ present = Closed(rows) /\ rows' = present /\ rows = Swept
    BY LastPassIsExact DEF Phases, Sweeping
<1>2. AllAnchored(rows)' /\ rows' = Closed(Swept)' /\ (rows \cap orphans)' = {}
    BY <1>1 DEF AllAnchored, Anchored, Closed, Swept
<1>3. LineageTypeOK'
    <2>1. flagged' = {} /\ pc' \in {"drop", "check"}
        BY DEF Phases
    <2>2. rows' \subseteq Row /\ dropped' \subseteq Row /\ present' \subseteq Row
        BY DEF LineageTypeOK, Reported
    <2> QED BY <2>1, <2>2 DEF LineageTypeOK
<1>4. Phases'
    BY <1>2 DEF Phases
<1>5. Reporting'
    BY <1>1 DEF Reporting, Swept, Reported, LineageTypeOK, Phases
<1> QED BY <1>3, <1>4, <1>5, InputsStay DEF Phases, ForgetIsKept, DanglingIsExplained

LEMMA DropKeepsInv == ASSUME LineageInv, DropRefusable PROVE LineageInv'
<1> USE DEF LineageInv, DropRefusable, given, sweep, report
<1>1. use = "compose" /\ rows = Closed(Swept) /\ rows' = Closed(Swept) \ refusable
    BY DEF Phases
<1>2. Closed(Swept)' = Closed(Swept)
    BY DEF Closed, Swept, Anchored
<1>3. LineageTypeOK'
    BY DEF LineageTypeOK
<1>4. Phases'
    BY <1>1, <1>2 DEF Phases
<1> QED BY <1>1, <1>3, <1>4, InputsStay DEF Phases, Reporting, ForgetIsKept, DanglingIsExplained

(* What is swept of a discovery needs no second sweep: the validator, which *)
(* looks for fewer parents, finds every one it looks for. *)
LEMMA ManifestIsSound ==
  ASSUME LineageInv, pc = "check", use # "compose" PROVE \A r \in rows : Sound(r, rows)
<1> USE DEF LineageInv
<1>1. AllAnchored(rows)
    BY ClosedIsAnchored DEF Phases
<1>2. rows \subseteq Row
    BY DEF LineageTypeOK
<1>3. ASSUME NEW r \in rows, r \notin forget \cup foreign PROVE parent[r] \notin foreign
    <2>1. CASE use = "scan"
        BY <2>1 DEF Inputs
    <2>2. CASE use = "manifest"
        BY <1>2, <1>3, <2>2 DEF Inputs, Reads
    <2> QED BY <2>1, <2>2 DEF LineageTypeOK
<1> QED BY <1>1, <1>3 DEF AllAnchored, Anchored, Sound, Indexed

(* Of a composition, a row that was swept dangles if and only if its parent *)
(* was refused since or is not one for the validator. *)
LEMMA StackDangles ==
  ASSUME LineageInv, pc = "check", use = "compose"
  PROVE  {r \in rows : ~Sound(r, rows)}
           = {r \in Closed(Row) \ (refusable \cup forget \cup foreign) :
                parent[r] \in refusable \cup foreign}
<1> USE DEF LineageInv
<1>1. rows = Closed(Row) \ refusable
    BY DEF Phases, Swept
<1>2. AllAnchored(Closed(Row)) /\ Closed(Row) \subseteq Row
    BY ClosedIsAnchored, ClosedIsPart
<1>3. NoParent \notin Row /\ refusable \subseteq Row /\ foreign \subseteq Row
    BY LineageAssumption DEF LineageTypeOK, NoParent, Row
<1>4. ASSUME NEW r \in Closed(Row) \ (refusable \cup forget \cup foreign)
      PROVE  Sound(r, rows) <=> parent[r] \notin refusable \cup foreign
    <2>1. parent[r] \in Closed(Row) \cup {NoParent}
        BY <1>2, <1>4 DEF AllAnchored, Anchored
    <2> QED BY <1>1, <1>3, <1>4, <2>1 DEF Sound, Indexed
<1>5. \A r \in forget \cup foreign : Sound(r, rows)
    BY DEF Sound, Indexed
<1> QED BY <1>1, <1>4, <1>5

LEMMA CheckKeepsInv == ASSUME LineageInv, Check PROVE LineageInv'
<1> USE DEF LineageInv, Check, given, sweep, report
<1>1. rows' = rows
    <2>1. CASE use = "compose"
        BY <2>1
    <2>2. CASE use # "compose"
        <3>1. rows \in SUBSET rows /\ \A r \in rows : Sound(r, rows)
            BY <2>2, ManifestIsSound
        <3> QED BY <2>2, <3>1 DEF SoundPart
    <2> QED BY <2>1, <2>2
<1>2. use # "compose" => flagged' = {}
    BY ManifestIsSound
<1>3. pc' \in {"report", "done"} /\ (pc' = "report" => use # "compose")
    BY DEF Inputs
<1>4. LineageTypeOK'
    BY <1>1, <1>3 DEF LineageTypeOK
<1>5. Phases'
    <2>1. Closed(Swept)' = Closed(Swept)
        BY DEF Closed, Swept, Anchored
    <2> QED BY <1>1, <1>3, <2>1 DEF Phases
<1>6. Reporting'
    BY <1>1, <1>2 DEF Reporting, Phases
<1>7. DanglingIsExplained'
    <2>1. use = "compose" =>
            flagged' = {r \in Closed(Row) \ (refusable \cup forget \cup foreign) :
                          parent[r] \in refusable \cup foreign}
        BY StackDangles
    <2>2. Closed(Row)' = Closed(Row)
        BY DEF Closed, Anchored
    <2> QED BY <2>1, <2>2 DEF DanglingIsExplained
<1> QED BY <1>4, <1>5, <1>6, <1>7, InputsStay DEF ForgetIsKept

LEMMA WriteKeepsInv == ASSUME LineageInv, WriteUnsupported PROVE LineageInv'
<1> USE DEF LineageInv, WriteUnsupported, given, sweep, report
<1>1. use # "compose" /\ dropped \subseteq Row
    BY DEF Phases, LineageTypeOK
<1>2. LineageTypeOK'
    BY <1>1 DEF LineageTypeOK
<1>3. Phases'
    BY <1>1 DEF Phases, Closed, Swept, Anchored
<1>4. Reporting'
    BY <1>1 DEF Reporting
<1> QED BY <1>1, <1>2, <1>3, <1>4, InputsStay DEF ForgetIsKept, DanglingIsExplained

(* The inductive invariant holds on the way of every list. *)
THEOREM LineageInvariant == LineageSpec => []LineageInv
<1>1. LineageInit => LineageInv
    BY InitInv
<1>2. LineageInv /\ [LineageNext]_lineageVars => LineageInv'
    <2> SUFFICES ASSUME LineageInv, UNCHANGED lineageVars PROVE LineageInv'
        BY JoinKeepsInv, RefuseKeepsInv, VisitKeepsInv, AgainKeepsInv, SweepEndsKeepsInv,
           DropKeepsInv, CheckKeepsInv, WriteKeepsInv DEF LineageNext
    <2> USE DEF LineageInv, lineageVars
    <2>1. Phases'
        <3>1. (pc = "sweep" => Sweeping)'
            BY DEF Phases, Sweeping, Swept, AllAnchored, Anchored, IsOrphan
        <3> QED BY <3>1 DEF Phases, Anchored, Closed, Swept
    <2>2. LineageTypeOK' /\ Reporting'
        BY DEF LineageTypeOK, Reporting
    <2>3. DanglingIsExplained' /\ Inputs' /\ Joined'
        BY DEF DanglingIsExplained, Closed, Anchored, Inputs, Reads, Joined, Candidates
    <2> QED BY <2>1, <2>2, <2>3 DEF ForgetIsKept
<1> QED BY <1>1, <1>2, PTL DEF LineageSpec

(* Every variable stays in its range. *)
THEOREM LineageTypeCorrect == LineageSpec => []LineageTypeOK
<1>1. LineageInv => LineageTypeOK
    BY DEF LineageInv
<1> QED BY <1>1, LineageInvariant, PTL

(* DropOrphanedChildren reaches the largest part of a list in which nothing *)
(* dangles, whatever the order of the list and however long its chains. *)
THEOREM TheSweepIsExact == LineageSpec => []SweepIsExact
<1>1. LineageInv => SweepIsExact
    <2> SUFFICES ASSUME LineageInv PROVE SweepIsExact
        OBVIOUS
    <2>1. pc \in {"join", "refuse", "sweep", "drop", "check", "report", "done"}
        BY DEF LineageInv, LineageTypeOK
    <2>2. orphans \cap Closed(rows) = {}
        <3>1. CASE pc \in {"join", "refuse"}
            BY <3>1 DEF LineageInv, Phases
        <3>2. CASE pc = "sweep"
            BY <3>2 DEF LineageInv, Phases, Sweeping, Closed, AllAnchored
        <3>3. CASE pc \in {"drop", "check", "report", "done"}
            BY <3>3, ClosedIsPart DEF LineageInv, Phases
        <3> QED BY <2>1, <3>1, <3>2, <3>3
    <2>3. pc = (IF use = "compose" THEN "drop" ELSE "check") => rows = Closed(Swept)
        BY DEF LineageInv, Phases
    <2> QED BY <2>2, <2>3 DEF SweepIsExact
<1> QED BY <1>1, LineageInvariant, PTL

(* Every row of a discovery is either in the manifest, which can be read    *)
(* again, or counted as left out, and unsupported.json, when a scan was     *)
(* asked for it and could write it, is exactly the rest. *)
THEOREM TheManifestIsComplete == LineageSpec => []ManifestIsComplete
<1>1. LineageInv => ManifestIsComplete
    BY DEF LineageInv, Reporting, ManifestIsComplete, LineageTypeOK
<1> QED BY <1>1, LineageInvariant, PTL

(* The sweep never drops a row that renders a removed block. *)
THEOREM ForgottenRowsStay == LineageSpec => []ForgetIsKept
<1>1. LineageInv => ForgetIsKept
    BY DEF LineageInv
<1> QED BY <1>1, LineageInvariant, PTL

(* What dangles in a stack are exactly the children of the rows that were   *)
(* refused after the sweep or are of a tier the validator does not index. *)
THEOREM WhatDanglesIsExplained == LineageSpec => []DanglingIsExplained
<1>1. LineageInv => DanglingIsExplained
    BY DEF LineageInv
<1> QED BY <1>1, LineageInvariant, PTL

(* Neither the namesake of its parent in another region nor the refusal of  *)
(* that namesake costs a child its place: resolveParentAddresses, the       *)
(* partition and the sweep leave it out only with a parent of its own. *)
THEOREM ChildrenFollowTheirOwn == LineageSpec => []ChildFollowsItsOwn
<1>1. LineageInv => ChildFollowsItsOwn
    <2> SUFFICES ASSUME LineageInv, pc = "done", use = "scan",
                        NEW c \in world.child \ refusable, c \in Row, Own(c) # {}
                 PROVE  /\ c \notin rows => Own(c) \subseteq refusable
                        /\ c \in rows => parent[c] \in Own(c) \cup {NoParent}
        BY DEF ChildFollowsItsOwn, LineageInv, Inputs
    <2>1. rows = Closed(Row \ refusable)
        BY DEF LineageInv, Phases, Swept
    <2>2. CASE parent[c] = NoParent
        <3>1. AllAnchored({c})
            BY <2>2 DEF AllAnchored, Anchored
        <3> QED BY <2>1, <2>2, <3>1, InClosed
    <2>3. CASE parent[c] # NoParent
        <3>1. Candidates(c) = {parent[c]}
            BY <2>3 DEF LineageInv, Joined
        <3>2. Own(c) = {parent[c]}
            BY <3>1 DEF Own
        <3>3. parent[c] \in Row /\ parent[c] \notin world.child
            BY <3>1 DEF Candidates
        <3>4. parent[parent[c]] = NoParent
            BY <3>3 DEF LineageInv, Joined
        <3>5. AllAnchored({c, parent[c]})
            BY <3>4 DEF AllAnchored, Anchored
        <3>6. parent[c] \notin refusable => c \in rows
            BY <2>1, <3>3, <3>5, InClosed
        <3> QED BY <3>2, <3>6
    <2> QED BY <2>2, <2>3
<1> QED BY <1>1, LineageInvariant, PTL
-----------------------------------------------------------------------------
(* What a list has left: two rounds of the sweep for each row not dropped   *)
(* yet, one more if the present pass has dropped a row, the rows before the  *)
(* cursor, and the phases to come.                                          *)
RoundsLeft == 2 * Cardinality(Row \ orphans) + (IF changed THEN 1 ELSE 0)
PassLeft == NumRows + 1 - at
PhaseLeft ==
  CASE pc = "join" -> 6 [] pc = "refuse" -> 5 [] pc = "sweep" -> 4
    [] pc = "drop" -> 3 [] pc = "check" -> 2 [] pc = "report" -> 1 [] pc = "done" -> 0

LineageLeft == RoundsLeft * (NumRows + 1) + PassLeft + PhaseLeft

LEMMA LowerRoundIsLess ==
  ASSUME NEW r \in Nat, NEW s \in Nat, NEW n \in Nat, s <= r, NEW a \in Nat, NEW b \in Nat,
         \/ b < a
         \/ s < r /\ b < a + n
  PROVE  s * n + b < r * n + a
<1>1. CASE s < r /\ b < a + n
  <2>1. PICK d \in Nat : r = s + 1 + d
    <3>1. r - s - 1 \in Nat /\ r = s + 1 + (r - s - 1)
      BY <1>1
    <3>2. QED
      BY <3>1
  <2>2. r * n = s * n + n + d * n /\ d * n \in Nat /\ s * n \in Nat
    BY <2>1
  <2>3. QED
    BY <1>1, <2>2
<1>2. CASE b < a
  <2>1. PICK d \in Nat : r = s + d
    <3>1. r - s \in Nat /\ r = s + (r - s)
      OBVIOUS
    <3>2. QED
      BY <3>1
  <2>2. r * n = s * n + d * n /\ d * n \in Nat /\ s * n \in Nat
    BY <2>1
  <2>3. QED
    BY <1>2, <2>2
<1>3. QED
  BY <1>1, <1>2

LEMMA RowsToDrop ==
  ASSUME NEW S \in SUBSET Row
  PROVE  /\ IsFiniteSet(Row \ S) /\ Cardinality(Row \ S) \in 0..NumRows
         /\ \A r \in Row \ S : Cardinality(Row \ (S \cup {r})) + 1 = Cardinality(Row \ S)
<1>1. IsFiniteSet(Row) /\ Cardinality(Row) = NumRows
  BY FS_Interval, LineageAssumption DEF Row
<1>2. /\ IsFiniteSet(Row \ S) /\ Cardinality(Row \ S) \in Nat
      /\ Cardinality(Row \ S) <= NumRows
  BY <1>1, FS_Subset, FS_CardinalityType
<1>3. ASSUME NEW r \in Row \ S
      PROVE  Cardinality(Row \ (S \cup {r})) + 1 = Cardinality(Row \ S)
  <2>1. Row \ (S \cup {r}) = (Row \ S) \ {r}
    OBVIOUS
  <2>2. Cardinality((Row \ S) \ {r}) = Cardinality(Row \ S) - 1
    BY <1>2, FS_RemoveElement
  <2>3. QED
    BY <1>2, <2>1, <2>2
<1>4. QED
  BY <1>1, <1>2, <1>3, LineageAssumption

LEMMA LineageLeftTypes ==
  ASSUME LineageTypeOK
  PROVE  /\ NumRows + 1 \in Nat /\ RoundsLeft \in 0..(2 * NumRows + 1)
         /\ PassLeft \in 0..NumRows /\ PhaseLeft \in 0..6
<1>1. orphans \in SUBSET Row
  BY DEF LineageTypeOK
<1>2. Cardinality(Row \ orphans) \in 0..NumRows
  BY <1>1, RowsToDrop
<1>3. QED
  BY <1>2, LineageAssumption DEF LineageTypeOK, RoundsLeft, PassLeft, PhaseLeft

LEMMA WorkDescends ==
  ASSUME NEW n \in Nat, NEW r \in Nat, NEW p \in Nat, NEW h \in Nat,
         NEW s \in Nat, NEW q \in Nat, NEW k \in Nat,
         s <= r, k <= h, q # p \/ k # h \/ s # r, q <= p \/ s # r, q <= n
  PROVE  s * (n + 1) + q + k < r * (n + 1) + p + h
<1>1. q + k \in Nat /\ p + h \in Nat /\ s * (n + 1) \in Nat /\ r * (n + 1) \in Nat
  OBVIOUS
<1>2. q + k < p + h \/ (s < r /\ q + k < (p + h) + (n + 1))
  OBVIOUS
<1>3. s * (n + 1) + (q + k) < r * (n + 1) + (p + h)
  BY <1>1, <1>2, LowerRoundIsLess
<1>4. QED
  BY <1>1, <1>3

LEMMA WorkBounded ==
  ASSUME NEW n \in Nat, NEW r \in 0..(2 * n + 1), NEW p \in 0..n, NEW h \in 0..6
  PROVE  r * (n + 1) + p + h \in 0 .. (2 * n + 1) * (n + 1) + n + 6
<1>1. r * (n + 1) + 0 < (2 * n + 1) * (n + 1) + 1
  BY LowerRoundIsLess
<1>2. r * (n + 1) \in Nat /\ (2 * n + 1) * (n + 1) \in Nat
  OBVIOUS
<1>3. QED
  BY <1>1, <1>2

LEMMA LineageLeftBounded ==
  ASSUME LineageTypeOK
  PROVE  LineageLeft \in 0 .. (2 * NumRows + 1) * (NumRows + 1) + NumRows + 6
BY LineageLeftTypes, WorkBounded, LineageAssumption DEF LineageLeft

LEMMA LineageStepDescends ==
  ASSUME LineageTypeOK, LineageTypeOK', LineageNext PROVE LineageLeft' < LineageLeft
<1>t. /\ NumRows \in Nat /\ RoundsLeft \in Nat /\ PassLeft \in Nat /\ PhaseLeft \in Nat
      /\ RoundsLeft' \in Nat /\ PassLeft' \in Nat /\ PhaseLeft' \in Nat
      /\ PassLeft' <= NumRows
  <2>1. Cardinality(Row \ orphans') \in 0..NumRows
    BY RowsToDrop DEF LineageTypeOK
  <2>2. RoundsLeft' \in Nat /\ PassLeft' \in Nat /\ PhaseLeft' \in Nat /\ PassLeft' <= NumRows
    BY <2>1, LineageAssumption DEF LineageTypeOK, RoundsLeft, PassLeft, PhaseLeft, Row
  <2>3. QED
    BY <2>2, LineageLeftTypes, LineageAssumption
<1>d. /\ Cardinality(Row \ orphans) \in Nat
      /\ \A r \in Row \ orphans :
           /\ Cardinality(Row \ (orphans \cup {r})) \in Nat
           /\ Cardinality(Row \ (orphans \cup {r})) + 1 = Cardinality(Row \ orphans)
  <2>1. orphans \in SUBSET Row
    BY DEF LineageTypeOK
  <2>2. \A r \in Row \ orphans : Cardinality(Row \ (orphans \cup {r})) \in 0..NumRows
    BY <2>1, RowsToDrop
  <2>3. QED
    BY <1>t, <2>1, <2>2, RowsToDrop
<1>1. CASE Visit
  <2>1. PassLeft' <= PassLeft /\ PassLeft' # PassLeft /\ PhaseLeft' <= PhaseLeft
    BY <1>1, LineageAssumption DEF Visit, PassLeft, PhaseLeft, Row
  <2>2. RoundsLeft' <= RoundsLeft
    <3>1. CASE UNCHANGED <<orphans, changed>>
      BY <1>t, <3>1 DEF RoundsLeft, Row
    <3>2. CASE at \in Row \ orphans /\ orphans' = orphans \cup {at} /\ changed'
      BY <1>d, <3>2 DEF RoundsLeft, Row
    <3>3. QED
      BY <1>1, <3>1, <3>2 DEF Visit, Kept
  <2>3. QED
    BY <1>t, <2>1, <2>2, WorkDescends DEF LineageLeft
<1>2. CASE SweepAgain
  <2>1. orphans' = orphans /\ changed /\ ~changed'
    BY <1>2 DEF SweepAgain, NoChange
  <2>2. RoundsLeft' <= RoundsLeft /\ RoundsLeft' # RoundsLeft
    BY <1>d, <2>1 DEF RoundsLeft, Row
  <2>3. PhaseLeft' <= PhaseLeft
    BY <1>t, <1>2 DEF SweepAgain, PhaseLeft
  <2>4. QED
    BY <1>t, <2>2, <2>3, WorkDescends DEF LineageLeft
<1>3. CASE JoinParents \/ Refuse \/ SweepEnds \/ DropRefusable \/ Check \/ WriteUnsupported
  <2>1. UNCHANGED <<orphans, at, changed>>
    BY <1>3 DEF JoinParents, Refuse, SweepEnds, DropRefusable, Check, WriteUnsupported, sweep
  <2>2. RoundsLeft' <= RoundsLeft /\ PassLeft' <= PassLeft
    BY <1>t, <2>1 DEF RoundsLeft, PassLeft, Row
  <2>3. PhaseLeft' <= PhaseLeft /\ PhaseLeft' # PhaseLeft
    BY <1>t, <1>3 DEF JoinParents, Refuse, SweepEnds, DropRefusable, Check, WriteUnsupported,
       PhaseLeft
  <2>4. QED
    BY <1>t, <2>2, <2>3, WorkDescends DEF LineageLeft
<1>4. QED
  BY <1>1, <1>2, <1>3 DEF LineageNext

(* The sweep has no cycle, although it starts over after every pass that    *)
(* dropped a row: a row is dropped once, so whatever the parentage every    *)
(* step of the passes uses up a part of a finite amount of work.            *)
THEOREM LineagesAreFinite ==
  LineageSpec => [](LineageLeft \in 0 .. (2 * NumRows + 1) * (NumRows + 1) + NumRows + 6)
                 /\ [][LineageLeft' < LineageLeft]_lineageVars
<1>1. LineageTypeOK => LineageLeft \in 0 .. (2 * NumRows + 1) * (NumRows + 1) + NumRows + 6
  BY LineageLeftBounded
<1>2. LineageTypeOK /\ LineageTypeOK' /\ [LineageNext]_lineageVars
        => [LineageLeft' < LineageLeft]_lineageVars
  BY LineageStepDescends
<1>3. QED
  BY <1>1, <1>2, LineageTypeCorrect, PTL DEF LineageSpec
=============================================================================
