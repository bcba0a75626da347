------------------------- MODULE RegionStacksProofs -------------------------
(***************************************************************************)
(* Proofs about the region stacks, for every number of regions, resources  *)
(* and passes and every limit.                                             *)
(***************************************************************************)
EXTENDS RegionStacks, FiniteSetTheorems, TLAPS

Phases == {"caller", "warmup", "genconfig", "select", "driftfix", "done", "error"}

(* Which goroutines a phase may have, and who may install terraform. *)
LayoutInv ==
  /\ NobodyLeftBehind
  /\ phase = "warmup" => Cardinality(Groups(set)) > 1
  /\ phase = "genconfig" =>
       /\ task[Parent] # "none" => Cardinality(Groups(set)) <= 1
       /\ installed \/ \A r \in Region : task[r] = "none"
  /\ \A d \in Dir : task[d] = "installing" => d = Parent

(* Stale files are harmless: until the parent once was a stack, the region  *)
(* files hold nothing but the current set, and what a region no longer has  *)
(* is not in them.                                                          *)
NothingStale ==
  Parent \notin providers =>
    /\ phase \in {"caller", "warmup"} => \A r \in Region : Blocks(r) \subseteq set
    /\ phase \in {"select", "driftfix"} =>
         \A r \in Region : Blocks(r) \subseteq set /\ (Blocks(r) # {} => Plannable(r))
    /\ phase = "genconfig" /\ task[Parent] = "none" =>
         \A r \in Region : task[r] = "none" => Blocks(r) = {}

(* How far a goroutine has brought the files of its directory. *)
TaskFiles ==
  /\ phase = "genconfig" => \A d \in Dir :
       /\ task[d] \notin {"none", "waiting"} => d \in providers
       /\ task[d] = "ok" => d \in hasGen
  /\ phase = "driftfix" => \A d \in Dir :
       task[d] = "ok" => generated[d] = Blocks(d) \X {"fixed"}

(* Driftfix works on everything there is, in one layout or the other. *)
StacksCoverTheSet ==
  /\ phase \in {"select", "driftfix"} =>
       Parent \in hasGen /\ Blocks(Parent) = set
  /\ phase \in {"select", "driftfix"} /\ Parent \notin providers =>
       set \subseteq UNION {Blocks(r) : r \in Region}
  /\ phase = "driftfix" =>
       \/ Tasks = {Parent}
       \/ /\ Parent \notin providers
          /\ Tasks = {r \in Region : Plannable(r)}

FilesInv ==
  /\ NothingStale /\ TaskFiles /\ StacksCoverTheSet
  /\ ParentIsTheConvergedSet

(* What the steps below start from. *)
Base == TypeOK /\ LayoutInv /\ RegionsApart
-----------------------------------------------------------------------------
(* The steps by what they do to the goroutines. *)
TaskSteps ==
  \E d \in Dir : \/ StartGenconfig(d) \/ StartDriftfix(d) \/ Installed(d)
                 \/ Generate(d) \/ InitFails(d) \/ GenerateFails(d)
                 \/ Converge(d) \/ DriftfixFails(d)

LEMMA ParentIsNoRegion == Parent \in Dir /\ Parent \notin Region /\ Region \subseteq Dir
BY RegionStacksAssumption DEF Dir

LEMMA DirsAreDirs == \A R : Dirs(R) \subseteq Dir
BY DEF Dirs, Groups, Dir

LEMMA DirIsFinite == IsFiniteSet(Dir)
BY RegionStacksAssumption, FS_AddElement DEF Dir

-----------------------------------------------------------------------------
LEMMA TypeInit == Init => TypeOK
BY RegionStacksAssumption DEF Init, TypeOK, NoTasks

LEMMA TypeStep == TypeOK /\ [Next]_vars => TypeOK'
<1> SUFFICES ASSUME TypeOK, [Next]_vars PROVE TypeOK'
    OBVIOUS
<1> USE DEF TypeOK
<1>1. \A D : Waiting(D) \in [Dir -> {"none", "waiting", "installing", "running", "ok", "err"}]
    BY DEF Waiting
<1>2. NoTasks \in [Dir -> {"none", "waiting", "installing", "running", "ok", "err"}]
    BY DEF NoTasks
<1>3. \A D : Merged(D) \in [Dir -> SUBSET (Resource \X {"raw", "fixed"})]
    <2>1. \A D : UNION {generated[d] : d \in D \cap hasGen} \in SUBSET (Resource \X {"raw", "fixed"})
        OBVIOUS
    <2> QED BY <2>1, ParentIsNoRegion DEF Merged
<1>4. \A d \in Dir : Blocks(d) \in SUBSET Resource
    BY DEF Blocks
<1>5. ASSUME NEW A \in SUBSET Resource, Grow(A) PROVE TypeOK'
    BY <1>1, <1>2, <1>5, RegionStacksAssumption DEF Grow, files
<1>6. CASE CallerEnds \/ WarmUp \/ WarmUpFails \/ PhaseFails \/ SelectStacks
    BY <1>1, <1>2, <1>6
       DEF CallerEnds, WarmUp, WarmUpFails, PhaseFails, SelectStacks, InstallFirst, files
<1>7. ASSUME NEW d \in Dir, StartGenconfig(d) PROVE TypeOK'
    <2>1. Share(set, d) \in SUBSET Resource
        BY DEF Share, Group
    <2> QED BY <1>7, <2>1 DEF StartGenconfig, EmitImports, EmitProviders
<1>8. ASSUME NEW d \in Dir,
             StartDriftfix(d) \/ Installed(d) \/ InitFails(d) \/ DriftfixFails(d)
      PROVE  TypeOK'
    BY <1>8 DEF StartDriftfix, Installed, InitFails, DriftfixFails, files
<1>9. ASSUME NEW d \in Dir, Generate(d) PROVE TypeOK'
    BY <1>9 DEF Generate, PruneUnimportable, PruneOrphanImports
<1>10. ASSUME NEW d \in Dir, GenerateFails(d) PROVE TypeOK'
    BY <1>10 DEF GenerateFails
<1>11. ASSUME NEW d \in Dir, Converge(d) PROVE TypeOK'
    BY <1>4, <1>11 DEF Converge
<1>12. CASE GenconfigReturns
    BY <1>2, <1>3, <1>4, <1>12, ParentIsNoRegion DEF GenconfigReturns, Tasks
<1>13. CASE DriftfixReturns
    BY <1>2, <1>3, <1>13 DEF DriftfixReturns, Remerge
<1>14. CASE UNCHANGED vars
    BY <1>14 DEF vars
<1> QED
    BY <1>5, <1>6, <1>7, <1>8, <1>9, <1>10, <1>11, <1>12, <1>13, <1>14 DEF Next

(* Every variable stays in its range: groupResourcesByRegion and both fan-  *)
(* outs only ever name the workdir and the directory of a region.           *)
THEOREM TypeCorrect == Spec => []TypeOK
<1>1. Init => TypeOK
    BY TypeInit
<1>2. TypeOK /\ [Next]_vars => TypeOK'
    BY TypeStep
<1> QED BY <1>1, <1>2, PTL DEF Spec
-----------------------------------------------------------------------------
LEMMA FewerActive ==
  ASSUME TypeOK, WithinLimit, Active' \subseteq Active
  PROVE  WithinLimit'
<1>1. IsFiniteSet(Active)
    BY DirIsFinite, FS_Subset DEF Active
<1>2. Cardinality(Active') <= Cardinality(Active) /\ Cardinality(Active') \in Nat
      /\ Cardinality(Active) \in Nat
    BY <1>1, FS_Subset, FS_CardinalityType
<1> QED BY <1>2, RegionStacksAssumption DEF WithinLimit

LEMMA OneMoreActive ==
  ASSUME TypeOK, FreeSlot, NEW d \in Dir, Active' \subseteq Active \cup {d}
  PROVE  WithinLimit'
<1>1. IsFiniteSet(Active)
    BY DirIsFinite, FS_Subset DEF Active
<1>2. IsFiniteSet(Active \cup {d})
      /\ Cardinality(Active \cup {d}) <= Cardinality(Active) + 1
    BY <1>1, FS_AddElement, FS_CardinalityType
<1>3. Cardinality(Active') <= Cardinality(Active \cup {d}) /\ Cardinality(Active') \in Nat
      /\ Cardinality(Active) \in Nat /\ Cardinality(Active \cup {d}) \in Nat
    BY <1>1, <1>2, FS_Subset, FS_CardinalityType
<1> QED BY <1>2, <1>3, RegionStacksAssumption DEF WithinLimit, FreeSlot

LEMMA LimitStep == TypeOK /\ WithinLimit /\ [Next]_vars => WithinLimit'
<1> SUFFICES ASSUME TypeOK, WithinLimit, [Next]_vars PROVE WithinLimit'
    OBVIOUS
<1>1. ASSUME NEW d \in Dir, StartGenconfig(d) \/ StartDriftfix(d) PROVE WithinLimit'
    <2>1. FreeSlot /\ Active' \subseteq Active \cup {d}
        BY <1>1 DEF StartGenconfig, StartDriftfix, Active, TypeOK
    <2> QED BY <2>1, OneMoreActive
<1>2. ASSUME NEW d \in Dir,
             Installed(d) \/ Generate(d) \/ InitFails(d) \/ GenerateFails(d)
               \/ Converge(d) \/ DriftfixFails(d)
      PROVE  WithinLimit'
    <2>1. Active' \subseteq Active
        BY <1>2 DEF Installed, Generate, InitFails, GenerateFails, Converge, DriftfixFails,
                    Active, TypeOK
    <2> QED BY <2>1, FewerActive
<1>3. ASSUME NEW A \in SUBSET Resource, Grow(A) PROVE WithinLimit'
    <2>1. Active' = {}
        BY <1>3 DEF Grow, Active, NoTasks, Waiting
    <2> QED BY <2>1, FewerActive
<1>4. CASE WarmUp \/ GenconfigReturns \/ SelectStacks \/ DriftfixReturns
    <2>1. Active' = {}
        BY <1>4 DEF WarmUp, GenconfigReturns, SelectStacks, DriftfixReturns, Active, NoTasks, Waiting
    <2> QED BY <2>1, FewerActive
<1>5. CASE CallerEnds \/ WarmUpFails \/ PhaseFails \/ UNCHANGED vars
    <2>1. Active' = Active
        BY <1>5 DEF CallerEnds, WarmUpFails, PhaseFails, vars, Active
    <2> QED BY <2>1, FewerActive
<1> QED BY <1>1, <1>2, <1>3, <1>4, <1>5 DEF Next

(* At most Limit terraform processes, whatever fails while others wait: the *)
(* SetLimit of runMultiRegion and runMultiStack.                            *)
THEOREM LimitHolds == Spec => []WithinLimit
<1>1. Init => WithinLimit
    <2>1. Init => Active = {}
        BY DEF Init, Active, NoTasks
    <2> QED BY <2>1, FS_EmptySet, RegionStacksAssumption DEF WithinLimit
<1>2. TypeOK /\ WithinLimit /\ [Next]_vars => WithinLimit'
    BY LimitStep
<1> QED BY <1>1, <1>2, TypeCorrect, PTL DEF Spec
-----------------------------------------------------------------------------
LEMMA GroupsAreFinite == \A R : IsFiniteSet(Groups(R)) /\ Cardinality(Groups(R)) \in Nat
BY RegionStacksAssumption, FS_Subset, FS_CardinalityType DEF Groups

(* A set laid out in the workdir itself is a set of one region. *)
LEMMA OneRegion ==
  ASSUME NEW R \in SUBSET Resource, Cardinality(Groups(R)) <= 1,
         NEW x \in R, NEW y \in R
  PROVE  RegionOf[x] = RegionOf[y]
<1> SUFFICES ASSUME RegionOf[x] # RegionOf[y] PROVE FALSE
    OBVIOUS
<1> DEFINE P == {RegionOf[x]} \cup {RegionOf[y]}
<1>1. P \subseteq Groups(R)
    BY RegionStacksAssumption DEF Groups, Group
<1>2. Cardinality(P) = 2
    <2>1. IsFiniteSet({RegionOf[x]}) /\ Cardinality({RegionOf[x]}) = 1
        BY FS_Singleton
    <2>2. RegionOf[y] \notin {RegionOf[x]}
        OBVIOUS
    <2> QED BY <2>1, <2>2, FS_AddElement
<1>3. Cardinality(P) <= Cardinality(Groups(R))
    BY <1>1, GroupsAreFinite, FS_Subset
<1> QED BY <1>2, <1>3, GroupsAreFinite

LEMMA LayoutInit == Init => LayoutInv
BY ParentIsNoRegion DEF Init, LayoutInv, NobodyLeftBehind, Active, NoTasks

LEMMA LayoutStep == TypeOK /\ LayoutInv /\ [Next]_vars => LayoutInv'
<1> SUFFICES ASSUME TypeOK, LayoutInv, [Next]_vars PROVE LayoutInv'
    OBVIOUS
<1> USE DEF LayoutInv, NobodyLeftBehind, Active
<1>1. ASSUME NEW A \in SUBSET Resource, Grow(A) PROVE LayoutInv'
    <2>1. \A d \in Dir : task'[d] \in {"none", "waiting"}
        BY <1>1 DEF Grow, NoTasks, Waiting
    <2>2. \A r \in Region : task'[r] = "none"
        BY <1>1, ParentIsNoRegion DEF Grow, NoTasks, Waiting
    <2>3. phase' = "warmup" => Cardinality(Groups(set')) > 1
        BY <1>1 DEF Grow
    <2>4. phase' = "genconfig" => Cardinality(Groups(set')) <= 1
        BY <1>1, GroupsAreFinite DEF Grow
    <2>5. phase' \in {"warmup", "genconfig"}
        BY <1>1 DEF Grow
    <2> QED BY <2>1, <2>2, <2>3, <2>4, <2>5
<1>2. CASE WarmUp
    <2>1. Parent \notin Dirs(set)
        BY <1>2, ParentIsNoRegion DEF WarmUp, Dirs, Groups
    <2>2. \A d \in Dir : task'[d] \in {"none", "waiting"}
        BY <1>2 DEF WarmUp, Waiting
    <2>3. task'[Parent] = "none" /\ installed' /\ phase' = "genconfig"
        BY <1>2, <2>1, ParentIsNoRegion DEF WarmUp, Waiting, InstallFirst
    <2> QED BY <2>2, <2>3
<1>3. CASE CallerEnds \/ WarmUpFails
    BY <1>3 DEF CallerEnds, WarmUpFails
<1>4. CASE PhaseFails
    BY <1>4 DEF PhaseFails, AllReturned, Tasks
<1>5. CASE GenconfigReturns \/ DriftfixReturns
    <2>1. \A d \in Dir : task'[d] = "none"
        BY <1>5 DEF GenconfigReturns, DriftfixReturns, NoTasks
    <2>2. phase' \in {"select", "caller"}
        BY <1>5 DEF GenconfigReturns, DriftfixReturns
    <2> QED BY <2>1, <2>2
<1>6. CASE SelectStacks
    <2>1. \A d \in Dir : task'[d] \in {"none", "waiting"}
        BY <1>6 DEF SelectStacks, Waiting
    <2>2. phase' = "driftfix"
        BY <1>6 DEF SelectStacks
    <2> QED BY <2>1, <2>2
<1>7. ASSUME NEW d \in Dir, StartGenconfig(d) PROVE LayoutInv'
    <2>1. phase = "genconfig" /\ task[d] = "waiting" /\ phase' = phase /\ set' = set
          /\ installed' = installed
          /\ task' = [task EXCEPT ![d] = IF Cancelled THEN "err"
                                         ELSE IF installed THEN "running" ELSE "installing"]
        BY <1>7 DEF StartGenconfig
    <2>2. ~installed => d = Parent
        BY <2>1 DEF Dir
    <2>3. task'[d] = "installing" => d = Parent
        BY <2>1, <2>2 DEF TypeOK
    <2> QED BY <2>1, <2>2, <2>3, ParentIsNoRegion DEF TypeOK
<1>8. ASSUME NEW d \in Dir, StartDriftfix(d) \/ Converge(d) \/ DriftfixFails(d) PROVE LayoutInv'
    BY <1>8 DEF StartDriftfix, Converge, DriftfixFails, TypeOK
<1>9. ASSUME NEW d \in Dir, Installed(d) PROVE LayoutInv'
    BY <1>9, ParentIsNoRegion DEF Installed, TypeOK
<1>10. ASSUME NEW d \in Dir, Generate(d) \/ InitFails(d) \/ GenerateFails(d) PROVE LayoutInv'
    <2>1. phase = "genconfig" /\ task[d] # "none" /\ phase' = phase /\ set' = set
          /\ installed' = installed
        BY <1>10 DEF Generate, InitFails, GenerateFails
    <2>2. \E v \in {"ok", "err"} : task' = [task EXCEPT ![d] = v]
        BY <1>10 DEF Generate, InitFails, GenerateFails
    <2> QED BY <2>1, <2>2, ParentIsNoRegion DEF TypeOK
<1>11. CASE UNCHANGED vars
    BY <1>11 DEF vars, Groups, Group
<1> QED BY <1>1, <1>2, <1>3, <1>4, <1>5, <1>6, <1>7, <1>8, <1>9, <1>10, <1>11 DEF Next

(* Which goroutines a phase may have, and that only the one of the parent   *)
(* ever installs terraform.                                                 *)
THEOREM LayoutHolds == Spec => []LayoutInv
<1>1. TypeOK /\ LayoutInv /\ [Next]_vars => LayoutInv'
    BY LayoutStep
<1> QED BY <1>1, LayoutInit, TypeCorrect, PTL DEF Spec

(* When a phase is over, none of its goroutines works on a directory any    *)
(* more, however the others fared: errgroup's Wait in runMultiRegion and    *)
(* runMultiStack.                                                           *)
THEOREM NobodyIsLeftBehind == Spec => []NobodyLeftBehind
<1>1. LayoutInv => NobodyLeftBehind
    BY DEF LayoutInv
<1> QED BY <1>1, LayoutHolds, PTL

(* Terraform is never installed by two goroutines at once: after the        *)
(* warm-up of runMultiRegion only the stack at the workdir can find it      *)
(* missing.                                                                 *)
THEOREM NobodyElseInstalls == Spec => []InstallsAlone
<1>1. LayoutInv => InstallsAlone
    <2> SUFFICES ASSUME LayoutInv PROVE InstallsAlone
        OBVIOUS
    <2>1. {d \in Dir : task[d] = "installing"} \subseteq {Parent}
        BY DEF LayoutInv
    <2>2. Cardinality({Parent}) = 1 /\ IsFiniteSet({Parent})
        BY FS_Singleton
    <2> QED BY <2>1, <2>2, FS_Subset, FS_CardinalityType DEF InstallsAlone
<1> QED BY <1>1, LayoutHolds, PTL
-----------------------------------------------------------------------------
LEMMA BlocksOfProduct == \A B, c : {b[1] : b \in B \X {c}} = B
<1> TAKE B, c
<1>1. ASSUME NEW x \in B PROVE x \in {b[1] : b \in B \X {c}}
    <2>1. <<x, c>> \in B \X {c} /\ <<x, c>>[1] = x
        OBVIOUS
    <2> QED BY <2>1
<1>2. ASSUME NEW x \in {b[1] : b \in B \X {c}} PROVE x \in B
    <2>1. PICK b \in B \X {c} : x = b[1]
        OBVIOUS
    <2> QED BY <2>1
<1> QED BY <1>1, <1>2

(* What becomes of the blocks when the parent is concatenated. *)
LEMMA BlocksMerged ==
  ASSUME TypeOK, NEW D \in SUBSET Dir, generated' = Merged(D)
  PROVE  /\ \A r \in Region : Blocks(r)' = Blocks(r)
         /\ Blocks(Parent)' = UNION {Blocks(d) : d \in D \cap hasGen}
<1>1. generated' = [generated EXCEPT ![Parent] = UNION {generated[d] : d \in D \cap hasGen}]
    BY DEF Merged
<1>2. \A r \in Region : generated'[r] = generated[r]
    BY <1>1, ParentIsNoRegion DEF TypeOK
<1>3. generated'[Parent] = UNION {generated[d] : d \in D \cap hasGen}
    BY <1>1, ParentIsNoRegion DEF TypeOK
<1>4. {b[1] : b \in UNION {generated[d] : d \in D \cap hasGen}}
        = UNION {{b[1] : b \in generated[d]} : d \in D \cap hasGen}
    OBVIOUS
<1> QED BY <1>2, <1>3, <1>4 DEF Blocks

(* The two steps that end a phase, as far as the files go. *)
LEMMA RegionFilesKept ==
  ASSUME TypeOK, GenconfigReturns \/ DriftfixReturns
  PROVE  \A r \in Region : Blocks(r)' = Blocks(r)
<1>1. generated' = generated \/ generated' = Merged(Tasks)
    BY DEF GenconfigReturns, DriftfixReturns, Remerge
<1>2. Tasks \subseteq Dir
    BY DEF Tasks
<1>3. CASE generated' = generated
    BY <1>3 DEF Blocks
<1> QED BY <1>1, <1>2, <1>3, BlocksMerged

(* The steps of a goroutine that change the files of its directory.         *)
LEMMA WorkOnFiles ==
  ASSUME TypeOK, NEW d \in Dir, Generate(d) \/ GenerateFails(d)
  PROVE  /\ \A e \in Dir \ {d} : Blocks(e)' = Blocks(e) /\ imports'[e] = imports[e]
         /\ Blocks(d)' \subseteq imports[d] /\ imports'[d] \subseteq imports[d]
         /\ phase = "genconfig" /\ phase' = phase /\ set' = set /\ providers' = providers
         /\ task[d] = "running"
<1>1. CASE Generate(d)
    <2>1. PICK B \in SUBSET imports[d], U \in SUBSET imports[d] :
            /\ generated' = [generated EXCEPT ![d] = (B \ U) \X {"raw"}]
            /\ imports' = [imports EXCEPT ![d] = (imports[d] \ U) \cap (B \ U)]
        BY <1>1 DEF Generate, PruneUnimportable, PruneOrphanImports, TypeOK
    <2>2. generated'[d] = (B \ U) \X {"raw"}
          /\ \A e \in Dir \ {d} : generated'[e] = generated[e] /\ imports'[e] = imports[e]
        BY <2>1 DEF TypeOK
    <2>3. imports'[d] \subseteq imports[d]
        BY <2>1 DEF TypeOK
    <2>4. Blocks(d)' = B \ U
        BY <2>2, BlocksOfProduct DEF Blocks
    <2>5. \A e \in Dir \ {d} : Blocks(e)' = Blocks(e)
        BY <2>2 DEF Blocks
    <2> QED BY <1>1, <2>2, <2>3, <2>4, <2>5 DEF Generate
<1>2. CASE GenerateFails(d)
    <2>1. PICK B \in SUBSET imports[d], I \in SUBSET imports[d] :
            /\ generated' = [generated EXCEPT ![d] = B \X {"raw"}]
            /\ imports' = [imports EXCEPT ![d] = I]
        <3>1. CASE generated' = [generated EXCEPT ![d] = {}] /\ imports' = imports
            <4>1. {} = {} \X {"raw"} /\ imports' = [imports EXCEPT ![d] = imports[d]]
                BY <3>1 DEF TypeOK
            <4> QED BY <3>1, <4>1
        <3> QED BY <1>2, <3>1 DEF GenerateFails
    <2>2. generated'[d] = B \X {"raw"} /\ imports'[d] = I
          /\ \A e \in Dir \ {d} : generated'[e] = generated[e] /\ imports'[e] = imports[e]
        BY <2>1 DEF TypeOK
    <2>3. Blocks(d)' = B
        BY <2>2, BlocksOfProduct DEF Blocks
    <2>4. \A e \in Dir \ {d} : Blocks(e)' = Blocks(e)
        BY <2>2 DEF Blocks
    <2> QED BY <1>2, <2>2, <2>3, <2>4 DEF GenerateFails
<1> QED BY <1>1, <1>2

LEMMA ConvergeKeepsBlocks ==
  ASSUME TypeOK, NEW d \in Dir, Converge(d)
  PROVE  /\ \A e \in Dir : Blocks(e)' = Blocks(e)
         /\ generated'[d] = Blocks(d) \X {"fixed"}
         /\ \A e \in Dir \ {d} : generated'[e] = generated[e]
<1>1. generated'[d] = Blocks(d) \X {"fixed"}
      /\ \A e \in Dir \ {d} : generated'[e] = generated[e]
    BY DEF Converge, TypeOK
<1>2. {b[1] : b \in generated'[d]} = Blocks(d)
    BY <1>1, BlocksOfProduct
<1>3. \A e \in Dir : Blocks(e)' = {b[1] : b \in generated'[e]}
    BY DEF Blocks
<1> QED BY <1>1, <1>2, <1>3 DEF Blocks

(* The steps that touch no block: all the others. *)
NoBlockStep ==
  \/ \E A \in SUBSET Resource : Grow(A)
  \/ CallerEnds \/ WarmUp \/ WarmUpFails \/ PhaseFails \/ SelectStacks \/ UNCHANGED vars
  \/ \E d \in Dir : StartGenconfig(d) \/ StartDriftfix(d) \/ Installed(d)
                     \/ InitFails(d) \/ DriftfixFails(d)

LEMMA BlocksKept == NoBlockStep => generated' = generated /\ hasGen' = hasGen
                                     /\ \A d : Blocks(d)' = Blocks(d)
BY DEF NoBlockStep, Grow, CallerEnds, WarmUp, WarmUpFails, PhaseFails, SelectStacks, vars, files,
       StartGenconfig, StartDriftfix, Installed, InitFails, DriftfixFails, Blocks

LEMMA StepKinds ==
  [Next]_vars => \/ NoBlockStep \/ GenconfigReturns \/ DriftfixReturns
                 \/ \E d \in Dir : Generate(d) \/ GenerateFails(d) \/ Converge(d)
BY DEF Next, NoBlockStep
-----------------------------------------------------------------------------
LEMMA ApartStep == TypeOK /\ LayoutInv /\ RegionsApart /\ [Next]_vars => RegionsApart'
<1> SUFFICES ASSUME TypeOK, LayoutInv, RegionsApart, [Next]_vars PROVE RegionsApart'
    OBVIOUS
<1>1. ASSUME NEW d \in Dir, StartGenconfig(d) PROVE RegionsApart'
    <2>1. /\ imports' = [imports EXCEPT ![d] = Share(set, d)]
          /\ generated' = generated /\ phase = "genconfig" /\ task[d] = "waiting"
        BY <1>1 DEF StartGenconfig, EmitImports
    <2>2. \A r \in Region : Blocks(r)' = Blocks(r)
        BY <2>1 DEF Blocks
    <2>3. CASE d = Parent
        <3>1. Cardinality(Groups(set)) <= 1 /\ imports'[Parent] = set
            BY <2>1, <2>3 DEF LayoutInv, Share, TypeOK
        <3>2. \A x, y \in imports'[Parent] : RegionOf[x] = RegionOf[y]
            BY <3>1, OneRegion DEF TypeOK
        <3>3. \A r \in Region : imports'[r] = imports[r]
            BY <2>1, <2>3, ParentIsNoRegion DEF TypeOK
        <3> QED BY <2>2, <3>2, <3>3 DEF RegionsApart
    <2>4. CASE d # Parent
        <3>1. imports'[d] = Group(set, d) /\ imports'[Parent] = imports[Parent]
              /\ \A r \in Region \ {d} : imports'[r] = imports[r]
            BY <2>1, <2>4, ParentIsNoRegion DEF Share, TypeOK
        <3> QED BY <2>2, <3>1 DEF RegionsApart, Group
    <2> QED BY <2>3, <2>4
<1>2. CASE NoBlockStep /\ imports' = imports
    BY <1>2, BlocksKept DEF RegionsApart
<1>3. CASE GenconfigReturns \/ DriftfixReturns
    <2>1. imports' = imports
        BY <1>3 DEF GenconfigReturns, DriftfixReturns
    <2> QED BY <1>3, <2>1, RegionFilesKept DEF RegionsApart
<1>4. ASSUME NEW d \in Dir, Generate(d) \/ GenerateFails(d) PROVE RegionsApart'
    BY <1>4, WorkOnFiles, ParentIsNoRegion DEF RegionsApart
<1>5. ASSUME NEW d \in Dir, Converge(d) PROVE RegionsApart'
    BY <1>5, ConvergeKeepsBlocks, ParentIsNoRegion DEF RegionsApart, Converge
<1>6. NoBlockStep => imports' = imports \/ \E d \in Dir : StartGenconfig(d)
    BY DEF NoBlockStep, Grow, CallerEnds, WarmUp, WarmUpFails, PhaseFails, SelectStacks, vars, files,
           StartDriftfix, Installed, InitFails, DriftfixFails
<1> QED BY <1>1, <1>2, <1>3, <1>4, <1>5, <1>6, StepKinds

(* A resource is only ever configured in its own region, through every      *)
(* change between the one-region and the many-region layout of              *)
(* groupResourcesByRegion.                                                  *)
THEOREM RegionsStayApart == Spec => []RegionsApart
<1>1. Init => RegionsApart
    BY ParentIsNoRegion DEF Init, RegionsApart, Blocks
<1> QED BY <1>1, ApartStep, TypeCorrect, LayoutHolds, PTL DEF Spec
-----------------------------------------------------------------------------
LEMMA TaskFilesStep == Base /\ TaskFiles /\ [Next]_vars => TaskFiles'
<1> SUFFICES ASSUME Base, TaskFiles, [Next]_vars PROVE TaskFiles'
    OBVIOUS
<1> USE DEF Base, TaskFiles
<1>1. ASSUME NEW A \in SUBSET Resource, Grow(A) PROVE TaskFiles'
    BY <1>1 DEF Grow, NoTasks, Waiting
<1>2. CASE WarmUp \/ SelectStacks
    BY <1>2 DEF WarmUp, SelectStacks, Waiting
<1>3. CASE CallerEnds \/ WarmUpFails \/ PhaseFails \/ GenconfigReturns \/ DriftfixReturns
    BY <1>3 DEF CallerEnds, WarmUpFails, PhaseFails, GenconfigReturns, DriftfixReturns
<1>4. ASSUME NEW d \in Dir, StartGenconfig(d) PROVE TaskFiles'
    BY <1>4 DEF StartGenconfig, EmitProviders, TypeOK
<1>5. ASSUME NEW d \in Dir, StartDriftfix(d) \/ DriftfixFails(d) PROVE TaskFiles'
    <2>1. \A e : Blocks(e)' = Blocks(e)
        BY <1>5, BlocksKept DEF NoBlockStep
    <2> QED BY <1>5, <2>1 DEF StartDriftfix, DriftfixFails, TypeOK, files
<1>6. ASSUME NEW d \in Dir, Installed(d) PROVE TaskFiles'
    <2>1. \A e : Blocks(e)' = Blocks(e)
        BY <1>6, BlocksKept DEF NoBlockStep
    <2>2. \A e \in Dir : task'[e] # "none" /\ task'[e] # "waiting" =>
             task[e] # "none" /\ task[e] # "waiting"
        BY <1>6 DEF Installed, TypeOK
    <2>3. \A e \in Dir : task'[e] = "ok" => task[e] = "ok"
        BY <1>6 DEF Installed, TypeOK
    <2> QED BY <1>6, <2>1, <2>2, <2>3 DEF Installed, files
<1>7. ASSUME NEW d \in Dir, Generate(d) PROVE TaskFiles'
    BY <1>7 DEF Generate, TypeOK
<1>8. ASSUME NEW d \in Dir, InitFails(d) PROVE TaskFiles'
    BY <1>8 DEF InitFails, TypeOK, files
<1>9. ASSUME NEW d \in Dir, GenerateFails(d) PROVE TaskFiles'
    <2>1. \A e \in Dir \ {d} : e \in hasGen => e \in hasGen'
        BY <1>9 DEF GenerateFails
    <2>2. task' = [task EXCEPT ![d] = "err"] /\ phase' = "genconfig" /\ providers' = providers
          /\ task[d] = "running" /\ phase = "genconfig"
        BY <1>9 DEF GenerateFails
    <2> QED BY <2>1, <2>2 DEF TypeOK
<1>10. ASSUME NEW d \in Dir, Converge(d) PROVE TaskFiles'
    <2>1. /\ task' = [task EXCEPT ![d] = "ok"] /\ phase' = "driftfix" /\ phase = "driftfix"
        BY <1>10 DEF Converge
    <2> QED BY <1>10, <2>1, ConvergeKeepsBlocks DEF TypeOK
<1>11. CASE UNCHANGED vars
    <2>1. \A e : Blocks(e)' = Blocks(e)
        BY <1>11, BlocksKept DEF NoBlockStep
    <2> QED BY <1>11, <2>1 DEF vars
<1> QED
    BY <1>1, <1>2, <1>3, <1>4, <1>5, <1>6, <1>7, <1>8, <1>9, <1>10, <1>11 DEF Next

(* What genconfig leaves behind when every region returned. *)
LEMMA WhatGenconfigLeaves ==
  ASSUME Base, TaskFiles, NothingStale, GenconfigReturns
  PROVE  /\ Parent \in hasGen' /\ Blocks(Parent)' = set'
         /\ Parent \notin providers =>
              /\ \A r \in Region : Blocks(r)' \subseteq set'
              /\ \A r \in Region : Blocks(r)' # {} => Plannable(r)'
              /\ set' \subseteq UNION {Blocks(r)' : r \in Region}
<1> USE DEF Base
<1>1. Tasks \subseteq Dir /\ \A d \in Tasks : task[d] = "ok"
    BY DEF GenconfigReturns, AllReturned, Cancelled, Tasks
<1>2. \A d \in Tasks : d \in providers /\ d \in hasGen
    BY <1>1 DEF GenconfigReturns, TaskFiles
<1>3. providers' = providers /\ set' = UNION {Blocks(d) : d \in Tasks}
      /\ \A r \in Region : Blocks(r)' = Blocks(r)
    BY RegionFilesKept DEF GenconfigReturns
<1>4. CASE Tasks = {Parent}
    <2>1. Blocks(Parent)' = Blocks(Parent) /\ Parent \in hasGen' /\ set' = Blocks(Parent)
        BY <1>2, <1>3, <1>4 DEF GenconfigReturns, Blocks
    <2> QED BY <1>2, <1>4, <2>1
<1>5. CASE Tasks # {Parent}
    <2>1. hasGen' = hasGen \cup {Parent} /\ generated' = Merged(Tasks)
        BY <1>5 DEF GenconfigReturns
    <2>2. Tasks \cap hasGen = Tasks
        BY <1>2
    <2>3. Blocks(Parent)' = set'
        BY <1>1, <1>3, <2>1, <2>2, BlocksMerged
    <2>4. ASSUME Parent \notin providers
          PROVE  /\ \A r \in Region : Blocks(r)' \subseteq set'
                 /\ \A r \in Region : Blocks(r)' # {} => Plannable(r)'
                 /\ set' \subseteq UNION {Blocks(r)' : r \in Region}
        <3>1. task[Parent] = "none"
            BY <1>2, <2>4, ParentIsNoRegion DEF Tasks
        <3>2. \A r \in Region : Blocks(r) # {} => r \in Tasks
            BY <2>4, <3>1, ParentIsNoRegion DEF NothingStale, Tasks, GenconfigReturns
        <3>3. \A r \in Tasks : r \in Region /\ r \in providers' /\ r \in hasGen'
            BY <1>1, <1>2, <1>3, <2>1, <3>1 DEF Tasks, Dir
        <3>4. \A r \in Region : Blocks(r) \subseteq set'
            BY <1>3, <3>2
        <3>5. set' \subseteq UNION {Blocks(r) : r \in Region}
            BY <1>3, <3>3
        <3>6. UNION {Blocks(r)' : r \in Region} = UNION {Blocks(r) : r \in Region}
            BY <1>3
        <3> QED BY <1>3, <3>2, <3>3, <3>4, <3>5, <3>6 DEF Plannable
    <2> QED BY <2>1, <2>3, <2>4
<1> QED BY <1>4, <1>5

LEMMA StaleStep == Base /\ TaskFiles /\ NothingStale /\ [Next]_vars => NothingStale'
<1> SUFFICES ASSUME Base, TaskFiles, NothingStale, [Next]_vars, Parent \notin providers'
             PROVE  NothingStale'
    BY DEF NothingStale
<1> USE DEF Base
<1>1. ASSUME NEW A \in SUBSET Resource, Grow(A) PROVE NothingStale'
    <2>1. Parent \notin providers /\ \A r : Blocks(r)' = Blocks(r)
        BY <1>1, BlocksKept DEF Grow, files, NoBlockStep
    <2>2. CASE phase' = "warmup"
        BY <1>1, <2>1, <2>2 DEF Grow, NothingStale
    <2>3. CASE phase' = "genconfig" /\ task' = Waiting({Parent})
        BY <2>3, ParentIsNoRegion DEF NothingStale, Waiting
    <2> QED BY <1>1, <2>2, <2>3 DEF Grow
<1>2. CASE WarmUp
    <2>1. Parent \notin providers /\ \A r : Blocks(r)' = Blocks(r)
        BY <1>2, BlocksKept DEF WarmUp, files, NoBlockStep
    <2>2. Dirs(set) = Groups(set)
        BY <1>2 DEF WarmUp, LayoutInv, Dirs
    <2>3. ASSUME NEW r \in Region, task'[r] = "none" PROVE Blocks(r) = {}
        <3>1. r \notin Groups(set)
            BY <1>2, <2>2, <2>3, ParentIsNoRegion DEF WarmUp, Waiting
        <3>2. Group(set, r) = {}
            BY <3>1 DEF Groups
        <3>3. Blocks(r) \subseteq set /\ \A x \in Blocks(r) : RegionOf[x] = r
            BY <1>2, <2>1 DEF WarmUp, NothingStale, RegionsApart
        <3> QED BY <3>2, <3>3 DEF Group
    <2> QED BY <1>2, <2>1, <2>3 DEF WarmUp, NothingStale
<1>3. CASE CallerEnds \/ WarmUpFails \/ PhaseFails
    BY <1>3 DEF CallerEnds, WarmUpFails, PhaseFails, NothingStale
<1>4. CASE SelectStacks
    <2>1. \A r : Blocks(r)' = Blocks(r) /\ Plannable(r)' = Plannable(r)
        BY <1>4, BlocksKept DEF NoBlockStep, SelectStacks, files, Plannable
    <2> QED BY <1>4, <2>1 DEF SelectStacks, NothingStale, files
<1>5. CASE GenconfigReturns
    <2>1. providers' = providers /\ phase' = "select"
        BY <1>5 DEF GenconfigReturns
    <2> QED BY <1>5, <2>1, WhatGenconfigLeaves DEF NothingStale
<1>6. CASE DriftfixReturns
    BY <1>6, RegionFilesKept DEF DriftfixReturns, NothingStale
<1>7. ASSUME NEW d \in Dir, StartGenconfig(d) PROVE NothingStale'
    <2>1. Parent \notin providers /\ \A r : Blocks(r)' = Blocks(r)
        BY <1>7, BlocksKept DEF StartGenconfig, EmitProviders, NoBlockStep
    <2>2. \A e \in Dir : task'[e] = "none" <=> task[e] = "none"
        BY <1>7 DEF StartGenconfig, TypeOK
    <2> QED BY <1>7, <2>1, <2>2, ParentIsNoRegion DEF StartGenconfig, NothingStale
<1>8. ASSUME NEW d \in Dir,
             StartDriftfix(d) \/ Installed(d) \/ InitFails(d) \/ DriftfixFails(d)
      PROVE  NothingStale'
    <2>1. \A r : Blocks(r)' = Blocks(r) /\ Plannable(r)' = Plannable(r)
        BY <1>8, BlocksKept
           DEF NoBlockStep, StartDriftfix, Installed, InitFails, DriftfixFails, files, Plannable
    <2>2. \A e \in Dir : task'[e] = "none" <=> task[e] = "none"
        BY <1>8 DEF StartDriftfix, Installed, InitFails, DriftfixFails, TypeOK
    <2>3. phase' = phase /\ set' = set /\ providers' = providers
        BY <1>8 DEF StartDriftfix, Installed, InitFails, DriftfixFails, files
    <2> QED BY <2>1, <2>2, <2>3, ParentIsNoRegion DEF NothingStale
<1>9. ASSUME NEW d \in Dir, Generate(d) \/ GenerateFails(d) PROVE NothingStale'
    <2>1. \A e \in Dir : task'[e] = "none" <=> task[e] = "none"
        BY <1>9 DEF Generate, GenerateFails, TypeOK
    <2>2. \A e \in Dir : task'[e] = "none" => e # d
        BY <1>9 DEF Generate, GenerateFails, TypeOK
    <2> QED BY <1>9, <2>1, <2>2, WorkOnFiles, ParentIsNoRegion DEF NothingStale
<1>10. ASSUME NEW d \in Dir, Converge(d) PROVE NothingStale'
    <2>1. \A r \in Dir : Plannable(r)' = Plannable(r)
        BY <1>10 DEF Converge, Plannable
    <2> QED
        BY <1>10, <2>1, ConvergeKeepsBlocks, ParentIsNoRegion DEF Converge, NothingStale
<1>11. CASE UNCHANGED vars
    BY <1>11 DEF vars, NothingStale, Blocks, Plannable
<1> QED
    BY <1>1, <1>2, <1>3, <1>4, <1>5, <1>6, <1>7, <1>8, <1>9, <1>10, <1>11 DEF Next

LEMMA CoverStep ==
  Base /\ TaskFiles /\ NothingStale /\ StacksCoverTheSet /\ [Next]_vars => StacksCoverTheSet'
<1> SUFFICES ASSUME Base, TaskFiles, NothingStale, StacksCoverTheSet, [Next]_vars
             PROVE  StacksCoverTheSet'
    OBVIOUS
<1> USE DEF Base
<1>1. CASE GenconfigReturns
    <2>1. providers' = providers /\ phase' = "select"
        BY <1>1 DEF GenconfigReturns
    <2>2. UNION {Blocks(r)' : r \in Region} = (UNION {Blocks(r) : r \in Region})'
        OBVIOUS
    <2> QED BY <1>1, <2>1, <2>2, WhatGenconfigLeaves DEF StacksCoverTheSet
<1>2. CASE SelectStacks
    <2>1. \A r : Blocks(r)' = Blocks(r) /\ Plannable(r)' = Plannable(r)
        BY <1>2, BlocksKept DEF NoBlockStep, SelectStacks, files, Plannable
    <2>2. Tasks' = PlannableStacks
        <3>1. PlannableStacks \subseteq Dir
            BY ParentIsNoRegion DEF PlannableStacks
        <3> QED BY <1>2, <3>1 DEF SelectStacks, Tasks, Waiting
    <2>3. PlannableStacks # {Parent} =>
             Parent \notin providers /\ PlannableStacks = {r \in Region : Plannable(r)}
        BY <1>2 DEF PlannableStacks, StacksCoverTheSet, SelectStacks, Plannable
    <2> QED BY <1>2, <2>1, <2>2, <2>3 DEF SelectStacks, StacksCoverTheSet, files
<1>3. ASSUME NEW d \in Dir, StartDriftfix(d) \/ DriftfixFails(d) \/ Converge(d)
      PROVE  StacksCoverTheSet'
    <2>1. \A e \in Dir : Blocks(e)' = Blocks(e)
        BY <1>3, BlocksKept, ConvergeKeepsBlocks DEF NoBlockStep
    <2>2. Tasks' = Tasks /\ phase' = phase /\ set' = set /\ providers' = providers
          /\ hasGen' = hasGen
        BY <1>3 DEF StartDriftfix, DriftfixFails, Converge, Tasks, TypeOK, files
    <2> QED BY <2>1, <2>2, ParentIsNoRegion DEF StacksCoverTheSet, Plannable
<1>4. ASSUME phase' \notin {"select", "driftfix"} PROVE StacksCoverTheSet'
    BY <1>4 DEF StacksCoverTheSet
<1>5. ASSUME NEW d \in Dir,
             StartGenconfig(d) \/ Generate(d) \/ InitFails(d) \/ GenerateFails(d)
      PROVE  StacksCoverTheSet'
    BY <1>4, <1>5 DEF StartGenconfig, Generate, InitFails, GenerateFails
<1>6. ASSUME NEW d \in Dir, Installed(d) PROVE StacksCoverTheSet'
    <2>1. \A e \in Dir : Blocks(e)' = Blocks(e)
        BY <1>6, BlocksKept DEF NoBlockStep
    <2>2. Tasks' = Tasks /\ phase' = phase /\ set' = set /\ providers' = providers
          /\ hasGen' = hasGen
        BY <1>6 DEF Installed, Tasks, TypeOK, files
    <2> QED BY <2>1, <2>2, ParentIsNoRegion DEF StacksCoverTheSet, Plannable
<1>7. ASSUME \E A \in SUBSET Resource : Grow(A) PROVE StacksCoverTheSet'
    BY <1>4, <1>7 DEF Grow
<1>8. CASE CallerEnds \/ WarmUp \/ WarmUpFails \/ PhaseFails \/ DriftfixReturns
    BY <1>4, <1>8 DEF CallerEnds, WarmUp, WarmUpFails, PhaseFails, DriftfixReturns
<1>9. CASE UNCHANGED vars
    BY <1>9 DEF vars, StacksCoverTheSet, Blocks, Plannable, Tasks
<1> QED BY <1>1, <1>2, <1>3, <1>5, <1>6, <1>7, <1>8, <1>9 DEF Next

(* When driftfix returns, the file at the parent is what converged. *)
LEMMA WhatDriftfixLeaves ==
  ASSUME Base, TaskFiles, NothingStale, StacksCoverTheSet, DriftfixReturns
  PROVE  generated'[Parent] = set \X {"fixed"}
<1> USE DEF Base
<1>1. Tasks \subseteq Dir /\ \A d \in Tasks : generated[d] = Blocks(d) \X {"fixed"}
    BY DEF DriftfixReturns, AllReturned, Cancelled, Tasks, TaskFiles
<1>2. Blocks(Parent) = set /\ phase = "driftfix"
    BY DEF StacksCoverTheSet, DriftfixReturns
<1>3. CASE Tasks = {Parent}
    BY <1>1, <1>2, <1>3 DEF DriftfixReturns, Remerge
<1>4. CASE Tasks # {Parent}
    <2>1. Parent \notin providers /\ Tasks = {r \in Region : Plannable(r)}
        BY <1>2, <1>4 DEF StacksCoverTheSet
    <2>2. Tasks \cap hasGen = Tasks
        BY <2>1 DEF Plannable
    <2>3. generated'[Parent] = UNION {generated[d] : d \in Tasks}
        BY <1>4, <2>2, ParentIsNoRegion DEF DriftfixReturns, Remerge, Merged, TypeOK
    <2>4. UNION {generated[d] : d \in Tasks} = UNION {Blocks(d) \X {"fixed"} : d \in Tasks}
        BY <1>1
    <2>5. UNION {Blocks(d) : d \in Tasks} = set
        <3>1. \A r \in Region : Blocks(r) \subseteq set /\ (Blocks(r) # {} => r \in Tasks)
            BY <1>2, <2>1 DEF NothingStale
        <3>2. set \subseteq UNION {Blocks(r) : r \in Region}
            BY <1>2, <2>1 DEF StacksCoverTheSet
        <3> QED BY <2>1, <3>1, <3>2
    <2>6. UNION {Blocks(d) \X {"fixed"} : d \in Tasks} = (UNION {Blocks(d) : d \in Tasks}) \X {"fixed"}
        OBVIOUS
    <2> QED BY <2>3, <2>4, <2>5, <2>6
<1> QED BY <1>3, <1>4

LEMMA ConvergedStep == Base /\ FilesInv /\ [Next]_vars => ParentIsTheConvergedSet'
<1> SUFFICES ASSUME Base, FilesInv, [Next]_vars, phase' = "caller", passes' > 0
             PROVE  generated'[Parent] = set' \X {"fixed"}
    BY DEF ParentIsTheConvergedSet
<1>1. CASE DriftfixReturns
    BY <1>1, WhatDriftfixLeaves DEF FilesInv, DriftfixReturns
<1>2. CASE UNCHANGED vars
    BY <1>2 DEF FilesInv, ParentIsTheConvergedSet, vars
<1>3. ASSUME NEW d \in Dir, Installed(d) PROVE generated'[Parent] = set' \X {"fixed"}
    BY <1>3 DEF FilesInv, ParentIsTheConvergedSet, Installed, files
<1> QED
    BY <1>1, <1>2, <1>3
       DEF Next, Grow, CallerEnds, WarmUp, WarmUpFails, StartGenconfig, StartDriftfix, Generate,
           InitFails, GenerateFails, Converge, DriftfixFails, PhaseFails, GenconfigReturns,
           SelectStacks

(* Through every sequence of passes and changes of layout, with every       *)
(* leftover file of an earlier one, the generated.tf the dependency chase   *)
(* reads after a driftfix.Run is the converged configuration of exactly the *)
(* resources genconfig.Run returned.                                        *)
THEOREM ParentIsConverged == Spec => []ParentIsTheConvergedSet
<1>1. Init => FilesInv
    BY ParentIsNoRegion
       DEF Init, FilesInv, NothingStale, TaskFiles, StacksCoverTheSet, ParentIsTheConvergedSet, Blocks
<1>2. Base /\ FilesInv /\ [Next]_vars => FilesInv'
    BY TaskFilesStep, StaleStep, CoverStep, ConvergedStep DEF FilesInv
<1>3. TypeOK /\ LayoutInv /\ RegionsApart => Base
    BY DEF Base
<1>4. FilesInv => ParentIsTheConvergedSet
    BY DEF FilesInv
<1>5. Spec => [](TypeOK /\ LayoutInv /\ RegionsApart)
    BY TypeCorrect, LayoutHolds, RegionsStayApart, PTL
<1>6. Spec => []Base
    BY <1>3, <1>5, PTL
<1> QED BY <1>1, <1>2, <1>4, <1>6, PTL DEF Spec

(* The goroutines of a phase stay within their limit, never install         *)
(* terraform at the same time, and are all back when the phase is over.     *)
THEOREM WorkersStayContained == Spec => []WorkersContained
<1>1. WithinLimit /\ InstallsAlone /\ NobodyLeftBehind => WorkersContained
  BY DEF WorkersContained
<1> QED BY <1>1, LimitHolds, NobodyElseInstalls, NobodyIsLeftBehind, PTL
-----------------------------------------------------------------------------
(* Driftfix works on what plannableStacks chose, and the files it chose by  *)
(* stay while it works.                                                     *)
WorksOnTheChoice == phase = "driftfix" => Tasks = PlannableStacks

LEMMA ChoiceStep == TypeOK /\ WorksOnTheChoice /\ [Next]_vars => WorksOnTheChoice'
<1> SUFFICES ASSUME TypeOK, WorksOnTheChoice, [Next]_vars, phase' = "driftfix"
             PROVE  Tasks' = PlannableStacks'
    BY DEF WorksOnTheChoice
<1>1. CASE SelectStacks
    <2>1. PlannableStacks' = PlannableStacks
        BY <1>1 DEF SelectStacks, files, PlannableStacks, Plannable
    <2>2. PlannableStacks \subseteq Dir
        BY ParentIsNoRegion DEF PlannableStacks
    <2> QED BY <1>1, <2>1, <2>2 DEF SelectStacks, Tasks, Waiting
<1>2. ASSUME NEW d \in Dir, StartDriftfix(d) \/ Installed(d) \/ Converge(d) \/ DriftfixFails(d)
      PROVE  Tasks' = PlannableStacks'
    <2>1. phase' = phase /\ UNCHANGED <<providers, hasGen>>
        BY <1>2 DEF StartDriftfix, Installed, Converge, DriftfixFails, files
    <2>2. PlannableStacks' = PlannableStacks
        BY <2>1 DEF PlannableStacks, Plannable
    <2>3. Tasks' = Tasks
        BY <1>2 DEF StartDriftfix, Installed, Converge, DriftfixFails, Tasks, TypeOK
    <2> QED BY <2>1, <2>2, <2>3 DEF WorksOnTheChoice
<1>3. CASE UNCHANGED vars
    BY <1>3 DEF vars, WorksOnTheChoice, Tasks, PlannableStacks, Plannable
<1> QED
    BY <1>1, <1>2, <1>3
       DEF Next, Grow, CallerEnds, WarmUp, WarmUpFails, StartGenconfig, Generate, InitFails,
           GenerateFails, PhaseFails, GenconfigReturns, DriftfixReturns

(* A multi-region set is fixed region by region, as driftfix documents,     *)
(* exactly while no earlier pass has made the parent a stack: a providers.tf *)
(* left there by a single-region pass is the whole cause of the exception   *)
(* to MultiRegionIsFixedPerRegion, and it always has this effect.           *)
OnlyAStaleParentIsFixed ==
  phase = "driftfix" /\ Cardinality(Groups(set)) > 1 =>
    (Parent \in Tasks <=> Parent \in providers)

THEOREM StaleParentIsTheCause ==
  Spec => [](OnlyAStaleParentIsFixed /\ (Parent \notin providers => MultiRegionIsFixedPerRegion))
<1>1. Init => FilesInv /\ WorksOnTheChoice
    BY ParentIsNoRegion
       DEF Init, FilesInv, NothingStale, TaskFiles, StacksCoverTheSet, ParentIsTheConvergedSet, Blocks,
           WorksOnTheChoice
<1>2. Base /\ FilesInv /\ WorksOnTheChoice /\ [Next]_vars => FilesInv' /\ WorksOnTheChoice'
    BY TaskFilesStep, StaleStep, CoverStep, ConvergedStep, ChoiceStep DEF FilesInv, Base
<1>3. FilesInv /\ WorksOnTheChoice => OnlyAStaleParentIsFixed
    <2> SUFFICES ASSUME FilesInv, WorksOnTheChoice, phase = "driftfix", Cardinality(Groups(set)) > 1
                 PROVE  Parent \in Tasks <=> Parent \in providers
        BY DEF OnlyAStaleParentIsFixed
    <2>1. Tasks = PlannableStacks /\ Parent \in hasGen
        BY DEF WorksOnTheChoice, FilesInv, StacksCoverTheSet
    <2>2. CASE Parent \in providers
        BY <2>1, <2>2 DEF PlannableStacks, Plannable
    <2>3. CASE Parent \notin providers
        <3>1. set # {}
            <4>1. set = {} => Groups(set) = {}
                BY DEF Groups, Group
            <4> QED BY <4>1, FS_EmptySet
        <3>2. PICK r \in Region : Blocks(r) # {}
            BY <2>3, <3>1 DEF FilesInv, StacksCoverTheSet
        <3>3. Plannable(r)
            BY <2>3, <3>2 DEF FilesInv, NothingStale
        <3> QED BY <2>1, <2>3, <3>3, ParentIsNoRegion DEF PlannableStacks, Plannable
    <2> QED BY <2>2, <2>3
<1>4. OnlyAStaleParentIsFixed => (Parent \notin providers => MultiRegionIsFixedPerRegion)
    BY DEF OnlyAStaleParentIsFixed, MultiRegionIsFixedPerRegion
<1>5. TypeOK /\ LayoutInv /\ RegionsApart => Base
    BY DEF Base
<1>6. Spec => [](TypeOK /\ LayoutInv /\ RegionsApart)
    BY TypeCorrect, LayoutHolds, RegionsStayApart, PTL
<1> QED BY <1>1, <1>2, <1>3, <1>4, <1>5, <1>6, PTL DEF Spec
-----------------------------------------------------------------------------
(* Both fan-outs are the bounded group of errgroup: the directories that    *)
(* wait for a slot, the ones at work, and the wave that a phase is.         *)
StackGroup == INSTANCE FanOut WITH
  Task <- Dir,
  todo <- {d \in Dir : task[d] = "waiting"},
  active <- Active,
  joined <- phase \notin {"genconfig", "driftfix"}

(* Between two waves nothing waits for a slot. *)
NobodyWaits ==
  phase \notin {"genconfig", "driftfix"} => \A d \in Dir : task[d] # "waiting"

LEMMA WaitStep == TypeOK /\ NobodyWaits /\ [Next]_vars => NobodyWaits'
<1> SUFFICES ASSUME TypeOK, NobodyWaits, [Next]_vars, phase' \notin {"genconfig", "driftfix"},
                    NEW d \in Dir
             PROVE  task'[d] # "waiting"
    BY DEF NobodyWaits
<1>1. ASSUME NEW A \in SUBSET Resource, Grow(A) PROVE task'[d] # "waiting"
    BY <1>1 DEF Grow, NoTasks
<1>2. CASE CallerEnds \/ WarmUpFails \/ PhaseFails \/ UNCHANGED vars
    BY <1>2 DEF CallerEnds, WarmUpFails, PhaseFails, AllReturned, Tasks, NobodyWaits, vars
<1>3. CASE GenconfigReturns \/ DriftfixReturns
    BY <1>3 DEF GenconfigReturns, DriftfixReturns, NoTasks
<1>4. ASSUME NEW e \in Dir, Installed(e) PROVE task'[d] # "waiting"
    BY <1>4 DEF Installed, NobodyWaits, TypeOK
<1> QED
    BY <1>1, <1>2, <1>3, <1>4
       DEF Next, WarmUp, SelectStacks, StartGenconfig, StartDriftfix, Generate, InitFails,
           GenerateFails, Converge, DriftfixFails

LEMMA StackStepOfTheGroup ==
  ASSUME TypeOK, LayoutInv, NobodyWaits, [Next]_vars
  PROVE  [StackGroup!Next]_(StackGroup!vars)
<1> DEFINE Todo == {d \in Dir : task[d] = "waiting"}
           Joins == phase \notin {"genconfig", "driftfix"}
<1> USE DEF StackGroup!vars, StackGroup!Next
<1>0. ASSUME Todo' = Todo, Active' = Active, Joins' = Joins PROVE UNCHANGED StackGroup!vars
    BY <1>0
<1>1. ASSUME Joins, ~Joins', Active = {}, Active' = {}
      PROVE  \E T \in SUBSET Dir : StackGroup!Open(T)
    <2>1. PICK T \in SUBSET Dir : T = Todo'
        OBVIOUS
    <2>2. StackGroup!Open(T)
        BY <1>1, <2>1 DEF StackGroup!Open
    <2> QED BY <2>2
<1>2. Joins => Todo = {} /\ Active = {}
    <2>1. Joins => phase \in {"caller", "warmup", "select", "done", "error"}
        BY DEF TypeOK
    <2> QED BY <2>1 DEF NobodyWaits, LayoutInv, NobodyLeftBehind
<1>3. ASSUME NEW A \in SUBSET Resource, Grow(A)
      PROVE  \E T \in SUBSET Dir : StackGroup!Open(T) \/ UNCHANGED StackGroup!vars
    <2>1. Joins /\ Active' = {}
        BY <1>3 DEF Grow, Active, NoTasks, Waiting
    <2>2. CASE phase' = "warmup"
        <3>1. Todo' = {} /\ Joins'
            BY <1>3, <2>2 DEF Grow, NoTasks, Waiting
        <3> QED BY <1>0, <1>2, <2>1, <3>1
    <2>3. CASE phase' = "genconfig"
        BY <1>1, <1>2, <2>1, <2>3
    <2> QED BY <1>3, <2>2, <2>3 DEF Grow
<1>4. CASE WarmUp \/ SelectStacks
    <2>1. Joins /\ ~Joins' /\ Active' = {}
        BY <1>4 DEF WarmUp, SelectStacks, Active, Waiting
    <2> QED BY <1>1, <1>2, <2>1
<1>5. CASE CallerEnds \/ WarmUpFails \/ UNCHANGED vars
    <2>1. task' = task /\ Joins' = Joins
        BY <1>5 DEF CallerEnds, WarmUpFails, vars
    <2> QED BY <1>0, <2>1 DEF Active
<1>6. CASE PhaseFails \/ GenconfigReturns \/ DriftfixReturns
    <2>1. ~Joins /\ Joins' /\ AllReturned /\ (task' = task \/ task' = NoTasks)
        BY <1>6 DEF PhaseFails, GenconfigReturns, DriftfixReturns
    <2>2. Todo = {} /\ Active = {}
        BY <2>1 DEF AllReturned, Tasks, Active
    <2>3. Todo' = {} /\ Active' = {}
        BY <2>1, <2>2 DEF Active, NoTasks
    <2> QED BY <2>1, <2>2, <2>3 DEF StackGroup!Join
<1>7. ASSUME NEW d \in Dir,
             \/ StartGenconfig(d) \/ StartDriftfix(d) \/ Installed(d)
             \/ Generate(d) \/ InitFails(d) \/ GenerateFails(d)
             \/ Converge(d) \/ DriftfixFails(d)
      PROVE  \/ StackGroup!Start(d) \/ StackGroup!StartInVain(d) \/ StackGroup!Finish(d)
             \/ UNCHANGED StackGroup!vars
    <2>0. task \in [Dir -> {"none", "waiting", "installing", "running", "ok", "err"}] /\ Joins' = Joins
        BY <1>7 DEF TypeOK, StartGenconfig, StartDriftfix, Installed, Generate, InitFails, GenerateFails,
                    Converge, DriftfixFails
    <2>1. CASE StartGenconfig(d) \/ StartDriftfix(d)
        <3>1. PICK to \in {"err", "running", "installing"} : task' = [task EXCEPT ![d] = to]
            BY <2>1 DEF StartGenconfig, StartDriftfix
        <3>2. task[d] = "waiting" /\ FreeSlot
            BY <2>1 DEF StartGenconfig, StartDriftfix
        <3>3. Todo' = Todo \ {d} /\ d \in Todo
            BY <2>0, <3>1, <3>2
        <3>4. Cardinality(Active) < Limit
            BY <3>2 DEF FreeSlot
        <3>5. CASE to = "err"
            <4>1. Active' = Active
                BY <2>0, <3>1, <3>2, <3>5 DEF Active
            <4> QED BY <2>0, <3>3, <3>4, <4>1
                    DEF StackGroup!StartInVain, Cardinality, StackGroup!Cardinality
        <3>6. CASE to # "err"
            <4>1. Active' = Active \cup {d}
                BY <2>0, <3>1, <3>2, <3>6 DEF Active
            <4> QED BY <2>0, <3>3, <3>4, <4>1
                    DEF StackGroup!Start, Cardinality, StackGroup!Cardinality
        <3> QED BY <3>5, <3>6
    <2>2. CASE Installed(d)
        <3>1. Todo' = Todo /\ Active' = Active
            BY <2>0, <2>2 DEF Installed, Active
        <3> QED BY <1>0, <2>0, <3>1
    <2>3. CASE Generate(d) \/ InitFails(d) \/ GenerateFails(d) \/ Converge(d) \/ DriftfixFails(d)
        <3>1. PICK to \in {"ok", "err"} : task' = [task EXCEPT ![d] = to]
            BY <2>3 DEF Generate, InitFails, GenerateFails, Converge, DriftfixFails
        <3>2. task[d] \in {"installing", "running"}
            BY <2>3 DEF Generate, InitFails, GenerateFails, Converge, DriftfixFails
        <3>3. Todo' = Todo /\ Active' = Active \ {d} /\ d \in Active
            BY <2>0, <3>1, <3>2 DEF Active
        <3> QED BY <2>0, <3>3 DEF StackGroup!Finish
    <2> QED BY <1>7, <2>1, <2>2, <2>3
<1> QED BY <1>3, <1>4, <1>5, <1>6, <1>7 DEF Next

(* The goroutines of runMultiRegion and of runMultiStack are one and the    *)
(* same bounded group, opened anew in every pass.                           *)
THEOREM StacksImplementFanOut == Spec => StackGroup!Spec
<1>1. Init => StackGroup!Init
    BY DEF Init, StackGroup!Init, NoTasks, Active
<1>2. Init => NobodyWaits
    BY DEF Init, NobodyWaits, NoTasks
<1>3. TypeOK /\ LayoutInv /\ NobodyWaits /\ [Next]_vars =>
        NobodyWaits' /\ [StackGroup!Next]_(StackGroup!vars)
    BY WaitStep, StackStepOfTheGroup
<1> QED BY <1>1, <1>2, <1>3, TypeCorrect, LayoutHolds, PTL DEF Spec, StackGroup!Spec

(* So it promises them what it promises every user.                         *)
THEOREM StacksAreABoundedGroup == Spec => []StackGroup!FanOutSafe
<1>1. IsFiniteSet(Dir) /\ Limit \in Nat \ {0}
    BY DirIsFinite, RegionStacksAssumption
<1>2. \A S : StackGroup!IsFiniteSet(S) = IsFiniteSet(S)
    BY DEF IsFiniteSet, StackGroup!IsFiniteSet
<1>3. StackGroup!Init => StackGroup!FanOutSafe
    BY <1>1, StackGroup!GroupInit
<1>4. StackGroup!FanOutSafe /\ [StackGroup!Next]_(StackGroup!vars) => StackGroup!FanOutSafe'
    BY <1>1, <1>2, StackGroup!GroupStep
<1> QED BY <1>3, <1>4, StacksImplementFanOut, PTL DEF StackGroup!Spec
-----------------------------------------------------------------------------
(* What a run has left: the passes to come, each of at most RunWork steps,  *)
(* and in this pass the phases and the stages of its goroutines.            *)
Unstarted == {d \in Dir : task[d] \in {"none", "waiting"}}
Unready == {d \in Dir : task[d] \in {"none", "waiting", "installing"}}
Unreturned == {d \in Dir : task[d] \notin {"ok", "err"}}
TasksLeft == Cardinality(Unstarted) + Cardinality(Unready) + Cardinality(Unreturned)

PhaseLeft ==
  CASE phase = "warmup" -> 6 * Cardinality(Dir) + 5
    [] phase = "genconfig" -> 3 * Cardinality(Dir) + 4 + TasksLeft
    [] phase = "select" -> 3 * Cardinality(Dir) + 3
    [] phase = "driftfix" -> 2 + TasksLeft
    [] phase = "caller" -> 1
    [] phase \in {"done", "error"} -> 0

RunWork == 6 * Cardinality(Dir) + 5
RunLeft == (MaxPasses - passes) * (RunWork + 1) + PhaseLeft

LEMMA NextPassIsLess ==
  ASSUME NEW n \in Nat, NEW m \in Nat, NEW p \in 0..m, NEW q \in 0..m, NEW a \in Nat, NEW b \in 0..n,
         p <= q, b < a \/ p # q
  PROVE  (m - q) * (n + 1) + b < (m - p) * (n + 1) + a
<1>1. CASE p = q
  <2>1. (m - q) * (n + 1) = (m - p) * (n + 1) /\ (m - p) * (n + 1) \in Nat
    <3>1. m - p \in Nat
      OBVIOUS
    <3>2. QED
      BY <1>1, <3>1
  <2>2. QED
    BY <1>1, <2>1
<1>2. CASE p # q
  <2>1. PICK k \in Nat : q = p + 1 + k
    <3>1. q - p - 1 \in Nat /\ q = p + 1 + (q - p - 1)
      BY <1>2
    <3>2. QED
      BY <3>1
  <2>2. PICK s \in Nat : s = m - q
    OBVIOUS
  <2>3. /\ (m - p) * (n + 1) = s * (n + 1) + (n + 1) + k * (n + 1)
        /\ k * (n + 1) \in Nat /\ s * (n + 1) \in Nat
    <3>1. m - p = s + 1 + k
      BY <2>1, <2>2
    <3>2. QED
      BY <3>1
  <2>4. QED
    BY <2>2, <2>3
<1>3. QED
  BY <1>1, <1>2

LEMMA SumLess ==
  ASSUME NEW c \in Nat, NEW a \in Nat, NEW b \in Nat, b < a, NEW x, NEW y, x = c + a, y = c + b
  PROVE  y < x
OBVIOUS

Stages == {"installing", "running", "ok", "err"}

LEMMA FewerDirs ==
  ASSUME NEW T \in SUBSET Dir, NEW S \in SUBSET T
  PROVE  /\ Cardinality(S) \in Nat /\ Cardinality(T) \in Nat /\ Cardinality(Dir) \in Nat
         /\ Cardinality(S) <= Cardinality(T) /\ Cardinality(T) <= Cardinality(Dir)
         /\ S # T => Cardinality(S) # Cardinality(T)
BY DirIsFinite, FS_Subset, FS_CardinalityType

(* The parts are what they are meant to be.                                 *)
WorkOK ==
  /\ Cardinality(Unstarted) \in 0..Cardinality(Dir)
  /\ Cardinality(Unready) \in 0..Cardinality(Dir)
  /\ Cardinality(Unreturned) \in 0..Cardinality(Dir)
  /\ TasksLeft \in 0..(3 * Cardinality(Dir))
  /\ PhaseLeft \in 0..RunWork

LEMMA WorkIsOK == ASSUME TypeOK PROVE WorkOK
<1>1. /\ Cardinality(Dir) \in Nat
      /\ Cardinality(Unstarted) \in 0..Cardinality(Dir)
      /\ Cardinality(Unready) \in 0..Cardinality(Dir)
      /\ Cardinality(Unreturned) \in 0..Cardinality(Dir)
  <2>1. /\ Unstarted \in SUBSET Dir /\ Unready \in SUBSET Dir /\ Unreturned \in SUBSET Dir
    BY DEF Unstarted, Unready, Unreturned
  <2>2. QED
    BY <2>1, FewerDirs
<1>2. TasksLeft \in 0..(3 * Cardinality(Dir))
  BY <1>1 DEF TasksLeft
<1>3. PhaseLeft \in 0..RunWork
  BY <1>1, <1>2 DEF TypeOK, PhaseLeft, RunWork
<1>4. QED
  BY <1>1, <1>2, <1>3 DEF WorkOK

(* A goroutine goes on to its next stage: fewer stages are left to the run. *)
LEMMA TaskDescends ==
  ASSUME TypeOK, WorkOK, WorkOK', NEW d \in Dir, NEW to \in Stages,
         phase \in {"genconfig", "driftfix"}, phase' = phase,
         task' = [task EXCEPT ![d] = to],
         \/ task[d] = "waiting" /\ to \in {"installing", "running", "err"}
         \/ task[d] = "installing" /\ to \in {"running", "err"}
         \/ task[d] = "running" /\ to \in {"ok", "err"}
  PROVE  PhaseLeft' < PhaseLeft
<1>1. \A e \in Dir : task'[e] = IF e = d THEN to ELSE task[e]
  BY DEF TypeOK
<1>2. /\ Unstarted' \in SUBSET Unstarted /\ Unready' \in SUBSET Unready
      /\ Unreturned' \in SUBSET Unreturned
  BY <1>1 DEF Unstarted, Unready, Unreturned, Dir
<1>3. \/ d \in Unstarted /\ d \notin Unstarted'
      \/ d \in Unready /\ d \notin Unready'
      \/ d \in Unreturned /\ d \notin Unreturned'
  BY <1>1 DEF Unstarted, Unready, Unreturned
<1>4. Unstarted' # Unstarted \/ Unready' # Unready \/ Unreturned' # Unreturned
  BY <1>3
<1>5. /\ Cardinality(Unstarted') <= Cardinality(Unstarted)
      /\ Cardinality(Unready') <= Cardinality(Unready)
      /\ Cardinality(Unreturned') <= Cardinality(Unreturned)
      /\ \/ Cardinality(Unstarted') # Cardinality(Unstarted)
         \/ Cardinality(Unready') # Cardinality(Unready)
         \/ Cardinality(Unreturned') # Cardinality(Unreturned)
  <2>1. Unstarted \in SUBSET Dir /\ Unready \in SUBSET Dir /\ Unreturned \in SUBSET Dir
    BY DEF Unstarted, Unready, Unreturned
  <2>2. QED
    BY <1>2, <1>4, <2>1, FewerDirs
<1>6. /\ Cardinality(Unstarted) \in Nat /\ Cardinality(Unready) \in Nat
      /\ Cardinality(Unreturned) \in Nat /\ Cardinality(Dir) \in Nat
      /\ Cardinality(Unstarted') \in Nat /\ Cardinality(Unready') \in Nat
      /\ Cardinality(Unreturned') \in Nat
  <2>1. Cardinality(Dir) \in Nat
    BY DirIsFinite, FS_CardinalityType
  <2>2. QED
    BY <2>1 DEF WorkOK, Dir
<1>7. TasksLeft \in Nat /\ TasksLeft' \in Nat /\ TasksLeft' < TasksLeft
  BY <1>5, <1>6 DEF TasksLeft
<1>8. CASE phase = "genconfig"
  <2>1. /\ PhaseLeft = 3 * Cardinality(Dir) + 4 + TasksLeft
        /\ PhaseLeft' = 3 * Cardinality(Dir) + 4 + TasksLeft'
    BY <1>8 DEF PhaseLeft, Dir
  <2>2. QED
    BY <1>6, <1>7, <2>1
<1>9. CASE phase = "driftfix"
  <2>1. PhaseLeft = 2 + TasksLeft /\ PhaseLeft' = 2 + TasksLeft'
    BY <1>9 DEF PhaseLeft
  <2>2. QED
    BY <1>7, <2>1, SumLess
<1>10. QED
  BY <1>8, <1>9

LEMMA RunStepDescends ==
  ASSUME TypeOK, TypeOK', LayoutInv, WorkOK, WorkOK', Next PROVE RunLeft' < RunLeft
<1>t. /\ Cardinality(Dir) \in Nat /\ RunWork \in Nat /\ MaxPasses \in Nat
      /\ passes \in 0..MaxPasses /\ passes' \in 0..MaxPasses
      /\ PhaseLeft \in Nat /\ PhaseLeft' \in 0..RunWork
      /\ TasksLeft \in Nat /\ TasksLeft' \in Nat /\ TasksLeft' <= 3 * Cardinality(Dir)
  <2>1. Cardinality(Dir) \in Nat /\ MaxPasses \in Nat
    BY DirIsFinite, FS_CardinalityType, RegionStacksAssumption
  <2>2. PhaseLeft' \in 0..RunWork /\ TasksLeft' \in 0..(3 * Cardinality(Dir))
    BY DEF WorkOK, RunWork, Dir
  <2>3. RunWork \in Nat
    BY <2>1 DEF RunWork
  <2>4. PhaseLeft \in Nat /\ TasksLeft \in Nat
    BY <2>1, <2>3 DEF WorkOK
  <2>5. QED
    BY <2>1, <2>2, <2>3, <2>4 DEF TypeOK
<1>1. ASSUME passes <= passes', PhaseLeft' < PhaseLeft \/ passes # passes' PROVE RunLeft' < RunLeft
  <2>1. (MaxPasses - passes') * (RunWork + 1) + PhaseLeft'
          < (MaxPasses - passes) * (RunWork + 1) + PhaseLeft
    BY <1>t, <1>1, NextPassIsLess
  <2>2. QED
    BY <2>1 DEF RunLeft, RunWork, Dir
<1>2. CASE \E A \in SUBSET Resource : Grow(A)
  BY <1>t, <1>1, <1>2 DEF Grow
<1>3. CASE CallerEnds \/ WarmUpFails \/ PhaseFails
  <2>1. passes' = passes /\ phase \notin {"done", "error"} /\ phase' \in {"done", "error"}
    BY <1>3 DEF CallerEnds, WarmUpFails, PhaseFails
  <2>2. PhaseLeft' = 0
    BY <2>1 DEF PhaseLeft
  <2>3. PhaseLeft > 0
    BY <1>t, <2>1 DEF PhaseLeft, TypeOK
  <2>4. QED
    BY <1>t, <1>1, <2>1, <2>2, <2>3
<1>4. CASE WarmUp
  <2>1. passes' = passes /\ phase = "warmup" /\ phase' = "genconfig"
    BY <1>4 DEF WarmUp
  <2>2. /\ PhaseLeft = 6 * Cardinality(Dir) + 5
        /\ PhaseLeft' = 3 * Cardinality(Dir) + 4 + TasksLeft'
    BY <2>1 DEF PhaseLeft, Dir
  <2>3. QED
    BY <1>t, <1>1, <2>1, <2>2
<1>5. CASE GenconfigReturns
  <2>1. passes' = passes /\ phase = "genconfig" /\ phase' = "select"
    BY <1>5 DEF GenconfigReturns
  <2>2. /\ PhaseLeft = 3 * Cardinality(Dir) + 4 + TasksLeft
        /\ PhaseLeft' = 3 * Cardinality(Dir) + 3
    BY <2>1 DEF PhaseLeft, Dir
  <2>3. QED
    BY <1>t, <1>1, <2>1, <2>2
<1>6. CASE SelectStacks
  <2>1. passes' = passes /\ phase = "select" /\ phase' = "driftfix"
    BY <1>6 DEF SelectStacks
  <2>2. PhaseLeft = 3 * Cardinality(Dir) + 3 /\ PhaseLeft' = 2 + TasksLeft'
    BY <2>1 DEF PhaseLeft
  <2>3. QED
    BY <1>t, <1>1, <2>1, <2>2
<1>7. CASE DriftfixReturns
  <2>1. passes' = passes /\ phase = "driftfix" /\ phase' = "caller"
    BY <1>7 DEF DriftfixReturns
  <2>2. PhaseLeft = 2 + TasksLeft /\ PhaseLeft' = 1
    BY <2>1 DEF PhaseLeft
  <2>3. QED
    BY <1>t, <1>1, <2>1, <2>2
<1>8. ASSUME NEW d \in Dir,
             \/ StartGenconfig(d) \/ StartDriftfix(d) \/ Installed(d) \/ Generate(d)
             \/ InitFails(d) \/ GenerateFails(d) \/ Converge(d) \/ DriftfixFails(d)
      PROVE  RunLeft' < RunLeft
  <2>1. passes' = passes /\ phase' = phase /\ phase \in {"genconfig", "driftfix"}
    BY <1>8 DEF StartGenconfig, StartDriftfix, Installed, Generate, InitFails, GenerateFails,
                Converge, DriftfixFails, LayoutInv, NobodyLeftBehind, Active, TypeOK
  <2>2. PICK to \in Stages :
                  /\ task' = [task EXCEPT ![d] = to]
                  /\ \/ task[d] = "waiting" /\ to \in {"installing", "running", "err"}
                     \/ task[d] = "installing" /\ to \in {"running", "err"}
                     \/ task[d] = "running" /\ to \in {"ok", "err"}
    BY <1>8 DEF StartGenconfig, StartDriftfix, Installed, Generate, InitFails, GenerateFails,
                Converge, DriftfixFails, Stages
  <2>3. PhaseLeft' < PhaseLeft
    BY <2>1, <2>2, TaskDescends
  <2>4. QED
    BY <1>t, <1>1, <2>1, <2>3
<1>9. QED
  BY <1>2, <1>3, <1>4, <1>5, <1>6, <1>7, <1>8 DEF Next

(* A run over the stacks is finite, however often regions fail while others *)
(* wait for a slot: every step takes a part of a natural number, through    *)
(* all passes of the caller.                                                *)
THEOREM RunsAreFinite == Spec => [](RunLeft \in Nat) /\ [][RunLeft' < RunLeft]_vars
<1>1. TypeOK => WorkOK
  BY WorkIsOK
<1>2. TypeOK /\ WorkOK => RunLeft \in Nat
  <2> SUFFICES ASSUME TypeOK, WorkOK PROVE RunLeft \in Nat
    OBVIOUS
  <2>1. /\ MaxPasses - passes \in Nat /\ RunWork + 1 \in Nat
    BY DirIsFinite, FS_CardinalityType, RegionStacksAssumption DEF TypeOK, RunWork
  <2>2. (MaxPasses - passes) * (RunWork + 1) \in Nat
    BY <2>1
  <2>3. QED
    BY <2>1, <2>2 DEF RunLeft, WorkOK
<1>3. TypeOK /\ TypeOK' /\ LayoutInv /\ WorkOK /\ WorkOK' /\ [Next]_vars
        => [RunLeft' < RunLeft]_vars
  BY RunStepDescends
<1>4. QED
  BY <1>1, <1>2, <1>3, TypeCorrect, LayoutHolds, PTL DEF Spec
=============================================================================
