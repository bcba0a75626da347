---------------------------- MODULE RegionStacks ----------------------------
(***************************************************************************)
(* The directories and goroutines of a multi-region import.  genconfig     *)
(* (runSingleRegion, runMultiRegion) and driftfix (plannableStacks,        *)
(* runMultiStack) share one workdir across all passes of a run: a set of   *)
(* resources of one region is a stack in the workdir itself (Parent); a    *)
(* set of several regions is a stack per region-<alias> subdirectory,      *)
(* worked on concurrently, and a concatenation of their generated.tf at    *)
(* the parent, which the dependency chase reads.  Nothing removes the      *)
(* files of an earlier pass.                                               *)
(*                                                                         *)
(* Modelled: the files, the bounded fan-out of both phases with the        *)
(* cancellation of errgroup, the terraform warm-up, and the caller that    *)
(* adds resources between passes.  A block of generated.tf is a resource   *)
(* and whether the drift loop (module DriftFix) converged on it.           *)
(***************************************************************************)
EXTENDS Naturals, FiniteSets

CONSTANTS
  Resource,
  Region,
  RegionOf,    \* the region of each resource (globals: the primary one)
  Parent,      \* the workdir itself
  Limit,       \* maxRegionConcurrency and maxStackConcurrency
  MaxPasses    \* bounds the passes of the caller

ASSUME RegionStacksAssumption ==
  /\ IsFiniteSet(Resource) /\ IsFiniteSet(Region)
  /\ RegionOf \in [Resource -> Region]
  /\ Parent \notin Region
  /\ Limit \in Nat \ {0}
  /\ MaxPasses \in Nat \ {0}

Dir == Region \cup {Parent}

VARIABLES
  phase,      \* "caller", "warmup", "genconfig", "driftfix", "done", "error"
  passes,     \* genconfig runs so far
  set,        \* the resources of the current pass
  installed,  \* the pinned terraform is installed
  task,       \* the goroutine of each directory
  providers,  \* directories with a providers.tf
  imports,    \* the targets of each imports.tf
  hasGen,     \* directories with a generated.tf
  generated   \* its blocks, as <<resource, "raw" or "fixed">>

files == <<providers, imports, hasGen, generated>>
vars == <<phase, passes, set, installed, task, providers, imports, hasGen, generated>>

(* No goroutine. *)
NoTasks == [d \in Dir |-> "none"]

Init ==
  /\ phase = "caller" /\ passes = 0
  /\ set = {}
  /\ installed \in BOOLEAN
  /\ task = NoTasks
  /\ providers = {} /\ hasGen = {}
  /\ imports = [d \in Dir |-> {}]
  /\ generated = [d \in Dir |-> {}]
-----------------------------------------------------------------------------
(* groupResourcesByRegion: the directories of a pass, and what is theirs. *)
Group(R, r) == {x \in R : RegionOf[x] = r}
Groups(R) == {r \in Region : Group(R, r) # {}}
Dirs(R) == IF Cardinality(Groups(R)) > 1 THEN Groups(R) ELSE {Parent}
(* Fault: every region pass is given the whole set. *)
ShareAll(R, d) == R
Share(R, d) == IF d = Parent THEN R ELSE Group(R, d)

Blocks(d) == {b[1] : b \in generated[d]}

(* isPlannable and plannableStacks *)
Plannable(d) == d \in providers /\ d \in hasGen
PlannableStacks ==
  LET subs == {r \in Region : Plannable(r)}
  IN IF ~Plannable(Parent) /\ subs # {} THEN subs ELSE {Parent}

(* WriteMergedGenerated: what the parent's generated.tf becomes. *)
Merged(D) == [generated EXCEPT ![Parent] = UNION {generated[d] : d \in D \cap hasGen}]

Waiting(D) == [d \in Dir |-> IF d \in D THEN "waiting" ELSE "none"]
Tasks == {d \in Dir : task[d] # "none"}
Active == {d \in Dir : task[d] \in {"installing", "running"}}
Cancelled == \E d \in Dir : task[d] = "err"

FreeSlot == Cardinality(Active) < Limit

(* Fault: the wait is for success. *)
AllOk == \A d \in Tasks : task[d] = "ok"
(* errgroup's Wait: every goroutine has returned. *)
AllReturned == \A d \in Tasks : task[d] \in {"ok", "err"}
-----------------------------------------------------------------------------
(* The caller asks for the configuration of its resources and of what the   *)
(* chase adopted (the first time, the selection).                           *)
Grow(A) ==
  /\ phase = "caller"
  /\ passes < MaxPasses
  /\ A # {} /\ A \cap set = {}
  /\ set' = set \cup A
  /\ passes' = passes + 1
  /\ IF Cardinality(Groups(set')) > 1
     THEN phase' = "warmup" /\ task' = NoTasks
     ELSE phase' = "genconfig" /\ task' = Waiting({Parent})
  /\ UNCHANGED <<installed, files>>

CallerEnds ==
  /\ phase = "caller"
  /\ passes > 0
  /\ phase' = "done"
  /\ UNCHANGED <<passes, set, installed, task, files>>

(* Fault: the regions are started without the warm-up. *)
NoWarmUp == installed' = installed
(* terraform version, once and alone, installs the pinned version. *)
InstallFirst == installed' = TRUE

WarmUp ==
  /\ phase = "warmup"
  /\ InstallFirst
  /\ phase' = "genconfig"
  /\ task' = Waiting(Dirs(set))
  /\ UNCHANGED <<passes, set, files>>

WarmUpFails ==
  /\ phase = "warmup"
  /\ phase' = "error"
  /\ UNCHANGED <<passes, set, installed, task, files>>
-----------------------------------------------------------------------------
EmitImports(d) == imports' = [imports EXCEPT ![d] = Share(set, d)]
EmitProviders(d) == providers' = providers \cup {d}

(* A goroutine gets a slot.  genconfig's writes its two files first, also   *)
(* when the group is cancelled and terraform init can only fail.            *)
StartGenconfig(d) ==
  /\ phase = "genconfig" /\ task[d] = "waiting" /\ FreeSlot
  /\ EmitImports(d)
  /\ EmitProviders(d)
  /\ task' = [task EXCEPT ![d] = IF Cancelled THEN "err"
                                ELSE IF installed THEN "running" ELSE "installing"]
  /\ UNCHANGED <<phase, passes, set, installed, hasGen, generated>>

StartDriftfix(d) ==
  /\ phase = "driftfix" /\ task[d] = "waiting" /\ FreeSlot
  /\ task' = [task EXCEPT ![d] = IF Cancelled THEN "err" ELSE "running"]
  /\ UNCHANGED <<phase, passes, set, installed, files>>

Installed(d) ==
  /\ task[d] = "installing"
  /\ installed' = TRUE
  /\ task' = [task EXCEPT ![d] = "running"]
  /\ UNCHANGED <<phase, passes, set, files>>

(* Both prunes rewrite imports.tf: the resources of U have a block that no  *)
(* state can adopt; the others outside B have no block at all.              *)
PruneUnimportable(S, U) == S \ U
PruneOrphanImports(targets, B) == targets \cap B

(* runSingleRegion succeeds: Terraform renders the resources of B, and      *)
(* those of U among them are pruned.                                        *)
Generate(d) ==
  /\ phase = "genconfig" /\ task[d] = "running"
  /\ \E B \in SUBSET imports[d] : \E U \in SUBSET B :
       LET kept == PruneUnimportable(B, U)
       IN /\ generated' = [generated EXCEPT ![d] = kept \X {"raw"}]
          /\ imports' = [imports EXCEPT ![d] =
                           PruneOrphanImports(PruneUnimportable(@, U), kept)]
  /\ hasGen' = hasGen \cup {d}
  /\ task' = [task EXCEPT ![d] = "ok"]
  /\ UNCHANGED <<phase, passes, set, installed, providers>>

(* terraform init fails, or the removal of the stale generated.tf.          *)
InitFails(d) ==
  /\ phase = "genconfig" /\ task[d] \in {"installing", "running"}
  /\ task' = [task EXCEPT ![d] = "err"]
  /\ UNCHANGED <<phase, passes, set, installed, files>>

(* It fails later: nothing is rendered, or a clean-up, a prune or the       *)
(* validation fails and what was rendered and pruned so far stays.          *)
GenerateFails(d) ==
  /\ phase = "genconfig" /\ task[d] = "running"
  /\ \/ /\ hasGen' = hasGen \ {d}
        /\ generated' = [generated EXCEPT ![d] = {}]
        /\ UNCHANGED imports
     \/ \E B, I \in SUBSET imports[d] :
          /\ hasGen' = hasGen \cup {d}
          /\ generated' = [generated EXCEPT ![d] = B \X {"raw"}]
          /\ imports' = [imports EXCEPT ![d] = I]
  /\ task' = [task EXCEPT ![d] = "err"]
  /\ UNCHANGED <<phase, passes, set, installed, providers>>

(* What Terraform needs to plan a stack without creating anything or        *)
(* missing the configuration of an import.                                  *)
Coherent(d) == Plannable(d) /\ Blocks(d) = imports[d]

Converge(d) ==
  /\ phase = "driftfix" /\ task[d] = "running"
  /\ Coherent(d)
  /\ generated' = [generated EXCEPT ![d] = Blocks(d) \X {"fixed"}]
  /\ task' = [task EXCEPT ![d] = "ok"]
  /\ UNCHANGED <<phase, passes, set, installed, providers, imports, hasGen>>

DriftfixFails(d) ==
  /\ phase = "driftfix" /\ task[d] = "running"
  /\ task' = [task EXCEPT ![d] = "err"]
  /\ UNCHANGED <<phase, passes, set, installed, files>>
-----------------------------------------------------------------------------
PhaseFails ==
  /\ phase \in {"genconfig", "driftfix"}
  /\ AllReturned
  /\ Cancelled
  /\ phase' = "error"
  /\ UNCHANGED <<passes, set, installed, task, files>>

(* genconfig returns the resources it kept, and driftfix is called next.    *)
GenconfigReturns ==
  /\ phase = "genconfig"
  /\ AllReturned
  /\ ~Cancelled
  /\ set' = UNION {Blocks(d) : d \in Tasks}
  /\ IF Tasks = {Parent}
     THEN UNCHANGED <<hasGen, generated>>
     ELSE hasGen' = hasGen \cup {Parent} /\ generated' = Merged(Tasks)
  /\ phase' = "select"
  /\ task' = NoTasks
  /\ UNCHANGED <<passes, installed, providers, imports>>

(* driftfix looks at the disk for what to work on.                          *)
SelectStacks ==
  /\ phase = "select"
  /\ task' = Waiting(PlannableStacks)
  /\ phase' = "driftfix"
  /\ UNCHANGED <<passes, set, installed, files>>

(* Fault: the parent is not concatenated again. *)
NoRemerge == generated
Remerge == IF Tasks = {Parent} THEN generated ELSE Merged(Tasks)

DriftfixReturns ==
  /\ phase = "driftfix"
  /\ AllReturned
  /\ ~Cancelled
  /\ generated' = Remerge
  /\ phase' = "caller"
  /\ task' = NoTasks
  /\ UNCHANGED <<passes, set, installed, providers, imports, hasGen>>

Next ==
  \/ \E A \in SUBSET Resource : Grow(A)
  \/ CallerEnds \/ WarmUp \/ WarmUpFails
  \/ \E d \in Dir : \/ StartGenconfig(d) \/ StartDriftfix(d) \/ Installed(d)
                    \/ Generate(d) \/ InitFails(d) \/ GenerateFails(d)
                    \/ Converge(d) \/ DriftfixFails(d)
  \/ PhaseFails \/ GenconfigReturns \/ SelectStacks \/ DriftfixReturns

Spec == Init /\ [][Next]_vars
(* Goroutines are scheduled, terraform returns, and the caller goes on.     *)
FairSpec == Spec /\ WF_vars(Next)
-----------------------------------------------------------------------------
(* Every variable stays in its range.                                       *)
TypeOK ==
  /\ phase \in {"caller", "warmup", "genconfig", "select", "driftfix", "done", "error"}
  /\ passes \in 0..MaxPasses
  /\ set \in SUBSET Resource
  /\ installed \in BOOLEAN
  /\ task \in [Dir -> {"none", "waiting", "installing", "running", "ok", "err"}]
  /\ providers \in SUBSET Dir /\ hasGen \in SUBSET Dir
  /\ imports \in [Dir -> SUBSET Resource]
  /\ generated \in [Dir -> SUBSET (Resource \X {"raw", "fixed"})]

(* The file the chase reads is the configuration of exactly the resources   *)
(* the last genconfig run returned, all of it converged: no block of an     *)
(* earlier pass or of a region that has since disappeared is left in it.    *)
ParentIsTheConvergedSet ==
  phase = "caller" /\ passes > 0 => generated[Parent] = set \X {"fixed"}

(* Never two installations of terraform at once: they break each other.     *)
InstallsAlone == Cardinality({d \in Dir : task[d] = "installing"}) <= 1

(* However the regions of a pass fare, the phase is over only when none of  *)
(* them works on its directory any more.                                    *)
NobodyLeftBehind ==
  phase \in {"caller", "warmup", "select", "done", "error"} => Active = {}

(* At most Limit terraform processes run, whatever fails meanwhile.         *)
WithinLimit == Cardinality(Active) <= Limit

(* The goroutines of a phase neither outlive it, nor exceed their limit,    *)
(* nor break each other's terraform.                                        *)
WorkersContained == WithinLimit /\ InstallsAlone /\ NobodyLeftBehind

(* A resource is configured in its own region: the stack of a region never  *)
(* holds a block or an import of another one, and the stack at the parent   *)
(* imports from one region only, through every change of layout.            *)
RegionsApart ==
  /\ \A r \in Region : \A x \in Blocks(r) \cup imports[r] : RegionOf[x] = r
  /\ \A x, y \in imports[Parent] : RegionOf[x] = RegionOf[y]

(* A run ends, also when regions fail while others wait for a slot.         *)
Ends == <>(phase \in {"done", "error"})

(* What driftfix documents of a multi-region workdir: it works on the       *)
(* region stacks, the parent being no plannable stack.                      *)
MultiRegionIsFixedPerRegion ==
  phase = "driftfix" /\ Cardinality(Groups(set)) > 1 => Parent \notin Tasks
=============================================================================
