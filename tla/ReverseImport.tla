---------------------------- MODULE ReverseImport ----------------------------
(***************************************************************************)
(* The reverse-import engine, pkg/reverseimport: Run takes a selection of  *)
(* cloud resources to a Terraform configuration whose plan imports them    *)
(* and changes nothing else, dropping and reporting the resources that     *)
(* stand in the way.                                                       *)
(*                                                                         *)
(* Modelled: the selection closure, what genconfig and the dependency      *)
(* chase do to the set of resources (as ClosureContract promises), the     *)
(* skip tracker, the final-plan loop with its attribution of failures, the *)
(* backfill re-plan, the first-import contract loop, the files written and *)
(* every return.  Abstracted: the attributes of resources, the wording of  *)
(* diagnostics, and Terraform, which may answer anything about the files   *)
(* it is given.  A resource is its Terraform address.                      *)
(***************************************************************************)
EXTENDS Naturals, FiniteSets

CONSTANTS
  Addr,
  Selectable,    \* what an operator may select
  Unimportable,  \* what imported.UnimportableReason rejects
  Children,      \* Children[a]: what a selected parent pulls in
  Adoptable,     \* what the dependency chase may add
  MaxFinalPlanIterations

ASSUME ReverseImportAssumption ==
  /\ IsFiniteSet(Addr)
  /\ Selectable \subseteq Addr
  /\ Unimportable \subseteq Addr
  /\ Children \in [Addr -> SUBSET Addr]
  /\ Adoptable \subseteq Addr
  /\ MaxFinalPlanIterations \in Nat \ {0}

VARIABLES
  pc,            \* the phase Run is in
  resources,     \* the resources still to be imported
  pre,           \* preGenconfigIdentities
  skips,         \* skipTracker: "none", "skipped" or "failed" per address
  attempts,      \* the counter of the final-plan loop
  fiAttempts,    \* the counter of the first-import contract loop
  plan,          \* the last plan that succeeded
  importedJSON,  \* the resources of imported.json
  importedTF,    \* the resources of imported.tf
  result         \* reverse-result.json

vars == <<pc, resources, pre, skips, attempts, fiAttempts, plan, importedJSON,
          importedTF, result>>

Change == {"import", "changed", "create", "none"}
Stray == {"none", "import", "create"}
Status == {"skipped", "failed"}

(* A plan of the files for R.  Each resource is imported as it is, imported *)
(* with a change beyond the provenance tags, created (or replaced, or       *)
(* destroyed) or, when the state holds it already, left alone; and the      *)
(* directory's other files may add an import or a create of their own.      *)
PlansOf(R) == [of: {R}, change: [R -> Change], stray: Stray]
NoPlan == [of |-> {}, change |-> <<>>, stray |-> "none"]

NoResult == [status |-> "unwritten", imported |-> {}, entries |-> {}]

Init ==
  /\ pc = "closure"
  /\ resources \in (SUBSET Selectable) \ {{}}
  /\ pre = {}
  /\ skips = [a \in Addr |-> "none"]
  /\ attempts = 1 /\ fiAttempts = 1
  /\ plan = NoPlan
  /\ importedJSON = {} /\ importedTF = {}
  /\ result = NoResult
-----------------------------------------------------------------------------
(* Fault: a failure does not replace an earlier skip. *)
PutIfAbsent(s, A, status) ==
  [a \in Addr |-> IF a \in A /\ s[a] = "none" THEN status ELSE s[a]]
(* skipTracker.put for every address of A: a later entry replaces one. *)
Put(s, A, status) == [a \in Addr |-> IF a \in A THEN status ELSE s[a]]

(* Fault: genconfig's manifest is trusted to be complete. *)
TrustManifest(s, surviving) == s
(* addMissing, the safety net for what vanished without a manifest entry. *)
AddMissing(s, surviving) ==
  Put(s, {a \in pre \ surviving : s[a] = "none"}, "skipped")

(* Fault: what was marked failed stays in the set. *)
KeepDropped(R, F) == R
DropResources(R, F) == R \ F

(* combinedResourceResults *)
Entries(R, s) ==
  (R \X {"imported"}) \cup {<<a, s[a]>> : a \in {b \in Addr : s[b] # "none"}}

FinalStatus(R, s) ==
  IF R = {} THEN "failed"
  ELSE IF \E a \in Addr : s[a] # "none" THEN "partial" ELSE "succeeded"

Write(status, imported, entries) ==
  /\ pc' = "done"
  /\ result' = [status |-> status, imported |-> imported, entries |-> entries]
-----------------------------------------------------------------------------
RejectSelection ==
  /\ pc = "closure"
  /\ resources \cap Unimportable # {}
  /\ Write("failed", {}, {})
  /\ UNCHANGED <<resources, pre, skips, attempts, fiAttempts, plan, importedJSON,
                 importedTF>>

(* expandSelectionClosure; a discoverer that is missing or fails adds none. *)
ExpandClosure ==
  /\ pc = "closure"
  /\ resources \cap Unimportable = {}
  /\ \E C \in SUBSET ((UNION {Children[a] : a \in resources}) \ Unimportable) :
       resources' = resources \cup C
  /\ pre' = resources'
  /\ pc' = "genconfig"
  /\ UNCHANGED <<skips, attempts, fiAttempts, plan, importedJSON, importedTF, result>>

(* The first genconfig run; its manifest names some of what it dropped. *)
Genconfig ==
  /\ pc = "genconfig"
  /\ \E K \in SUBSET resources : \E manifest \in SUBSET (resources \ K) :
       /\ resources' = K
       /\ skips' = Put(skips, manifest, "skipped")
  /\ pc' = "chase"
  /\ UNCHANGED <<pre, attempts, fiAttempts, plan, importedJSON, importedTF, result>>

(* What a chase may end with: it adopts what the configuration of a managed *)
(* resource refers to, so it finds nothing when there is none.              *)
ChasedSets(R) == IF R = {} THEN {{}} ELSE SUBSET (R \cup Adoptable)

(* The dependency chase, or no chase, and then the safety net. *)
Chase ==
  /\ pc = "chase"
  /\ resources' \in ChasedSets(resources)
  /\ skips' = AddMissing(skips, resources')
  /\ importedJSON' = resources'
  /\ pc' = "plan"
  /\ UNCHANGED <<pre, attempts, fiAttempts, plan, importedTF, result>>
-----------------------------------------------------------------------------
(* The final-plan loop ends without a plan. *)
FinalPlanGivesUp ==
  /\ pc = "plan"
  /\ attempts > MaxFinalPlanIterations \/ resources = {}
  /\ Write("failed", resources, Entries(resources, skips))
  /\ UNCHANGED <<resources, pre, skips, attempts, fiAttempts, plan, importedJSON,
                 importedTF>>

(* writeImportedTerraformArtifacts *)
WriteImportedTF(R) == importedTF' = R

Planning ==
  /\ \/ pc = "plan" /\ attempts <= MaxFinalPlanIterations /\ resources # {}
     \/ pc = "replan"
  /\ WriteImportedTF(resources)

(* attributeFinalPlanError: the resources of R a failure may name; what it  *)
(* names outside R does not count.                                          *)
Attributions(R) == (SUBSET R) \ {{}}

(* Validation or planning fails, and the failure names resources F. *)
PlanFails ==
  /\ Planning
  /\ \E F \in Attributions(resources) :
       /\ skips' = Put(skips, F, "failed")
       /\ resources' = DropResources(resources, F)
  /\ attempts' = attempts + 1
  /\ pc' = "plan"
  /\ UNCHANGED <<pre, fiAttempts, plan, importedJSON, result>>

(* The failure names no resource of the set. *)
PlanFailsSystemically ==
  /\ Planning
  /\ Write("failed", resources, Entries(resources, skips))
  /\ UNCHANGED <<resources, pre, skips, attempts, fiAttempts, plan, importedJSON>>

(* Attributes are backfilled from the plan, which calls for another one. *)
Backfill ==
  /\ Planning
  /\ pc = "plan"
  /\ importedJSON' = resources
  /\ pc' = "replan"
  /\ UNCHANGED <<resources, pre, skips, attempts, fiAttempts, plan, result>>

PlanSucceeds ==
  /\ Planning
  /\ plan' \in PlansOf(resources)
  /\ pc' = "contract"
  /\ UNCHANGED <<resources, pre, skips, attempts, fiAttempts, importedJSON, result>>
-----------------------------------------------------------------------------
(* Fault: creates are only caught by the number of imports. *)
ChangedImports(p) == {a \in p.of : p.change[a] = "changed"}
(* The issues of ValidateFirstImportPlan that name a resource of the set. *)
Violators(p) == {a \in p.of : p.change[a] \in {"changed", "create"}}

Imports(p) == Cardinality({a \in p.of : p.change[a] \in {"import", "changed"}})
              + (IF p.stray = "import" THEN 1 ELSE 0)

AsExpected(p, n) == Imports(p) = n

(* attributeFirstImportPlanIssues: an issue remains that names no resource. *)
Unattributable(p, n) == p.stray = "create" \/ ~AsExpected(p, n)

Clean ==
  /\ Violators(plan) = {}
  /\ ~Unattributable(plan, Cardinality(resources))

ContractFails ==
  /\ pc = "contract"
  /\ ~Clean
  /\ Violators(plan) = {}
  /\ Write("failed", resources, Entries(resources, skips))
  /\ UNCHANGED <<resources, pre, skips, attempts, fiAttempts, plan, importedJSON,
                 importedTF>>

RoundsExhausted == fiAttempts > MaxFinalPlanIterations

ContractGivesUp ==
  /\ pc = "contract"
  /\ Violators(plan) # {}
  /\ RoundsExhausted
  /\ Write("failed", resources, Entries(resources, skips))
  /\ UNCHANGED <<resources, pre, skips, attempts, fiAttempts, plan, importedJSON,
                 importedTF>>

(* Drop what violates the contract and plan the rest; a plan that fails now *)
(* fails the run, whatever it names.                                        *)
ContractDrop ==
  /\ pc = "contract"
  /\ Violators(plan) # {}
  /\ ~RoundsExhausted
  /\ resources' = DropResources(resources, Violators(plan))
  /\ skips' = Put(skips, Violators(plan), "failed")
  /\ IF resources' = {}
     THEN /\ Write("failed", {}, Entries(resources', skips'))
          /\ UNCHANGED <<fiAttempts, plan, importedJSON, importedTF>>
     ELSE /\ importedJSON' = resources' /\ WriteImportedTF(resources')
          /\ \/ /\ plan' \in PlansOf(resources')
                /\ fiAttempts' = fiAttempts + 1
                /\ UNCHANGED <<pc, result>>
             \/ /\ Write("failed", {}, Entries(resources', skips'))
                /\ UNCHANGED <<plan, fiAttempts>>
  /\ UNCHANGED <<pre, attempts>>

(* Fault: imported.json is left as the loops wrote it. *)
AsLastWritten == importedJSON
(* The final write of imported.json, from the converged set. *)
Converged == resources

Publish ==
  /\ pc = "contract"
  /\ Clean
  /\ importedJSON' = Converged
  /\ Write(FinalStatus(resources, skips), resources, Entries(resources, skips))
  /\ UNCHANGED <<resources, pre, skips, attempts, fiAttempts, plan, importedTF>>

(* A step fails (authentication, genconfig, the drift fix, the chase, a     *)
(* file, an undecodable plan) and Run returns without writing a result.     *)
StepFails ==
  /\ pc # "done"
  /\ pc' = "done"
  /\ IF pc \in {"plan", "replan", "contract"}
     THEN /\ importedJSON' \in {importedJSON, resources}
          /\ importedTF' \in {importedTF, resources}
     ELSE UNCHANGED <<importedJSON, importedTF>>
  /\ UNCHANGED <<resources, pre, skips, attempts, fiAttempts, plan, result>>

Next ==
  \/ RejectSelection \/ ExpandClosure \/ Genconfig \/ Chase
  \/ FinalPlanGivesUp \/ PlanFails \/ PlanFailsSystemically \/ Backfill \/ PlanSucceeds
  \/ ContractFails \/ ContractGivesUp \/ ContractDrop \/ Publish
  \/ StepFails

Spec == Init /\ [][Next]_vars
-----------------------------------------------------------------------------
(* Every variable stays in its range.                                       *)
TypeOK ==
  /\ pc \in {"closure", "genconfig", "chase", "plan", "replan", "contract", "done"}
  /\ resources \in SUBSET Addr /\ pre \in SUBSET Addr
  /\ skips \in [Addr -> Status \cup {"none"}]
  /\ attempts \in 1..(MaxFinalPlanIterations + 1)
  /\ fiAttempts \in 1..(MaxFinalPlanIterations + 1)
  /\ importedJSON \in SUBSET Addr /\ importedTF \in SUBSET Addr
  /\ result.status \in {"unwritten", "failed", "partial", "succeeded"}
  /\ result.imported \in SUBSET Addr
  /\ result.entries \in SUBSET (Addr \X (Status \cup {"imported"}))

Reported(a) == \E e \in result.entries : e[1] = a

(* Whatever entered config generation is in the result with a status, on    *)
(* every way out that writes one, although genconfig and the chase may drop *)
(* resources without a word.                                                *)
NothingVanishes ==
  result.status # "unwritten" => \A a \in pre : Reported(a)

Published == result.status \in {"succeeded", "partial"}

(* A result that is not a failure describes files that agree: imported.json *)
(* and imported.tf hold the imported resources, and the plan that was       *)
(* accepted was made from them.                                             *)
ArtifactsAgree ==
  Published =>
    /\ importedJSON = result.imported
    /\ importedTF = result.imported
    /\ plan.of = result.imported

(* The published plan is imports only: no resource is created, replaced or  *)
(* destroyed, nothing imported is changed beyond the provenance tags, and   *)
(* there are as many imports as resources in the result.  (As many, not the *)
(* same: the contract counts; and an import that is also a replacement is   *)
(* judged by the attributes it changes.)                                    *)
PublishedPlanImportsOnly ==
  Published =>
    /\ \A a \in plan.of : plan.change[a] \in {"import", "none"}
    /\ plan.stray # "create"
    /\ Imports(plan) = Cardinality(result.imported)

(* "succeeded" means all of it: nothing that entered config generation was  *)
(* skipped or failed on the way.                                            *)
SucceededMeansAll == result.status = "succeeded" => pre \subseteq result.imported

(* A result tells the operator the fate of the whole selection.             *)
EverythingAccounted == NothingVanishes /\ SucceededMeansAll

(* A failed resource is out for good: it is not among the resources that    *)
(* are planned or published, and its entry says failed.                     *)
FailedStaysOut ==
  /\ \A a \in Addr : skips[a] = "failed" => a \notin resources
  /\ \A a \in Addr : <<a, "failed">> \in result.entries
                       => <<a, "imported">> \notin result.entries

(* Once the set is final, a resource leaves it only as a failure, also when *)
(* genconfig had skipped it and the chase brought it back.                  *)
DropsAreFailures ==
  [][(pc \in {"plan", "replan", "contract"}) =>
       (\A a \in resources \ resources' : skips'[a] = "failed")]_vars

(* Either loop gives up for want of rounds only after as many resources     *)
(* have failed: no round is spent without dropping one for good.            *)
Failed == {a \in Addr : skips[a] = "failed"}
RoundsDropResources ==
  /\ Cardinality(Failed) >= attempts - 1
  /\ Cardinality(Failed) >= fiAttempts - 1

(* A resource is reported once: the tracker's comment says it is never      *)
(* double-reported, and the contract that it ends in exactly one bucket.    *)
ReportedOnce ==
  \A a \in Addr : Cardinality({e \in result.entries : e[1] = a}) <= 1
=============================================================================
