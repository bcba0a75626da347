------------------------- MODULE ReverseImportProofs -------------------------
(***************************************************************************)
(* Proofs about the reverse-import engine, for every set of resources,     *)
(* every closure and every bound of its loops.                             *)
(***************************************************************************)
EXTENDS ReverseImport, FiniteSetTheorems, TLAPS

(* While the engine works, nothing that entered config generation is lost:  *)
(* from the chase on it is in the set or tracked.                           *)
Accounted ==
  /\ pc = "closure" => pre = {}
  /\ pc = "genconfig" => pre \subseteq resources
  /\ (pc \in {"plan", "replan", "contract"}) =>
       (\A a \in pre : a \in resources \/ skips[a] # "none")

(* The contract loop looks at a plan of the set it is about to publish.     *)
PlanIsOfTheSet ==
  /\ pc = "contract" => plan.of = resources /\ importedTF = resources
  /\ pc = "replan" => attempts <= MaxFinalPlanIterations

(* No result is written before the engine returns.                          *)
WrittenAtTheEnd == pc # "done" => result.status = "unwritten"

(* What fails is out of the set, and nothing fails before the loops.        *)
FailedIsOut == \A a \in Addr : skips[a] = "failed" => a \notin resources
Fresh ==
  pc \in {"closure", "genconfig", "chase"} => \A a \in Addr : skips[a] # "failed"

EngineInv ==
  /\ TypeOK
  /\ Accounted
  /\ PlanIsOfTheSet
  /\ WrittenAtTheEnd
  /\ FailedIsOut
  /\ Fresh
  /\ NothingVanishes
  /\ ArtifactsAgree
  /\ SucceededMeansAll
-----------------------------------------------------------------------------
LEMMA PutType ==
  ASSUME NEW s \in [Addr -> Status \cup {"none"}], NEW A, NEW st \in Status
  PROVE  Put(s, A, st) \in [Addr -> Status \cup {"none"}]
BY DEF Put

(* What put records, and what it leaves.                                    *)
LEMMA PutValue ==
  ASSUME NEW s, NEW A, NEW st, NEW a \in Addr
  PROVE  Put(s, A, st)[a] = IF a \in A THEN st ELSE s[a]
BY DEF Put

(* A result lists its resources and everything tracked.                     *)
LEMMA EntriesType ==
  ASSUME NEW R \in SUBSET Addr, NEW s \in [Addr -> Status \cup {"none"}]
  PROVE  Entries(R, s) \in SUBSET (Addr \X (Status \cup {"imported"}))
BY DEF Entries, Status

LEMMA EntriesComplete ==
  ASSUME NEW R, NEW s, NEW a \in Addr, a \in R \/ s[a] # "none"
  PROVE  \E e \in Entries(R, s) : e[1] = a
<1>1. CASE a \in R
  <2>1. <<a, "imported">> \in Entries(R, s)
    BY <1>1 DEF Entries
  <2>2. QED
    BY <2>1
<1>2. CASE s[a] # "none"
  <2>1. <<a, s[a]>> \in Entries(R, s)
    BY <1>2 DEF Entries
  <2>2. QED
    BY <2>1
<1>3. QED
  BY <1>1, <1>2

LEMMA FailedIsNotNone == "failed" # "none" /\ "skipped" # "none" /\ "failed" # "skipped"
OBVIOUS

LEMMA InitEngineInv == Init => EngineInv
<1> SUFFICES ASSUME Init PROVE EngineInv
  OBVIOUS
<1>1. TypeOK
  BY ReverseImportAssumption DEF Init, TypeOK, NoResult, Status
<1>2. QED
  BY <1>1 DEF Init, EngineInv, Accounted, PlanIsOfTheSet, FailedIsOut, Fresh,
     WrittenAtTheEnd, NothingVanishes, ArtifactsAgree, SucceededMeansAll, Published, NoResult
-----------------------------------------------------------------------------
(* The engine returns a failure that lists the whole set: every way to fail *)
(* in the loops.                                                            *)
LEMMA FailurePreserves ==
  ASSUME EngineInv, NEW I \in SUBSET Addr,
         pc' = "done", TypeOK', pre' = pre,
         result' = [status |-> "failed", imported |-> I,
                    entries |-> Entries(resources', skips')],
         FailedIsOut',
         \A a \in pre : a \in resources' \/ skips'[a] # "none"
  PROVE  EngineInv'
<1> USE DEF EngineInv
<1>1. Accounted' /\ PlanIsOfTheSet' /\ WrittenAtTheEnd' /\ Fresh'
  BY DEF Fresh, Accounted, PlanIsOfTheSet, WrittenAtTheEnd
<1>2. NothingVanishes'
  <2>1. ASSUME NEW a \in pre' PROVE Reported(a)'
    <3>1. a \in Addr
      BY <2>1 DEF TypeOK
    <3>2. \E e \in Entries(resources', skips') : e[1] = a
      BY <2>1, <3>1, EntriesComplete
    <3>3. QED
      BY <3>2 DEF Reported
  <2>2. QED
    BY <2>1 DEF NothingVanishes
<1>3. ArtifactsAgree' /\ SucceededMeansAll'
  BY DEF ArtifactsAgree, Published, SucceededMeansAll
<1>4. QED
  BY <1>1, <1>2, <1>3

(* The engine goes on: no result, and the parts that speak of the sets.     *)
LEMMA WorkPreserves ==
  ASSUME EngineInv, TypeOK', Accounted', PlanIsOfTheSet', FailedIsOut', Fresh',
         pc # "done", result' = result
  PROVE  EngineInv'
<1>1. result.status = "unwritten" /\ result'.status = "unwritten"
  BY DEF EngineInv, WrittenAtTheEnd
<1>2. WrittenAtTheEnd' /\ NothingVanishes' /\ ArtifactsAgree' /\ SucceededMeansAll'
  BY <1>1 DEF WrittenAtTheEnd, NothingVanishes, ArtifactsAgree, SucceededMeansAll,
     Published
<1>3. QED
  BY <1>2 DEF EngineInv

(* Marking a part of the set failed and dropping it loses nothing.          *)
LEMMA DropLosesNothing ==
  ASSUME EngineInv, NEW F \in SUBSET Addr,
         pc \in {"plan", "replan", "contract"},
         resources' = DropResources(resources, F),
         skips' = Put(skips, F, "failed"),
         pre' = pre
  PROVE  /\ resources' \in SUBSET Addr
         /\ skips' \in [Addr -> Status \cup {"none"}]
         /\ FailedIsOut'
         /\ \A a \in pre : a \in resources' \/ skips'[a] # "none"
<1> USE DEF EngineInv
<1>1. resources' \in SUBSET Addr
  BY DEF DropResources, TypeOK
<1>2. skips' \in [Addr -> Status \cup {"none"}]
  BY PutType DEF TypeOK, Status
<1>3. \A a \in Addr : skips'[a] = IF a \in F THEN "failed" ELSE skips[a]
  BY PutValue
<1>4. FailedIsOut'
  BY <1>3 DEF FailedIsOut, DropResources
<1>5. \A a \in pre : a \in resources' \/ skips'[a] # "none"
  BY <1>3 DEF Accounted, DropResources, TypeOK
<1>6. QED
  BY <1>1, <1>2, <1>4, <1>5
-----------------------------------------------------------------------------
LEMMA BeforeTheLoops ==
  ASSUME EngineInv, RejectSelection \/ ExpandClosure \/ Genconfig \/ Chase
  PROVE  EngineInv'
<1> USE DEF EngineInv
<1>1. CASE RejectSelection
  <2>1. pre' = {} /\ pc' = "done"
    BY <1>1 DEF RejectSelection, Accounted, Write
  <2>2. result' = [status |-> "failed", imported |-> {}, entries |-> {}]
    BY <1>1 DEF RejectSelection, Write
  <2>3. TypeOK'
    BY <1>1, <2>1, <2>2 DEF RejectSelection, TypeOK
  <2>4. Accounted' /\ PlanIsOfTheSet' /\ WrittenAtTheEnd' /\ FailedIsOut' /\ Fresh'
    BY <1>1, <2>1 DEF RejectSelection, Accounted, PlanIsOfTheSet, WrittenAtTheEnd,
       FailedIsOut, Fresh
  <2>5. NothingVanishes' /\ ArtifactsAgree' /\ SucceededMeansAll'
    BY <2>1, <2>2 DEF NothingVanishes, ArtifactsAgree, SucceededMeansAll, Published
  <2>6. QED
    BY <2>3, <2>4, <2>5
<1>2. CASE ExpandClosure
  <2>1. resources' \in SUBSET Addr
    BY <1>2, ReverseImportAssumption DEF ExpandClosure, TypeOK
  <2>2. TypeOK'
    BY <1>2, <2>1 DEF ExpandClosure, TypeOK
  <2>3. Accounted' /\ PlanIsOfTheSet'
    BY <1>2 DEF ExpandClosure, Accounted, PlanIsOfTheSet
  <2>4. FailedIsOut' /\ Fresh'
    BY <1>2 DEF ExpandClosure, FailedIsOut, Fresh
  <2>5. QED
    BY <1>2, <2>2, <2>3, <2>4, WorkPreserves DEF ExpandClosure
<1>3. CASE Genconfig
  <2>1. PICK manifest \in SUBSET (resources \ resources') :
          resources' \subseteq resources /\ skips' = Put(skips, manifest, "skipped")
    BY <1>3 DEF Genconfig
  <2>2. resources' \in SUBSET Addr /\ manifest \in SUBSET Addr
    BY <2>1 DEF TypeOK
  <2>3. skips' \in [Addr -> Status \cup {"none"}]
    BY <2>1, PutType DEF TypeOK, Status
  <2>4. TypeOK'
    BY <1>3, <2>2, <2>3 DEF Genconfig, TypeOK
  <2>5. FailedIsOut' /\ Fresh'
    BY <1>3, <2>1, PutValue, FailedIsNotNone DEF FailedIsOut, Fresh, Genconfig
  <2>6. Accounted' /\ PlanIsOfTheSet'
    BY <1>3 DEF Genconfig, Accounted, PlanIsOfTheSet
  <2>7. QED
    BY <1>3, <2>4, <2>5, <2>6, WorkPreserves DEF Genconfig
<1>4. CASE Chase
  <2>1. resources' \in SUBSET Addr
    BY <1>4, ReverseImportAssumption DEF Chase, ChasedSets, TypeOK
  <2>2. skips' \in [Addr -> Status \cup {"none"}]
    BY <1>4, PutType DEF Chase, AddMissing, TypeOK, Status
  <2>3. TypeOK'
    BY <1>4, <2>1, <2>2 DEF Chase, TypeOK
  <2>4. \A a \in Addr :
          skips'[a] = IF a \in pre \ resources' /\ skips[a] = "none" THEN "skipped" ELSE skips[a]
    BY <1>4, PutValue DEF Chase, AddMissing
  <2>5. FailedIsOut' /\ Fresh'
    BY <1>4, <2>4, FailedIsNotNone DEF Chase, FailedIsOut, Fresh
  <2>6. Accounted' /\ PlanIsOfTheSet'
    BY <1>4, <2>4, FailedIsNotNone DEF Chase, Accounted, PlanIsOfTheSet, TypeOK
  <2>7. QED
    BY <1>4, <2>3, <2>5, <2>6, WorkPreserves DEF Chase
<1>5. QED
  BY <1>1, <1>2, <1>3, <1>4
-----------------------------------------------------------------------------
LEMMA InTheFinalPlanLoop ==
  ASSUME EngineInv,
         FinalPlanGivesUp \/ PlanFails \/ PlanFailsSystemically \/ Backfill \/ PlanSucceeds
  PROVE  EngineInv'
<1> USE DEF EngineInv
<1>1. CASE FinalPlanGivesUp \/ PlanFailsSystemically
  <2>1. /\ pc \in {"plan", "replan"} /\ pc' = "done"
        /\ resources' = resources /\ skips' = skips /\ pre' = pre
        /\ importedJSON' = importedJSON /\ importedTF' \in {importedTF, resources}
        /\ attempts' = attempts /\ fiAttempts' = fiAttempts
        /\ result' = [status |-> "failed", imported |-> resources,
                      entries |-> Entries(resources, skips)]
    BY <1>1 DEF FinalPlanGivesUp, PlanFailsSystemically, Planning, WriteImportedTF, Write
  <2>2. Entries(resources, skips) \in SUBSET (Addr \X (Status \cup {"imported"}))
    BY EntriesType DEF TypeOK
  <2>3. TypeOK'
    BY <2>1, <2>2 DEF TypeOK
  <2>4. FailedIsOut' /\ \A a \in pre : a \in resources' \/ skips'[a] # "none"
    BY <2>1 DEF FailedIsOut, Accounted
  <2>5. QED
    BY <2>1, <2>3, <2>4, FailurePreserves DEF TypeOK
<1>2. CASE PlanFails
  <2>1. /\ pc \in {"plan", "replan"} /\ attempts \in 1..MaxFinalPlanIterations
        /\ importedTF' = resources
    BY <1>2 DEF PlanFails, Attributions, Planning, WriteImportedTF, TypeOK, PlanIsOfTheSet
  <2>2. PICK F \in SUBSET resources :
          /\ skips' = Put(skips, F, "failed")
          /\ resources' = DropResources(resources, F)
    BY <1>2 DEF PlanFails, Attributions
  <2>3. /\ resources' \in SUBSET Addr
        /\ skips' \in [Addr -> Status \cup {"none"}]
        /\ FailedIsOut'
        /\ \A a \in pre : a \in resources' \/ skips'[a] # "none"
    <3>1. F \in SUBSET Addr /\ pre' = pre /\ pc \in {"plan", "replan", "contract"}
      BY <1>2, <2>1 DEF PlanFails, Attributions, TypeOK
    <3>2. QED
      BY <2>2, <3>1, DropLosesNothing
  <2>4. attempts' \in 1..(MaxFinalPlanIterations + 1)
    BY <1>2, <2>1, ReverseImportAssumption DEF PlanFails, Attributions
  <2>5. TypeOK'
    BY <1>2, <2>1, <2>3, <2>4 DEF PlanFails, Attributions, TypeOK
  <2>6. Accounted' /\ PlanIsOfTheSet' /\ Fresh'
    BY <1>2, <2>3 DEF PlanFails, Attributions, Accounted, PlanIsOfTheSet, Fresh
  <2>7. QED
    BY <1>2, <2>1, <2>3, <2>5, <2>6, WorkPreserves DEF PlanFails, Attributions
<1>3. CASE Backfill
  <2>1. pc = "plan" /\ attempts <= MaxFinalPlanIterations /\ importedTF' = resources
    BY <1>3 DEF Backfill, Planning, WriteImportedTF
  <2>2. TypeOK'
    BY <1>3, <2>1 DEF Backfill, TypeOK
  <2>3. Accounted' /\ PlanIsOfTheSet' /\ FailedIsOut' /\ Fresh'
    BY <1>3, <2>1 DEF Backfill, Accounted, PlanIsOfTheSet, FailedIsOut, Fresh
  <2>4. QED
    BY <1>3, <2>1, <2>2, <2>3, WorkPreserves DEF Backfill
<1>4. CASE PlanSucceeds
  <2>1. pc \in {"plan", "replan"} /\ importedTF' = resources
    BY <1>4 DEF PlanSucceeds, Planning, WriteImportedTF
  <2>2. plan'.of = resources
    BY <1>4 DEF PlanSucceeds, PlansOf
  <2>3. TypeOK'
    BY <1>4, <2>1 DEF PlanSucceeds, TypeOK
  <2>4. Accounted' /\ PlanIsOfTheSet' /\ FailedIsOut' /\ Fresh'
    BY <1>4, <2>1, <2>2 DEF PlanSucceeds, Accounted, PlanIsOfTheSet, FailedIsOut, Fresh
  <2>5. QED
    BY <1>4, <2>1, <2>3, <2>4, WorkPreserves DEF PlanSucceeds
<1>5. QED
  BY <1>1, <1>2, <1>3, <1>4
-----------------------------------------------------------------------------
LEMMA ViolatorsAreInThePlan == Violators(plan) \subseteq plan.of
BY DEF Violators

(* Publishing: the files are those of the set, and the set with the tracker *)
(* accounts for everything that entered.                                    *)
LEMMA PublishPreserves == ASSUME EngineInv, Publish PROVE EngineInv'
<1> USE DEF EngineInv
<1>1. /\ pc = "contract" /\ pc' = "done"
      /\ resources' = resources /\ skips' = skips /\ pre' = pre /\ plan' = plan
      /\ importedTF' = importedTF /\ importedJSON' = resources
      /\ attempts' = attempts /\ fiAttempts' = fiAttempts
  BY DEF Publish, Write, Converged
<1>2. result' = [status |-> FinalStatus(resources, skips), imported |-> resources,
                 entries |-> Entries(resources, skips)]
  BY DEF Publish, Write
<1>3. Entries(resources, skips) \in SUBSET (Addr \X (Status \cup {"imported"}))
  BY EntriesType DEF TypeOK
<1>4. FinalStatus(resources, skips) \in {"failed", "partial", "succeeded"}
  BY DEF FinalStatus
<1>5. TypeOK'
  BY <1>1, <1>2, <1>3, <1>4 DEF TypeOK
<1>6. Accounted' /\ PlanIsOfTheSet' /\ WrittenAtTheEnd' /\ FailedIsOut' /\ Fresh'
  BY <1>1 DEF Accounted, PlanIsOfTheSet, WrittenAtTheEnd, FailedIsOut, Fresh
<1>7. NothingVanishes'
  <2>1. ASSUME NEW a \in pre PROVE \E e \in result'.entries : e[1] = a
    <3>1. a \in Addr /\ (a \in resources \/ skips[a] # "none")
      BY <1>1, <2>1 DEF Accounted, TypeOK
    <3>2. QED
      BY <1>2, <3>1, EntriesComplete
  <2>2. QED
    BY <1>1, <2>1 DEF NothingVanishes, Reported
<1>8. ArtifactsAgree'
  BY <1>1, <1>2 DEF ArtifactsAgree, PlanIsOfTheSet
<1>9. SucceededMeansAll'
  BY <1>1, <1>2 DEF SucceededMeansAll, FinalStatus, Accounted, TypeOK
<1>10. QED
  BY <1>5, <1>6, <1>7, <1>8, <1>9

LEMMA InTheContractLoop ==
  ASSUME EngineInv, ContractFails \/ ContractGivesUp \/ ContractDrop \/ Publish
  PROVE  EngineInv'
<1> USE DEF EngineInv
<1>1. CASE ContractFails \/ ContractGivesUp
  <2>1. /\ pc = "contract" /\ pc' = "done"
        /\ resources' = resources /\ skips' = skips /\ pre' = pre
        /\ importedJSON' = importedJSON /\ importedTF' = importedTF
        /\ attempts' = attempts /\ fiAttempts' = fiAttempts
        /\ result' = [status |-> "failed", imported |-> resources,
                      entries |-> Entries(resources, skips)]
    BY <1>1 DEF ContractFails, ContractGivesUp, Write
  <2>2. Entries(resources, skips) \in SUBSET (Addr \X (Status \cup {"imported"}))
    BY EntriesType DEF TypeOK
  <2>3. TypeOK'
    BY <2>1, <2>2 DEF TypeOK
  <2>4. FailedIsOut' /\ \A a \in pre : a \in resources' \/ skips'[a] # "none"
    BY <2>1 DEF FailedIsOut, Accounted
  <2>5. QED
    BY <2>1, <2>3, <2>4, FailurePreserves DEF TypeOK
<1>2. CASE ContractDrop
  <2>1. /\ pc = "contract" /\ pre' = pre /\ attempts' = attempts
        /\ resources' = DropResources(resources, Violators(plan))
        /\ skips' = Put(skips, Violators(plan), "failed")
        /\ fiAttempts \in 1..MaxFinalPlanIterations
    BY <1>2, ReverseImportAssumption DEF ContractDrop, WriteImportedTF, RoundsExhausted, TypeOK
  <2>2. Violators(plan) \in SUBSET Addr
    BY <2>1, ViolatorsAreInThePlan DEF PlanIsOfTheSet, TypeOK
  <2>3. /\ resources' \in SUBSET Addr
        /\ skips' \in [Addr -> Status \cup {"none"}]
        /\ FailedIsOut'
        /\ \A a \in pre : a \in resources' \/ skips'[a] # "none"
    BY <2>1, <2>2, DropLosesNothing
  <2>4. /\ fiAttempts' \in 1..(MaxFinalPlanIterations + 1)
        /\ importedJSON' \in SUBSET Addr /\ importedTF' \in SUBSET Addr
    BY <1>2, <2>1, <2>3, ReverseImportAssumption DEF ContractDrop, WriteImportedTF, TypeOK
  <2>5. CASE pc' = "done" /\ result' = [status |-> "failed", imported |-> {},
                                       entries |-> Entries(resources', skips')]
    <3>1. Entries(resources', skips') \in SUBSET (Addr \X (Status \cup {"imported"}))
      BY <2>3, EntriesType
    <3>2. TypeOK'
      BY <2>1, <2>3, <2>4, <2>5, <3>1 DEF TypeOK
    <3>3. QED
      BY <2>1, <2>3, <2>5, <3>2, FailurePreserves
  <2>6. CASE /\ pc' = pc /\ result' = result
             /\ plan' \in PlansOf(resources') /\ importedTF' = resources'
    <3>1. plan'.of = resources'
      BY <2>6 DEF PlansOf
    <3>2. TypeOK'
      BY <2>1, <2>3, <2>4, <2>6 DEF TypeOK
    <3>3. Accounted' /\ PlanIsOfTheSet' /\ Fresh'
      BY <2>1, <2>3, <2>6, <3>1 DEF Accounted, PlanIsOfTheSet, Fresh
    <3>4. QED
      BY <2>1, <2>3, <2>6, <3>2, <3>3, WorkPreserves
  <2>7. QED
    BY <1>2, <2>5, <2>6 DEF ContractDrop, WriteImportedTF, Write
<1>3. CASE Publish
  BY <1>3, PublishPreserves
<1>4. QED
  BY <1>1, <1>2, <1>3
-----------------------------------------------------------------------------
LEMMA StepFailsPreserves == ASSUME EngineInv, StepFails PROVE EngineInv'
<1> USE DEF EngineInv
<1>1. /\ pc # "done" /\ pc' = "done" /\ result' = result /\ pre' = pre
      /\ resources' = resources /\ skips' = skips
  BY DEF StepFails
<1>2. TypeOK'
  BY DEF StepFails, TypeOK
<1>3. result'.status = "unwritten"
  BY <1>1 DEF WrittenAtTheEnd
<1>4. Accounted' /\ PlanIsOfTheSet' /\ WrittenAtTheEnd' /\ FailedIsOut' /\ Fresh'
  BY <1>1 DEF Accounted, PlanIsOfTheSet, WrittenAtTheEnd, FailedIsOut, Fresh
<1>5. NothingVanishes' /\ ArtifactsAgree' /\ SucceededMeansAll'
  BY <1>3 DEF NothingVanishes, ArtifactsAgree, SucceededMeansAll, Published
<1>6. QED
  BY <1>2, <1>4, <1>5

LEMMA StutterPreserves == ASSUME EngineInv, UNCHANGED vars PROVE EngineInv'
BY DEF vars, EngineInv, TypeOK, Accounted, PlanIsOfTheSet, WrittenAtTheEnd, FailedIsOut,
   Fresh, NothingVanishes, Reported, ArtifactsAgree, SucceededMeansAll, Published

(* The engine's invariant: type correctness, the sets in step with the      *)
(* tracker and the plan, and what a written result says of them.            *)
THEOREM EngineInvariant == Spec => []EngineInv
<1>1. EngineInv /\ [Next]_vars => EngineInv'
  BY BeforeTheLoops, InTheFinalPlanLoop, InTheContractLoop, StepFailsPreserves,
     StutterPreserves DEF Next
<1>2. QED
  BY InitEngineInv, <1>1, PTL DEF Spec

(* Type correctness of the engine, for every set of resources and bound.    *)
THEOREM TypeCorrect == Spec => []TypeOK
<1>1. EngineInv => TypeOK
  BY DEF EngineInv
<1>2. QED
  BY <1>1, EngineInvariant, PTL

(* Whatever entered config generation is in every result that is written.   *)
THEOREM EverythingReported == Spec => []NothingVanishes
<1>1. EngineInv => NothingVanishes
  BY DEF EngineInv
<1>2. QED
  BY <1>1, EngineInvariant, PTL

(* imported.json, imported.tf and the accepted plan describe the published  *)
(* resources.                                                               *)
THEOREM PublishedFilesAgree == Spec => []ArtifactsAgree
<1>1. EngineInv => ArtifactsAgree
  BY DEF EngineInv
<1>2. QED
  BY <1>1, EngineInvariant, PTL

(* A run that says succeeded imported all that entered config generation.   *)
THEOREM SuccessIsComplete == Spec => []SucceededMeansAll
<1>1. EngineInv => SucceededMeansAll
  BY DEF EngineInv
<1>2. QED
  BY <1>1, EngineInvariant, PTL
-----------------------------------------------------------------------------
(* In the loops a resource leaves the set only by being marked failed.      *)
LEMMA DropMarks ==
  ASSUME TypeOK, NEW F, resources' = DropResources(resources, F),
         skips' = Put(skips, F, "failed")
  PROVE  \A a \in resources \ resources' : skips'[a] = "failed"
BY PutValue DEF DropResources, TypeOK

LEMMA StepDropsAreFailures ==
  ASSUME TypeOK, [Next]_vars, pc \in {"plan", "replan", "contract"},
         NEW a \in resources \ resources'
  PROVE  skips'[a] = "failed"
<1>1. CASE PlanFails
  BY <1>1, DropMarks DEF PlanFails, Attributions
<1>2. CASE ContractDrop
  BY <1>2, DropMarks DEF ContractDrop, WriteImportedTF
<1>3. CASE RejectSelection \/ ExpandClosure \/ Genconfig \/ Chase
  BY <1>3 DEF RejectSelection, ExpandClosure, Genconfig, Chase
<1>4. CASE FinalPlanGivesUp \/ PlanFailsSystemically \/ Backfill \/ PlanSucceeds
  BY <1>4 DEF FinalPlanGivesUp, PlanFailsSystemically, Backfill, PlanSucceeds
<1>5. CASE ContractFails \/ ContractGivesUp \/ Publish \/ StepFails \/ UNCHANGED vars
  BY <1>5 DEF ContractFails, ContractGivesUp, Publish, StepFails, vars
<1>6. QED
  BY <1>1, <1>2, <1>3, <1>4, <1>5 DEF Next

(* Once the set is final, a resource leaves it only as a failure.           *)
THEOREM EveryDropIsAFailure == Spec => DropsAreFailures
<1>1. TypeOK /\ [Next]_vars =>
        [(pc \in {"plan", "replan", "contract"}) =>
           (\A a \in resources \ resources' : skips'[a] = "failed")]_vars
  BY StepDropsAreFailures
<1>2. QED
  BY <1>1, TypeCorrect, PTL DEF Spec, DropsAreFailures
-----------------------------------------------------------------------------
(* A step that writes a result lists the set and the tracker as it leaves   *)
(* them, or nothing at all.                                                 *)
LEMMA WhatIsWritten ==
  ASSUME [Next]_vars
  PROVE  \/ result' = result
         \/ result'.entries = Entries(resources', skips')
         \/ result'.entries = {}
<1>1. CASE RejectSelection \/ ExpandClosure \/ Genconfig \/ Chase
  BY <1>1 DEF RejectSelection, ExpandClosure, Genconfig, Chase, Write
<1>2. CASE FinalPlanGivesUp \/ PlanFails \/ PlanFailsSystemically \/ Backfill \/ PlanSucceeds
  BY <1>2 DEF FinalPlanGivesUp, PlanFails, Attributions, PlanFailsSystemically, Backfill, PlanSucceeds, Write
<1>3. CASE ContractFails \/ ContractGivesUp \/ ContractDrop
  BY <1>3 DEF ContractFails, ContractGivesUp, ContractDrop, WriteImportedTF, Write
<1>4. CASE Publish \/ StepFails \/ UNCHANGED vars
  BY <1>4 DEF Publish, StepFails, vars, Write
<1>5. QED
  BY <1>1, <1>2, <1>3, <1>4 DEF Next

LEMMA EntriesTellFailures ==
  ASSUME NEW R, NEW s, NEW a \in Addr, \A b \in Addr : s[b] = "failed" => b \notin R,
         <<a, "failed">> \in Entries(R, s)
  PROVE  <<a, "imported">> \notin Entries(R, s)
<1>1. s[a] = "failed"
  BY DEF Entries
<1>2. QED
  BY <1>1 DEF Entries

(* A failed resource is neither planned nor published, on any way out.      *)
THEOREM FailedNeverComesBack == Spec => []FailedStaysOut
<1>1. Init => FailedStaysOut
  BY DEF Init, FailedStaysOut, NoResult
<1>2. EngineInv' /\ FailedStaysOut /\ [Next]_vars => FailedStaysOut'
  <2> SUFFICES ASSUME EngineInv', FailedStaysOut, [Next]_vars PROVE FailedStaysOut'
    OBVIOUS
  <2>1. \A a \in Addr : skips'[a] = "failed" => a \notin resources'
    BY DEF EngineInv, FailedIsOut
  <2>2. ASSUME NEW a \in Addr, <<a, "failed">> \in result'.entries
        PROVE  <<a, "imported">> \notin result'.entries
    BY <2>1, <2>2, WhatIsWritten, EntriesTellFailures DEF FailedStaysOut
  <2>3. QED
    BY <2>1, <2>2 DEF FailedStaysOut
<1>3. QED
  BY <1>1, <1>2, EngineInvariant, PTL DEF Spec
-----------------------------------------------------------------------------
(* What Terraform answers is a plan.                                        *)
PlanTyped == pc = "contract" => plan.change \in [plan.of -> Change]

CleanPlan == PlanTyped /\ PublishedPlanImportsOnly

LEMMA CleanPlanInit == Init => CleanPlan
BY DEF Init, CleanPlan, PlanTyped, PublishedPlanImportsOnly, Published, NoResult

(* Only Publish writes a result that is not a failure.                      *)
LEMMA OnlyPublishPublishes ==
  ASSUME EngineInv, [Next]_vars, Published', ~Publish
  PROVE  Published /\ result' = result /\ plan' = plan
<1>1. CASE RejectSelection \/ ExpandClosure \/ Genconfig \/ Chase
  BY <1>1 DEF RejectSelection, ExpandClosure, Genconfig, Chase, Write, Published
<1>2. CASE FinalPlanGivesUp \/ PlanFails \/ PlanFailsSystemically \/ Backfill
  BY <1>2 DEF FinalPlanGivesUp, PlanFails, Attributions, PlanFailsSystemically, Backfill, Write, Published
<1>3. CASE PlanSucceeds \/ ContractDrop
  <2>1. result.status = "unwritten"
    BY <1>3 DEF EngineInv, WrittenAtTheEnd, PlanSucceeds, Planning, WriteImportedTF, ContractDrop
  <2>2. result' = result \/ result'.status = "failed"
    BY <1>3 DEF PlanSucceeds, ContractDrop, WriteImportedTF, Write
  <2>3. QED
    BY <2>1, <2>2 DEF Published
<1>4. CASE ContractFails \/ ContractGivesUp \/ StepFails \/ UNCHANGED vars
  BY <1>4 DEF ContractFails, ContractGivesUp, StepFails, vars, Write, Published
<1>5. QED
  BY <1>1, <1>2, <1>3, <1>4 DEF Next

LEMMA PlanStaysTyped == ASSUME PlanTyped, [Next]_vars PROVE PlanTyped'
<1> USE DEF PlanTyped
<1>1. CASE PlanSucceeds
  BY <1>1 DEF PlanSucceeds, PlansOf
<1>2. CASE ContractDrop
  <2>1. CASE plan' \in PlansOf(resources')
    BY <2>1 DEF PlansOf
  <2>2. CASE pc' = "done"
    BY <2>2
  <2>3. QED
    BY <1>2, <2>1, <2>2 DEF ContractDrop, WriteImportedTF, Write
<1>3. CASE RejectSelection \/ ExpandClosure \/ Genconfig \/ Chase
  BY <1>3 DEF RejectSelection, ExpandClosure, Genconfig, Chase, Write
<1>4. CASE FinalPlanGivesUp \/ PlanFails \/ PlanFailsSystemically \/ Backfill
  BY <1>4 DEF FinalPlanGivesUp, PlanFails, Attributions, PlanFailsSystemically, Backfill, Write
<1>5. CASE ContractFails \/ ContractGivesUp \/ Publish \/ StepFails \/ UNCHANGED vars
  BY <1>5 DEF ContractFails, ContractGivesUp, Publish, StepFails, vars, Write
<1>6. QED
  BY <1>1, <1>2, <1>3, <1>4, <1>5 DEF Next

LEMMA CleanPlanNext == ASSUME EngineInv, CleanPlan, [Next]_vars PROVE CleanPlan'
<1> USE DEF CleanPlan
<1>1. PlanTyped'
  BY PlanStaysTyped
<1>2. CASE Publish
  <2>1. /\ pc = "contract" /\ plan' = plan /\ Clean
        /\ result'.imported = resources
    BY <1>2 DEF Publish, Write
  <2>2. \A a \in plan.of : plan.change[a] \in {"import", "none"}
    BY <2>1 DEF Clean, Violators, PlanTyped, Change
  <2>3. QED
    BY <1>1, <2>1, <2>2 DEF Clean, Unattributable, AsExpected, PublishedPlanImportsOnly
<1>3. CASE ~Publish
  BY <1>1, <1>3, OnlyPublishPublishes DEF PublishedPlanImportsOnly
<1>4. QED
  BY <1>2, <1>3

(* The plan that is published is imports only and has as many imports as    *)
(* the result has resources.                                                *)
THEOREM PublishedPlanIsClean == Spec => []PublishedPlanImportsOnly
<1>1. CleanPlan => PublishedPlanImportsOnly
  BY DEF CleanPlan
<1>2. QED
  BY CleanPlanInit, CleanPlanNext, <1>1, EngineInvariant, PTL DEF Spec
-----------------------------------------------------------------------------
(* Failures add up: a step that fails a non-empty part of the set makes the *)
(* failed resources more.                                                   *)
LEMMA FailuresGrow ==
  ASSUME EngineInv, NEW F \in SUBSET resources,
         skips' = Put(skips, F, "failed")
  PROVE  /\ Cardinality(Failed) \in Nat /\ Cardinality(Failed') \in Nat
         /\ Cardinality(Failed') >= Cardinality(Failed)
         /\ F # {} => Cardinality(Failed') >= Cardinality(Failed) + 1
<1>1. \A a \in Addr : skips'[a] = IF a \in F THEN "failed" ELSE skips[a]
  BY PutValue
<1>2. Failed \subseteq Failed' /\ Failed' \in SUBSET Addr
  BY <1>1 DEF Failed
<1>3. IsFiniteSet(Addr)
  BY ReverseImportAssumption
<1>4. IsFiniteSet(Failed') /\ IsFiniteSet(Failed)
  BY <1>2, <1>3, FS_Subset
<1>5. /\ Cardinality(Failed) \in Nat /\ Cardinality(Failed') \in Nat
      /\ Cardinality(Failed) <= Cardinality(Failed')
      /\ Cardinality(Failed) = Cardinality(Failed') => Failed = Failed'
  BY <1>2, <1>4, FS_Subset, FS_CardinalityType
<1>6. ASSUME F # {} PROVE Failed # Failed'
  <2>1. PICK a \in F : TRUE
    BY <1>6
  <2>2. a \in Addr /\ a \notin Failed
    BY <2>1 DEF EngineInv, FailedIsOut, TypeOK, Failed
  <2>3. a \in Failed'
    BY <1>1, <2>1, <2>2 DEF Failed
  <2>4. QED
    BY <2>2, <2>3
<1>7. QED
  BY <1>5, <1>6

LEMMA CountersStay ==
  ASSUME RoundsDropResources, attempts' = attempts, fiAttempts' = fiAttempts,
         Failed' = Failed
  PROVE  RoundsDropResources'
BY DEF RoundsDropResources

(* No round of either loop is spent without failing a resource for good.    *)
THEOREM NoRoundIsSpentInVain == Spec => []RoundsDropResources
<1>1. Init => RoundsDropResources
  <2> SUFFICES ASSUME Init PROVE RoundsDropResources
    OBVIOUS
  <2>1. Failed = {}
    BY DEF Init, Failed
  <2>2. QED
    BY <2>1, FS_EmptySet DEF Init, RoundsDropResources
<1>2. EngineInv /\ RoundsDropResources /\ [Next]_vars => RoundsDropResources'
  <2> SUFFICES ASSUME EngineInv, RoundsDropResources, [Next]_vars
               PROVE  RoundsDropResources'
    OBVIOUS
  <2>1. attempts \in Nat /\ fiAttempts \in Nat
    BY DEF EngineInv, TypeOK
  <2>2. CASE PlanFails
    <3>1. PICK F \in SUBSET resources : F # {} /\ skips' = Put(skips, F, "failed")
      BY <2>2 DEF PlanFails, Attributions
    <3>2. attempts' = attempts + 1 /\ fiAttempts' = fiAttempts
      BY <2>2 DEF PlanFails, Attributions
    <3>3. QED
      BY <2>1, <3>1, <3>2, FailuresGrow DEF RoundsDropResources
  <2>3. CASE ContractDrop
    <3>1. Violators(plan) \in SUBSET resources /\ Violators(plan) # {}
      BY <2>3, ViolatorsAreInThePlan DEF ContractDrop, WriteImportedTF, EngineInv, PlanIsOfTheSet
    <3>2. /\ skips' = Put(skips, Violators(plan), "failed")
          /\ attempts' = attempts /\ fiAttempts' \in {fiAttempts, fiAttempts + 1}
      BY <2>3 DEF ContractDrop, WriteImportedTF
    <3>3. QED
      BY <2>1, <3>1, <3>2, FailuresGrow DEF RoundsDropResources
  <2>4. CASE Genconfig \/ Chase
    <3>1. \A a \in Addr : skips[a] # "failed" /\ skips'[a] # "failed"
      BY <2>4, PutValue, FailedIsNotNone
         DEF EngineInv, Fresh, Genconfig, Chase, AddMissing
    <3>2. Failed' = Failed
      BY <3>1 DEF Failed
    <3>3. QED
      BY <2>4, <3>2, CountersStay DEF Genconfig, Chase
  <2>5. CASE RejectSelection \/ ExpandClosure \/ FinalPlanGivesUp
             \/ PlanFailsSystemically \/ Backfill \/ PlanSucceeds
    BY <2>5, CountersStay DEF RejectSelection, ExpandClosure, FinalPlanGivesUp,
       PlanFailsSystemically, Backfill, PlanSucceeds, Failed
  <2>6. CASE ContractFails \/ ContractGivesUp \/ Publish \/ StepFails \/ UNCHANGED vars
    BY <2>6, CountersStay DEF ContractFails, ContractGivesUp, Publish, StepFails, vars,
       Failed
  <2>7. QED
    BY <2>2, <2>3, <2>4, <2>5, <2>6 DEF Next
<1>3. QED
  BY <1>1, <1>2, EngineInvariant, PTL DEF Spec

(* Every result accounts for everything that entered config generation, and *)
(* one that says succeeded imported all of it.                              *)
THEOREM TheResultAccounts == Spec => []EverythingAccounted
<1>1. NothingVanishes /\ SucceededMeansAll => EverythingAccounted
  BY DEF EverythingAccounted
<1> QED BY <1>1, EverythingReported, SuccessIsComplete, PTL
-----------------------------------------------------------------------------
(* The one way to two entries: genconfig skips a resource, and the chase    *)
(* adopts it again.                                                         *)
SkippedAreOut ==
  /\ pc \in {"closure", "genconfig"} => \A a \in Addr : skips[a] = "none"
  /\ \A a \in resources : skips[a] # "none" => skips[a] = "skipped" /\ a \in Adoptable

OnlyReadoptionDoubles ==
  \A a \in Addr : \A st \in Status :
    <<a, "imported">> \in result.entries /\ <<a, st>> \in result.entries
      => st = "skipped" /\ a \in Adoptable

LEMMA MarkingFailedKeepsOut ==
  ASSUME EngineInv, SkippedAreOut, NEW F, pc' = "plan" \/ pc' = "contract" \/ pc' = "done",
         resources' = DropResources(resources, F), skips' = Put(skips, F, "failed")
  PROVE  SkippedAreOut'
<1>1. resources \in SUBSET Addr
  BY DEF EngineInv, TypeOK
<1>2. ASSUME NEW a \in resources' PROVE a \in resources /\ skips'[a] = skips[a]
  BY <1>1, <1>2, PutValue DEF DropResources
<1>3. QED
  BY <1>2 DEF SkippedAreOut

LEMMA SkippedAreOutNext ==
  ASSUME EngineInv, SkippedAreOut, [Next]_vars PROVE SkippedAreOut'
<1>t. resources \in SUBSET Addr
  BY DEF EngineInv, TypeOK
<1>1. CASE Genconfig
  <2>1. PICK manifest \in SUBSET (resources \ resources') :
          resources' \subseteq resources /\ skips' = Put(skips, manifest, "skipped")
    BY <1>1 DEF Genconfig
  <2>2. ASSUME NEW a \in resources' PROVE skips'[a] = "none"
    BY <1>1, <1>t, <2>1, <2>2, PutValue DEF SkippedAreOut, Genconfig
  <2>3. QED
    BY <1>1, <2>2 DEF SkippedAreOut, Genconfig
<1>2. CASE Chase
  <2>1. \A a \in Addr :
          skips'[a] = IF a \in pre \ resources' /\ skips[a] = "none" THEN "skipped" ELSE skips[a]
    BY <1>2, PutValue DEF Chase, AddMissing
  <2>2. ASSUME NEW a \in resources', skips'[a] # "none"
        PROVE  skips'[a] = "skipped" /\ a \in Adoptable
    <3>1. a \in Addr /\ a \in resources \cup Adoptable
      BY <1>2, <1>t, <2>2, ReverseImportAssumption DEF Chase, ChasedSets
    <3>2. skips'[a] = skips[a] /\ skips[a] # "failed"
      BY <1>2, <2>1, <2>2, <3>1 DEF Chase, EngineInv, Fresh
    <3>3. skips[a] = "skipped"
      BY <2>2, <3>1, <3>2 DEF EngineInv, TypeOK, Status
    <3>4. QED
      BY <3>1, <3>2, <3>3, FailedIsNotNone DEF SkippedAreOut
  <2>3. QED
    BY <1>2, <2>2 DEF SkippedAreOut, Chase
<1>3. CASE PlanFails
  BY <1>3, MarkingFailedKeepsOut DEF PlanFails
<1>4. CASE ContractDrop
  <2>1. pc' = "contract" \/ pc' = "done"
    BY <1>4 DEF ContractDrop, Write
  <2>2. QED
    BY <1>4, <2>1, MarkingFailedKeepsOut DEF ContractDrop
<1>5. CASE ExpandClosure
  BY <1>5, <1>t, ReverseImportAssumption DEF ExpandClosure, SkippedAreOut
<1>6. CASE RejectSelection \/ FinalPlanGivesUp \/ PlanFailsSystemically \/ Backfill
           \/ PlanSucceeds
  BY <1>6 DEF RejectSelection, FinalPlanGivesUp, PlanFailsSystemically, Backfill,
     PlanSucceeds, Write, SkippedAreOut
<1>7. CASE ContractFails \/ ContractGivesUp \/ Publish \/ StepFails \/ UNCHANGED vars
  BY <1>7 DEF ContractFails, ContractGivesUp, Publish, StepFails, vars, Write, SkippedAreOut
<1>8. QED
  BY <1>1, <1>2, <1>3, <1>4, <1>5, <1>6, <1>7 DEF Next

LEMMA EntriesOfOne ==
  ASSUME NEW R, NEW s, NEW a \in Addr, NEW st \in Status,
         <<a, "imported">> \in Entries(R, s), <<a, st>> \in Entries(R, s),
         \A b \in Addr : s[b] # "imported"
  PROVE  a \in R /\ s[a] = st
BY DEF Entries, Status

(* Only a resource that genconfig skipped and the chase adopted again is    *)
(* reported twice, as imported and as skipped: the double report that the   *)
(* code permits has no other cause, and a failure is never part of one.     *)
THEOREM DoubleReportHasOneCause == Spec => []OnlyReadoptionDoubles
<1>1. Init => SkippedAreOut /\ OnlyReadoptionDoubles
  <2> SUFFICES ASSUME Init PROVE SkippedAreOut /\ OnlyReadoptionDoubles
    OBVIOUS
  <2>1. resources \subseteq Addr
    BY ReverseImportAssumption DEF Init
  <2>2. QED
    BY <2>1 DEF Init, SkippedAreOut, OnlyReadoptionDoubles, NoResult
<1>2. EngineInv /\ SkippedAreOut /\ [Next]_vars => SkippedAreOut'
  BY SkippedAreOutNext
<1>3. EngineInv' /\ SkippedAreOut' /\ OnlyReadoptionDoubles /\ [Next]_vars
        => OnlyReadoptionDoubles'
  <2> SUFFICES ASSUME EngineInv', SkippedAreOut', OnlyReadoptionDoubles, [Next]_vars,
                      NEW a \in Addr, NEW st \in Status,
                      <<a, "imported">> \in result'.entries, <<a, st>> \in result'.entries
               PROVE  st = "skipped" /\ a \in Adoptable
    BY DEF OnlyReadoptionDoubles
  <2>1. CASE result' = result
    BY <2>1 DEF OnlyReadoptionDoubles
  <2>2. CASE result'.entries = Entries(resources', skips')
    <3>1. \A b \in Addr : skips'[b] # "imported"
      BY DEF EngineInv, TypeOK, Status
    <3>2. a \in resources' /\ skips'[a] = st
      BY <2>2, <3>1, EntriesOfOne
    <3>3. QED
      BY <3>2 DEF SkippedAreOut, Status
  <2>3. QED
    BY <2>1, <2>2, WhatIsWritten
<1>4. QED
  BY <1>1, <1>2, <1>3, EngineInvariant, PTL DEF Spec

(* Where the chase adopts nothing (the run without a dependency chase), the *)
(* imported of a result appear in it with no other entry.                   *)
COROLLARY WithoutAdoptionNoDoubles ==
  ASSUME Adoptable = {}
  PROVE  Spec => [](\A a \in Addr : \A st \in Status :
                      <<a, "imported">> \in result.entries => <<a, st>> \notin result.entries)
<1>1. OnlyReadoptionDoubles =>
        \A a \in Addr : \A st \in Status :
          <<a, "imported">> \in result.entries => <<a, st>> \notin result.entries
  BY DEF OnlyReadoptionDoubles
<1>2. QED
  BY <1>1, DoubleReportHasOneCause, PTL
-----------------------------------------------------------------------------
(* How much work a run has left: the rounds of both loops and the phases to *)
(* come.                                                                    *)
PhasesLeft ==
  CASE pc = "closure" -> 6
    [] pc = "genconfig" -> 5
    [] pc = "chase" -> 4
    [] pc = "plan" -> 3
    [] pc = "replan" -> 2
    [] pc = "contract" -> 1
    [] pc = "done" -> 0

StepsLeft ==
  PhasesLeft + 3 * (MaxFinalPlanIterations + 1 - attempts)
             + (MaxFinalPlanIterations + 1 - fiAttempts)

LEMMA StepsLeftBounded ==
  ASSUME TypeOK PROVE StepsLeft \in 0 .. (4 * MaxFinalPlanIterations + 6)
<1>1. PhasesLeft \in 0..6
  BY DEF TypeOK, PhasesLeft
<1>2. QED
  BY <1>1, ReverseImportAssumption DEF TypeOK, StepsLeft

LEMMA LessIsLeft ==
  ASSUME NEW N \in Nat, NEW p1 \in Nat, NEW p2 \in Nat, NEW a1 \in Nat, NEW a2 \in Nat,
         NEW f1 \in Nat, NEW f2 \in Nat, a2 >= a1, f2 >= f1,
         \/ p2 < p1
         \/ p2 <= p1 + 1 /\ a2 > a1
         \/ p2 <= p1 /\ f2 > f1
  PROVE  p2 + 3 * (N + 1 - a2) + (N + 1 - f2) < p1 + 3 * (N + 1 - a1) + (N + 1 - f1)
OBVIOUS

LEMMA StepDescends ==
  ASSUME EngineInv, TypeOK', Next PROVE StepsLeft' < StepsLeft
<1>t. /\ attempts \in Nat /\ attempts' \in Nat /\ fiAttempts \in Nat /\ fiAttempts' \in Nat
      /\ PhasesLeft \in Nat /\ PhasesLeft' \in Nat /\ MaxFinalPlanIterations \in Nat
  BY ReverseImportAssumption DEF EngineInv, TypeOK, PhasesLeft
<1>1. CASE RejectSelection \/ ExpandClosure \/ Genconfig \/ Chase
  <2>1. PhasesLeft' < PhasesLeft /\ attempts' >= attempts /\ fiAttempts' >= fiAttempts
    BY <1>t, <1>1 DEF RejectSelection, ExpandClosure, Genconfig, Chase, Write, PhasesLeft
  <2>2. QED
    BY <1>t, <2>1, LessIsLeft DEF StepsLeft
<1>2. CASE FinalPlanGivesUp \/ PlanFailsSystemically \/ Backfill \/ PlanSucceeds
  <2>1. PhasesLeft' < PhasesLeft /\ attempts' >= attempts /\ fiAttempts' >= fiAttempts
    BY <1>t, <1>2 DEF FinalPlanGivesUp, PlanFailsSystemically, Backfill, PlanSucceeds, Planning,
       Write, PhasesLeft
  <2>2. QED
    BY <1>t, <2>1, LessIsLeft DEF StepsLeft
<1>3. CASE PlanFails
  <2>1. /\ PhasesLeft' <= PhasesLeft + 1
        /\ attempts' >= attempts /\ attempts' > attempts /\ fiAttempts' >= fiAttempts
    BY <1>t, <1>3 DEF PlanFails, Planning, PhasesLeft
  <2>2. QED
    BY <1>t, <2>1, LessIsLeft DEF StepsLeft
<1>4. CASE ContractFails \/ ContractGivesUp \/ Publish
  <2>1. PhasesLeft' < PhasesLeft /\ attempts' >= attempts /\ fiAttempts' >= fiAttempts
    BY <1>t, <1>4 DEF ContractFails, ContractGivesUp, Publish, Write, PhasesLeft
  <2>2. QED
    BY <1>t, <2>1, LessIsLeft DEF StepsLeft
<1>5. CASE ContractDrop
  <2>1. /\ attempts' >= attempts /\ fiAttempts' >= fiAttempts
        /\ \/ PhasesLeft' <= PhasesLeft /\ fiAttempts' > fiAttempts
           \/ PhasesLeft' < PhasesLeft
    BY <1>t, <1>5 DEF ContractDrop, Write, PhasesLeft
  <2>2. QED
    BY <1>t, <2>1, LessIsLeft DEF StepsLeft
<1>6. CASE StepFails
  <2>1. PhasesLeft' < PhasesLeft /\ attempts' >= attempts /\ fiAttempts' >= fiAttempts
    BY <1>t, <1>6 DEF StepFails, EngineInv, TypeOK, PhasesLeft
  <2>2. QED
    BY <1>t, <2>1, LessIsLeft DEF StepsLeft
<1>7. QED
  BY <1>1, <1>2, <1>3, <1>4, <1>5, <1>6 DEF Next

(* A run is finite: whatever Terraform answers, every step brings it closer *)
(* to its end, and it takes at most four steps per permitted round and six. *)
(* So it ends as soon as every call it waits for returns.                   *)
THEOREM RunsAreFinite ==
  Spec => [](StepsLeft \in 0 .. (4 * MaxFinalPlanIterations + 6))
          /\ [][StepsLeft' < StepsLeft]_vars
<1>1. TypeOK => StepsLeft \in 0 .. (4 * MaxFinalPlanIterations + 6)
  BY StepsLeftBounded
<1>2. EngineInv /\ TypeOK' /\ [Next]_vars => [StepsLeft' < StepsLeft]_vars
  BY StepDescends
<1>3. QED
  BY <1>1, <1>2, EngineInvariant, TypeCorrect, PTL DEF Spec
-----------------------------------------------------------------------------
(* The engine hands its resources to the chase and takes over what comes    *)
(* back.  Between them stands the closure contract, which DepChase           *)
(* implements: the engine's action Chase allows every set that a chase under *)
(* the contract can end with.                                               *)
CONSTANT Handed
VARIABLES refers, managed, open

Chased == INSTANCE ClosureContract WITH Operator <- Handed

Manageable == managed \in ChasedSets(Handed)

(* The engine waits in its chase, which was handed its resources, and goes   *)
(* on with those the chase manages.                                         *)
ChaseReturns ==
  /\ pc = "chase" /\ Handed = resources
  /\ resources' = managed
  /\ skips' = AddMissing(skips, managed) /\ importedJSON' = managed
  /\ pc' = "plan"
  /\ UNCHANGED <<pre, attempts, fiAttempts, plan, importedTF, result>>

(* Whenever a chase that keeps the contract returns, also when it breaks    *)
(* off, what the engine goes on with is a step Chase of the engine; and     *)
(* nothing joins once the chase is over.  So what is proved of the engine   *)
(* needs no more of a chase than its contract.                              *)
THEOREM ChaseKeepsItsContract ==
  Chased!Spec => [][ChaseReturns => Chase]_<<vars, managed>>
                 /\ [][open \/ managed' = managed]_(Chased!vars)
<1>1. Chased!Init => Manageable
  BY DEF Chased!Init, Manageable, ChasedSets
<1>2. Manageable /\ [Chased!Next]_(Chased!vars) => Manageable'
  <2>1. ASSUME Manageable, NEW S \in SUBSET Addr, Chased!Adopt(S) PROVE Manageable'
    <3>1. S \subseteq Adoptable /\ managed # {} /\ managed' \subseteq managed \cup S
      BY <2>1 DEF Chased!Adopt, Chased!ReferredTo
    <3>2. managed \subseteq Handed \cup Adoptable /\ Handed # {}
      BY <2>1, <3>1 DEF Manageable, ChasedSets
    <3>3. QED
      BY <3>1, <3>2 DEF Manageable, ChasedSets
  <2>2. QED
    BY <2>1 DEF Chased!Next, Chased!Close, Chased!vars, Manageable
<1>3. Manageable => [ChaseReturns => Chase]_<<vars, managed>>
  BY DEF Manageable, ChaseReturns, Chase
<1>4. [Chased!Next]_(Chased!vars) => [open \/ managed' = managed]_(Chased!vars)
  BY DEF Chased!Next, Chased!Adopt, Chased!Close, Chased!vars
<1>5. QED
  BY <1>1, <1>2, <1>3, <1>4, PTL DEF Chased!Spec
=============================================================================
