--------------------------- MODULE DriftFixProofs ---------------------------
(***************************************************************************)
(* Proofs about the drift-convergence loop, for every set of attributes,   *)
(* every iteration bound and both kinds of cloud.                          *)
(***************************************************************************)
EXTENDS DriftFix, TLAPS

LEMMA InitTypeOK == Init => TypeOK
BY DriftFixAssumption DEF Init, TypeOK, file, Plan, NoChanges, Outcome

(* Every plan Terraform can answer is a plan. *)
LEMMA PlansAreTyped == ASSUME TypeOK PROVE Plans \subseteq Plan
BY DEF TypeOK, Plans, Plan, PlannedDrifts, SteadyDrift, Hopeless, Unreachable

LEMMA NextTypeOK == TypeOK /\ [Next]_vars => TypeOK'
<1> SUFFICES ASSUME TypeOK, [Next]_vars PROVE TypeOK'
  OBVIOUS
<1> USE DEF TypeOK, Outcome, Return
<1>1. CASE PlanStack
  BY <1>1, PlansAreTyped DEF PlanStack, file
<1>2. CASE StepFails
  BY <1>2 DEF StepFails
<1>3. CASE DropDrift
  BY <1>3 DEF DropDrift, Plan, Drift
<1>4. CASE Escalate
  BY <1>4 DEF Escalate, Plan, Drift
<1>5. CASE GiveUp
  BY <1>5 DEF GiveUp
<1>6. CASE Validate
  <2>1. iter' \in 1..MaxIterations
    BY <1>6, DriftFixAssumption DEF Validate, NextIteration
  <2>2. pc' \in {"plan", "done"} /\ outcome' \in Outcome
    BY <1>6 DEF Validate, NextIteration
  <2>3. QED
    BY <1>6, <2>1, <2>2 DEF Validate
<1>7. CASE UNCHANGED vars
  BY <1>7 DEF vars
<1>8. QED
  BY <1>1, <1>2, <1>3, <1>4, <1>5, <1>6, <1>7 DEF Next

(* Type correctness of the loop. *)
THEOREM TypeCorrect == Spec => []TypeOK
<1>1. QED
  BY InitTypeOK, NextTypeOK, PTL DEF Spec
-----------------------------------------------------------------------------
(* On a cloud that holds still the file and the kinds decide the plan. *)
LEMMA SteadyPlans ==
  ASSUME steady, NEW pl \in Plans
  PROVE  pl.drift = SteadyDrift /\ pl.create = FALSE /\ pl.fatal = FALSE
BY DEF Plans, PlannedDrifts

LEMMA NoDriftIsNil ==
  ASSUME NEW D
  PROVE  Drift(D) # NoDrift /\ Drift(D).pairs = D
BY DEF Drift, NoDrift

LEMMA InitLoopInv == Init => LoopInv
BY DEF Init, LoopInv, DropComesBeforeIgnore, ConvergedFileWasPlanned,
       GivesUpAsTheLastResort

(* What is left to plan once both patches hold every pair of the drift. *)
LEMMA OnlyHopelessSurvives ==
  ASSUME TypeOK, SteadyDrift \ Unreachable \subseteq ignored \ present
  PROVE  SteadyDrift = Hopeless
<1>1. ASSUME NEW p \in SteadyDrift PROVE p \in Hopeless
  BY <1>1 DEF SteadyDrift, Hopeless, Unreachable
<1>2. Hopeless \subseteq SteadyDrift
  BY DEF SteadyDrift
<1> QED
  BY <1>1, <1>2

LEMMA NextLoopInv == TypeOK /\ LoopInv /\ [Next]_vars => LoopInv'
<1> SUFFICES ASSUME TypeOK, LoopInv, [Next]_vars PROVE LoopInv'
  OBVIOUS
<1> USE DEF LoopInv, DropComesBeforeIgnore, ConvergedFileWasPlanned,
            GivesUpAsTheLastResort, file, Return
<1>0. UNCHANGED <<kind, steady>> /\ Unreachable' = Unreachable /\ Hopeless' = Hopeless
  BY DEF Next, vars, PlanStack, StepFails, DropDrift, Escalate, GiveUp, Validate,
         Unreachable, Hopeless
<1>1. CASE PlanStack
  <2>1. steady => plan'.drift = SteadyDrift
    BY <1>1, SteadyPlans DEF PlanStack
  <2>2. SteadyDrift' = SteadyDrift
    BY <1>0, <1>1 DEF PlanStack, SteadyDrift
  <2>3. outcome' = "converged" => ~Actionable(plan')
    BY <1>1 DEF PlanStack
  <2>4. outcome' # "stable"
    BY <1>1 DEF PlanStack
  <2>5. ~Actionable(plan') <=> (~Actionable(plan))'
    BY DEF Actionable
  <2>6. QED
    BY <1>0, <1>1, <2>1, <2>2, <2>3, <2>4, <2>5 DEF PlanStack
<1>2. CASE StepFails
  BY <1>0, <1>2 DEF StepFails
<1>3. CASE DropDrift
  <2>1. plan.drift \subseteq Pair /\ dropped \subseteq Pair
    BY DEF TypeOK, Plan
  <2>2. QED
    BY <1>0, <1>3, <2>1, NoDriftIsNil DEF DropDrift
<1>4. CASE Escalate
  <2>1. plan.drift \subseteq dropped
    BY <1>4, NoDriftIsNil DEF Escalate, DriftRecurs
  <2>2. QED
    BY <1>0, <1>4, <2>1, NoDriftIsNil DEF Escalate
<1>5. CASE GiveUp
  <2>1. plan.drift \subseteq dropped /\ plan.drift \subseteq escalated
    BY <1>5, NoDriftIsNil DEF GiveUp, DriftRecurs, EveryDriftAttrAlreadyEscalated
  <2>2. plan.drift \ Unreachable \subseteq ignored \ present
    BY <2>1
  <2>3. steady => plan.drift = Hopeless
    BY <1>5, <2>2, OnlyHopelessSurvives DEF GiveUp
  <2>4. QED
    BY <1>0, <1>5, <2>1, <2>2, <2>3 DEF GiveUp
<1>6. CASE Validate
  BY <1>0, <1>6 DEF Validate, NextIteration
<1>7. CASE UNCHANGED vars
  BY <1>0, <1>7 DEF vars, Actionable, SteadyDrift
<1>8. QED
  BY <1>1, <1>2, <1>3, <1>4, <1>5, <1>6, <1>7 DEF Next

THEOREM LoopInvariant == Spec => []LoopInv
<1>1. QED
  BY TypeCorrect, InitLoopInv, NextLoopInv, PTL DEF Spec

(* A stack reported converged is the stack the last plan found clean. *)
THEOREM ConvergedIsPlanned == Spec => []ConvergedFileWasPlanned
<1>1. LoopInv => ConvergedFileWasPlanned
  BY DEF LoopInv
<1>2. QED
  BY <1>1, LoopInvariant, PTL

(* No attribute is ignored before it was dropped. *)
THEOREM DropFirst == Spec => []DropComesBeforeIgnore
<1>1. LoopInv => DropComesBeforeIgnore
  BY DEF LoopInv
<1>2. QED
  BY <1>1, LoopInvariant, PTL

(* A drift given up as stable is one that both patches, in the file that    *)
(* Terraform planned, did not cure.                                         *)
THEOREM StableMeansPatched == Spec => []GivesUpAsTheLastResort
<1>1. LoopInv => GivesUpAsTheLastResort
  BY DEF LoopInv
<1>2. QED
  BY <1>1, LoopInvariant, PTL
-----------------------------------------------------------------------------
(* A plan with a replace or delete never reaches the patch step. *)
FatalStopsLoop == pc = "patch" => ~plan.fatal

LEMMA FatalStops == Spec => []FatalStopsLoop
<1>1. Init => FatalStopsLoop
  BY DEF Init, FatalStopsLoop
<1>2. FatalStopsLoop /\ [Next]_vars => FatalStopsLoop'
  BY DEF FatalStopsLoop, Next, vars, PlanStack, StepFails, DropDrift, Escalate,
         GiveUp, Validate, NextIteration, Return, Fatal
<1>3. QED
  BY <1>1, <1>2, PTL DEF Spec

(* generated.tf is not rewritten on a plan that replaces or deletes. *)
THEOREM FatalPlanIsNotPatched == Spec => NoWriteUnderFatalPlan
<1>1. FatalStopsLoop /\ [Next]_vars => [file' # file => ~plan.fatal]_vars
  BY DEF FatalStopsLoop, Next, vars, file, PlanStack, StepFails, DropDrift,
         Escalate, GiveUp, Validate, NextIteration
<1>2. QED
  BY <1>1, FatalStops, PTL DEF Spec, NoWriteUnderFatalPlan

(* Every escalation ignores some pair for the first time. *)
THEOREM EscalationIsProgress == Spec => EscalationProgresses
<1>1. [Next]_vars => [Escalate => /\ escalated \subseteq escalated'
                                  /\ escalated # escalated']_vars
  BY DEF Escalate, EveryDriftAttrAlreadyEscalated
<1>2. QED
  BY <1>1, PTL DEF Spec, EscalationProgresses
-----------------------------------------------------------------------------
(* What becomes of a stack whose cloud holds still, whatever its            *)
(* attributes: the kinds alone decide it.                                   *)
OfKind(k) == {p \in Pair : kind[p] = k}
Required == OfKind("required")
Droppable == OfKind("default")
CreateOnly == OfKind("createOnly")
Stubborn == CreateOnly \cup Hopeless
Stuck == OfKind("stuck")
Drifting == Droppable \cup Required \cup Stubborn

(* A steady run stops for one of three reasons, and the bound of the loop   *)
(* is none of them: an attribute that is required but drifts makes the file *)
(* invalid, one that neither patch cures makes the drift stable, and        *)
(* otherwise the stack converges.  Five iterations, Options' default, are   *)
(* enough for every verdict, four for convergence.                          *)
SteadyVerdict ==
  steady /\ pc = "done" =>
    \/ Required # {} /\ outcome = "invalid"
    \/ Required = {} /\ Hopeless = {} /\ outcome = "converged"
    \/ Required = {} /\ Hopeless # {} /\ outcome = "stable"
    \/ /\ Required = {} /\ outcome = "exhausted"
       /\ MaxIterations < IF Hopeless = {} THEN 4 ELSE 5

(* Nothing patched yet: the plan shows all that drifts. *)
FirstPlan ==
  /\ iter = 1 /\ present = Pair /\ ignored = {} /\ escalated = {}
  /\ pc = "patch" => plan.drift = Drifting

(* The drift was dropped once or twice; the schema defaults are gone, and   *)
(* what comes back is the stubborn part.                                    *)
AfterDrop(i) ==
  /\ present = Pair \ (Drifting \ Unreachable) /\ ignored = {} /\ escalated = {}
  /\ \/ i = 1 /\ prevDrift = Drift(Drifting) /\ Drifting # {}
     \/ i = 2 /\ prevDrift = Drift(Stubborn) /\ Drifting # Stubborn

(* The stubborn part was ignored; only what no patch cures comes back.      *)
AfterEscalation(i) ==
  /\ present = Pair \ (Drifting \ Unreachable)
  /\ ignored = CreateOnly \cup Stuck /\ escalated = Stubborn
  /\ \/ i \in {2, 3} /\ prevDrift = Drift(Stubborn)
     \/ i \in {3, 4} /\ prevDrift = Drift(Hopeless) /\ CreateOnly # {} /\ Hopeless # {}

(* The iterations of a steady run, seen at each of its stops. *)
SteadyInv ==
  steady =>
    /\ plan.create = FALSE /\ plan.fatal = FALSE
    /\ pc \in {"plan", "patch"} =>
         \/ FirstPlan
         \/ Required = {} /\ AfterDrop(iter - 1)
         \/ Required = {} /\ AfterEscalation(iter - 1)
    /\ pc = "patch" => plan.drift = SteadyDrift /\ plan.drift # {}
    /\ pc = "validate" =>
         AfterDrop(iter) \/ (Required = {} /\ AfterEscalation(iter))
    /\ pc = "validate" /\ Required # {} => iter = 1
    /\ SteadyVerdict

(* What a steady cloud plans at each stage of the loop. *)
LEMMA SteadyDrifts ==
  ASSUME TypeOK
  PROVE  /\ FirstPlan => SteadyDrift = Drifting
         /\ \A i : Required = {} /\ AfterDrop(i) => SteadyDrift = Stubborn
         /\ \A i : Required = {} /\ AfterEscalation(i) => SteadyDrift = Hopeless
BY DEF TypeOK, FirstPlan, AfterDrop, AfterEscalation, SteadyDrift, Drifting, Stubborn,
       Droppable, Required, CreateOnly, Stuck, OfKind, Hopeless, Unreachable

LEMMA SteadySteps == TypeOK /\ SteadyInv /\ [Next]_vars => SteadyInv'
<1> SUFFICES ASSUME TypeOK, SteadyInv, [Next]_vars, steady' PROVE SteadyInv'
  BY DEF SteadyInv
<1>1. kind' = kind /\ steady' = steady
  BY DEF Next, vars, PlanStack, StepFails, DropDrift, Escalate, GiveUp, Validate
<1>2. /\ Required' = Required /\ CreateOnly' = CreateOnly /\ Stubborn' = Stubborn
      /\ Drifting' = Drifting /\ Unreachable' = Unreachable
      /\ Hopeless' = Hopeless /\ Stuck' = Stuck
  BY <1>1 DEF Required, CreateOnly, Stubborn, Drifting, Droppable, OfKind, Unreachable,
         Hopeless, Stuck
<1>3. CASE PlanStack
  <2>1. /\ UNCHANGED <<present, ignored, iter, prevDrift, escalated>>
        /\ pc = "plan" /\ plan' \in Plans
    BY <1>3 DEF PlanStack
  <2>2. plan'.drift = SteadyDrift /\ plan'.create = FALSE /\ plan'.fatal = FALSE
    BY <1>1, <2>1, SteadyPlans
  <2>3. SteadyDrift' = SteadyDrift
    BY <1>1, <1>2, <2>1 DEF SteadyDrift
  <2>4. \/ FirstPlan
        \/ Required = {} /\ AfterDrop(iter - 1)
        \/ Required = {} /\ AfterEscalation(iter - 1)
    BY <1>1, <2>1 DEF SteadyInv
  <2>5. CASE SteadyDrift = {}
    <3>1. pc' = "done" /\ outcome' = "converged"
      BY <1>3, <2>2, <2>5 DEF PlanStack, Actionable, Fatal, Return
    <3>2. Required = {} /\ Hopeless = {}
      BY <2>4, <2>5, SteadyDrifts DEF Drifting, Stubborn
    <3> QED
      BY <1>2, <2>2, <3>1, <3>2 DEF SteadyInv, SteadyVerdict
  <2>6. CASE SteadyDrift # {}
    <3>1. pc' = "patch"
      BY <1>3, <2>2, <2>6 DEF PlanStack, Actionable, Fatal, Return
    <3>2. \/ FirstPlan'
          \/ Required = {} /\ AfterDrop(iter - 1)'
          \/ Required = {} /\ AfterEscalation(iter - 1)'
      <4>1. FirstPlan => FirstPlan'
        BY <1>2, <2>1, <2>2, SteadyDrifts DEF FirstPlan
      <4>2. AfterDrop(iter - 1) => AfterDrop(iter - 1)'
        BY <1>2, <2>1 DEF AfterDrop
      <4>3. AfterEscalation(iter - 1) => AfterEscalation(iter - 1)'
        BY <1>2, <2>1 DEF AfterEscalation
      <4> QED
        BY <2>4, <4>1, <4>2, <4>3
    <3> QED
      BY <1>2, <2>1, <2>2, <2>3, <2>6, <3>1, <3>2 DEF SteadyInv, SteadyVerdict
  <2> QED
    BY <2>5, <2>6
<1>4. CASE DropDrift
  <2>1. /\ pc = "patch" /\ pc' = "validate" /\ ~DriftRecurs
        /\ present' = present \ (plan.drift \ Unreachable)
        /\ prevDrift' = Drift(plan.drift)
        /\ UNCHANGED <<ignored, iter, plan, escalated>>
    BY <1>4 DEF DropDrift
  <2>2. plan.drift = SteadyDrift /\ plan.drift # {}
    BY <1>1, <2>1 DEF SteadyInv
  <2>3. CASE FirstPlan
    <3>1. plan.drift = Drifting
      BY <2>1, <2>3 DEF FirstPlan
    <3>2. AfterDrop(iter)'
      BY <1>2, <2>1, <2>2, <2>3, <3>1 DEF FirstPlan, AfterDrop
    <3> QED
      BY <1>1, <2>1, <2>3, <3>2 DEF SteadyInv, SteadyVerdict, FirstPlan
  <2>4. CASE Required = {} /\ AfterDrop(iter - 1)
    <3>1. plan.drift = Stubborn
      BY <2>2, <2>4, SteadyDrifts
    <3>2. iter = 2 /\ Drifting # Stubborn
      BY <2>1, <2>4, <3>1 DEF AfterDrop, DriftRecurs, TypeOK
    <3>3. present \ (plan.drift \ Unreachable) = present
      BY <2>4, <3>1 DEF AfterDrop, Drifting
    <3>4. AfterDrop(iter)'
      BY <1>2, <2>1, <2>4, <3>1, <3>2, <3>3 DEF AfterDrop
    <3> QED
      BY <1>1, <1>2, <2>1, <2>4, <3>4 DEF SteadyInv, SteadyVerdict
  <2>5. CASE Required = {} /\ AfterEscalation(iter - 1)
    <3>1. plan.drift = Hopeless
      BY <2>2, <2>5, SteadyDrifts
    <3>2. iter \in {3, 4} /\ Hopeless # Stubborn
      BY <2>1, <2>5, <3>1 DEF AfterEscalation, DriftRecurs, TypeOK
    <3>3. present \ (plan.drift \ Unreachable) = present
      BY <3>1, <2>5 DEF AfterEscalation, Drifting, Stubborn
    <3>4. AfterEscalation(iter)'
      BY <1>2, <2>1, <2>2, <2>5, <3>1, <3>2, <3>3 DEF AfterEscalation, Stubborn
    <3> QED
      BY <1>1, <1>2, <2>1, <2>5, <3>4 DEF SteadyInv, SteadyVerdict
  <2> QED
    BY <1>1, <2>1, <2>3, <2>4, <2>5 DEF SteadyInv
<1>5. CASE Escalate
  <2>1. /\ pc = "patch" /\ pc' = "validate" /\ DriftRecurs
        /\ ~(plan.drift \subseteq escalated)
        /\ ignored' = ignored \cup (plan.drift \ Unreachable)
        /\ escalated' = escalated \cup plan.drift
        /\ prevDrift' = Drift(plan.drift)
        /\ UNCHANGED <<present, iter, plan>>
    BY <1>5 DEF Escalate, EveryDriftAttrAlreadyEscalated
  <2>2. plan.drift = SteadyDrift
    BY <1>1, <2>1 DEF SteadyInv
  <2>3. ~FirstPlan
    BY <2>1 DEF FirstPlan, DriftRecurs
  <2>4. ~(Required = {} /\ AfterEscalation(iter - 1))
    BY <2>1, <2>2, SteadyDrifts DEF AfterEscalation, Stubborn
  <2>5. Required = {} /\ AfterDrop(iter - 1)
    BY <1>1, <2>1, <2>3, <2>4 DEF SteadyInv
  <2>6. plan.drift = Stubborn /\ iter \in {2, 3}
    <3>1. plan.drift = Stubborn
      BY <2>2, <2>5, SteadyDrifts
    <3>2. iter \in Nat /\ (iter - 1 = 1 \/ iter - 1 = 2)
      BY <2>5, DriftFixAssumption DEF AfterDrop, TypeOK
    <3> QED
      BY <3>1, <3>2
  <2>7. AfterEscalation(iter)'
    BY <1>2, <2>1, <2>5, <2>6 DEF AfterDrop, AfterEscalation, Stubborn, CreateOnly, OfKind,
       Hopeless, Stuck, Unreachable
  <2> QED
    BY <1>1, <1>2, <2>1, <2>5, <2>7 DEF SteadyInv, SteadyVerdict
<1>6. CASE GiveUp
  <2>1. /\ pc = "patch" /\ pc' = "done" /\ outcome' = "stable" /\ DriftRecurs
        /\ plan.drift \subseteq escalated /\ plan' = plan
    BY <1>6 DEF GiveUp, EveryDriftAttrAlreadyEscalated, Return
  <2>2. plan.drift = SteadyDrift /\ plan.drift # {}
    BY <1>1, <2>1 DEF SteadyInv
  <2>3. ~FirstPlan
    BY <2>1 DEF FirstPlan, DriftRecurs
  <2>4. ~(Required = {} /\ AfterDrop(iter - 1))
    BY <2>1, <2>2 DEF AfterDrop
  <2>5. Required = {} /\ AfterEscalation(iter - 1)
    BY <1>1, <2>1, <2>3, <2>4 DEF SteadyInv
  <2>6. Hopeless # {}
    BY <2>2, <2>5, SteadyDrifts
  <2> QED
    BY <1>1, <1>2, <2>1, <2>5, <2>6 DEF SteadyInv, SteadyVerdict
<1>7. CASE Validate
  <2>1. /\ pc = "validate"
        /\ UNCHANGED <<present, ignored, plan, prevDrift, escalated>>
    BY <1>7 DEF Validate
  <2>2. AfterDrop(iter) \/ (Required = {} /\ AfterEscalation(iter))
    BY <1>1, <2>1 DEF SteadyInv
  <2>3. Valid <=> Required = {}
    BY <2>2 DEF Valid, AfterDrop, AfterEscalation, Drifting, Required, OfKind, Unreachable,
       TypeOK
  <2>4. CASE Required # {}
    <3>1. pc' = "done" /\ outcome' = "invalid"
      BY <1>1, <1>7, <2>3, <2>4 DEF Validate, Return
    <3> QED
      BY <1>1, <1>2, <2>1, <2>4, <3>1 DEF SteadyInv, SteadyVerdict
  <2>5. CASE Required = {} /\ iter < MaxIterations
    <3>1. pc' = "plan" /\ iter' = iter + 1
      BY <1>1, <1>7, <2>3, <2>5 DEF Validate, NextIteration
    <3>2. iter' - 1 = iter
      BY <3>1 DEF TypeOK
    <3>3. (AfterDrop(iter - 1) \/ (Required = {} /\ AfterEscalation(iter - 1)))'
      BY <1>2, <2>1, <2>2, <2>5, <3>2 DEF AfterDrop, AfterEscalation
    <3> QED
      BY <1>1, <1>2, <2>1, <2>5, <3>1, <3>3 DEF SteadyInv, SteadyVerdict
  <2>6. CASE Required = {} /\ ~(iter < MaxIterations)
    <3>1. pc' = "done" /\ outcome' = "exhausted"
      BY <1>1, <1>7, <2>3, <2>6 DEF Validate, NextIteration, Return
    <3>2. iter = MaxIterations
      BY <2>6, DriftFixAssumption DEF TypeOK
    <3>3. MaxIterations < IF Hopeless = {} THEN 4 ELSE 5
      BY <2>2, <3>2 DEF AfterDrop, AfterEscalation
    <3> QED
      BY <1>1, <1>2, <2>1, <2>6, <3>1, <3>3 DEF SteadyInv, SteadyVerdict
  <2> QED
    BY <2>4, <2>5, <2>6
<1>8. CASE UNCHANGED vars
  BY <1>1, <1>2, <1>8
     DEF vars, SteadyInv, SteadyVerdict, FirstPlan, AfterDrop, AfterEscalation, SteadyDrift
<1> QED
  BY <1>1, <1>3, <1>4, <1>5, <1>6, <1>7, <1>8 DEF Next, StepFails

(* For every set of attributes: a steady stack gets the verdict its kinds   *)
(* call for, whatever the order in which the loop drops and ignores.        *)
THEOREM SteadyStacksGetTheirVerdict == Spec => []SteadyVerdict
<1>1. Init => SteadyInv
  BY DEF Init, SteadyInv, SteadyVerdict, FirstPlan, NoChanges
<1>2. SteadyInv => SteadyVerdict
  BY DEF SteadyInv, SteadyVerdict
<1> QED
  BY <1>1, <1>2, SteadySteps, TypeCorrect, PTL DEF Spec

(* With at least four iterations, that the loop returns is all that         *)
(* convergence of a patchable stack needs: fairness is used for nothing     *)
(* else.                                                                    *)
THEOREM ReturningIsConverging ==
  ASSUME MaxIterations >= 4
  PROVE  Spec /\ Returns => SteadyConverges
<1> DEFINE F == steady /\ Patchable
           D == pc = "done"
           C == outcome = "converged"
<1>1. TypeOK /\ F /\ [Next]_vars => F'
  BY DEF TypeOK, Patchable, Next, vars, PlanStack, StepFails, DropDrift, Escalate, GiveUp,
         Validate
<1>2. D /\ [Next]_vars => D'
  BY DEF Next, vars, PlanStack, StepFails, DropDrift, Escalate, GiveUp, Validate
<1>3. SteadyVerdict /\ F /\ D => C
  BY DriftFixAssumption DEF SteadyVerdict, Patchable, Required, OfKind, Hopeless, Unreachable
<1> QED
  BY <1>1, <1>2, <1>3, TypeCorrect, SteadyStacksGetTheirVerdict, PTL
     DEF Spec, Returns, SteadyConverges

(* The turns the loop still has, counted in steps. *)
StepsLeft ==
  3 * (MaxIterations - iter) + CASE pc = "plan"     -> 3
                                 [] pc = "patch"    -> 2
                                 [] pc = "validate" -> 1
                                 [] pc = "done"     -> 0

(* Every step uses one up, so a run takes at most 3 * MaxIterations of      *)
(* them, whatever Terraform answers.                                        *)
THEOREM EveryStepCounts ==
  Spec => [][StepsLeft' < StepsLeft /\ StepsLeft \in Nat /\ StepsLeft' \in Nat]_vars
<1>1. TypeOK => StepsLeft \in Nat
  BY DriftFixAssumption DEF TypeOK, StepsLeft
<1>2. TypeOK /\ TypeOK' /\ [Next]_vars =>
        [StepsLeft' < StepsLeft /\ StepsLeft \in Nat /\ StepsLeft' \in Nat]_vars
  <2>1. TypeOK' => StepsLeft' \in Nat
    BY DriftFixAssumption DEF TypeOK, StepsLeft
  <2> SUFFICES ASSUME TypeOK, TypeOK', Next PROVE StepsLeft' < StepsLeft
    BY <1>1, <2>1
  <2>2. CASE Validate
    BY <2>2, DriftFixAssumption DEF TypeOK, StepsLeft, Validate, NextIteration, Return
  <2>3. CASE PlanStack \/ StepFails \/ DropDrift \/ Escalate \/ GiveUp
    <3>1. iter' = iter
      BY <2>3 DEF PlanStack, StepFails, DropDrift, Escalate, GiveUp
    <3>2. \/ pc = "plan" /\ pc' \in {"patch", "done"}
          \/ pc = "patch" /\ pc' \in {"validate", "done"}
      BY <2>3 DEF PlanStack, StepFails, DropDrift, Escalate, GiveUp, Return
    <3> QED
      BY <3>1, <3>2, DriftFixAssumption DEF TypeOK, StepsLeft
  <2> QED
    BY <2>2, <2>3 DEF Next
<1> QED
  BY <1>2, TypeCorrect, PTL DEF Spec
=============================================================================
